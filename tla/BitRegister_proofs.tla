----------------------------- MODULE BitRegister_proofs -----------------------------
(***************************************************************************)
(* The bit buffers keep their registers (RegisterTypeCorrect), decode      *)
(* returns the field that is there (DecodesAlways), align stops at the     *)
(* byte boundary (AlwaysAligns), and the bytes are the fields one after    *)
(* the other (StreamAlwaysCalls), for bytes of any even number of bits,    *)
(* any fields and any widths.                                              *)
(*                                                                         *)
(* The reader's register always holds the bits of the file before its      *)
(* position (InFile).  Bits make a number (Val), and two numbers of bits   *)
(* side by side make a third (ValJoins): a byte fetched joins the register *)
(* so (Fetched), and the bits taken leave it so (Moved).  Every round of   *)
(* decode keeps this and takes a byte at least (RoundKeeps), so that four  *)
(* are enough.                                                             *)
(*                                                                         *)
(* The writer's stream is the bits of its bytes and of its register        *)
(* (Stream).  The whole bytes of a register and what is left of it are the *)
(* register (WholeBits), and a byte filled up is the register and zeros    *)
(* (FilledUp): so every call adds to the stream what Laid adds for it      *)
(* (CallMore).                                                             *)
(***************************************************************************)
EXTENDS BitRegister, BitStream_proofs

(* The number made of the n bits of s after the first a.                     *)
Val(s, a, n) == Num(Field(s, a, n))

(* Bit by bit.                                                               *)
LEMMA ValIs ==
  ASSUME NEW s \in BitSeq, NEW a \in Nat, NEW n \in Nat, a + n <= Len(s)
  PROVE  /\ Val(s, a, 0) = 0
         /\ n > 0 => Val(s, a, n) = 2 * Val(s, a, n - 1) + s[a + n]
<1>1. Val(s, a, 0) = 0
  <2>1. Len(Field(s, a, 0)) = 0
    BY FieldIs DEF BitSeq
  <2> QED BY <2>1, NumIs DEF Val
<1>2. ASSUME n > 0 PROVE Val(s, a, n) = 2 * Val(s, a, n - 1) + s[a + n]
  <2>1. /\ Len(Field(s, a, n)) = n /\ \A k \in 1..n : Field(s, a, n)[k] = s[a + k]
        /\ Len(Field(s, a, n - 1)) = n - 1 /\ \A k \in 1..(n - 1) : Field(s, a, n - 1)[k] = s[a + k]
    <3>1. n - 1 \in Nat /\ a + (n - 1) <= Len(s)
      BY <1>2 DEF BitSeq
    <3> QED BY <3>1, FieldIs
  <2>2. PICK f : /\ Val(s, a, n) = f[n] /\ f[0] = 0
                 /\ \A k \in 1..n : f[k] = 2 * f[k - 1] + Field(s, a, n)[k]
    <3> DEFINE bits == Field(s, a, n)
    <3>1. Num(bits) = Val(s, a, n) /\ Len(bits) = n
      BY <2>1 DEF Val
    <3> HIDE DEF bits
    <3>2. Len(bits) \in Nat
      BY <3>1
    <3>3. \E f : /\ Val(s, a, n) = f[n] /\ f[0] = 0
                 /\ \A k \in 1..n : f[k] = 2 * f[k - 1] + bits[k]
      BY <3>1, <3>2, NumIs, Zenon
    <3> QED BY <3>3 DEF bits
  <2>3. PICK g : /\ Val(s, a, n - 1) = g[n - 1] /\ g[0] = 0
                 /\ \A k \in 1..(n - 1) : g[k] = 2 * g[k - 1] + Field(s, a, n - 1)[k]
    <3> DEFINE bits == Field(s, a, n - 1)
               m    == n - 1
    <3>1. Num(bits) = Val(s, a, m) /\ Len(bits) = m
      BY <2>1 DEF Val
    <3>2. m \in Nat
      BY <1>2
    <3> HIDE DEF bits, m
    <3>3. \E g : /\ Val(s, a, m) = g[m] /\ g[0] = 0
                 /\ \A k \in 1..m : g[k] = 2 * g[k - 1] + bits[k]
      BY <3>1, <3>2, NumIs, Zenon
    <3> QED BY <3>3 DEF bits, m
  <2> DEFINE H == {k \in 0..(n - 1) : f[k] = g[k]}
  <2>4. 0 \in H
    BY <1>2, <2>2, <2>3
  <2>5. ASSUME NEW k \in 1..(n - 1), k - 1 \in H PROVE k \in H
    <3>1. f[k - 1] = g[k - 1]
      BY <2>5
    <3>2. k \in 1..n /\ k \in 0..(n - 1)
      OBVIOUS
    <3>3. Field(s, a, n)[k] = Field(s, a, n - 1)[k]
      BY <2>1, <3>2
    <3>4. f[k] = 2 * f[k - 1] + Field(s, a, n)[k] /\ g[k] = 2 * g[k - 1] + Field(s, a, n - 1)[k]
      BY <2>2, <2>3, <3>2
    <3>5. f[k] = g[k]
      BY <3>1, <3>3, <3>4
    <3> QED BY <3>2, <3>5
  <2>6. \A k \in 0..(n - 1) : k \in H
    <3>1. n - 1 \in Nat
      BY <1>2
    <3> HIDE DEF H
    <3> QED BY <2>4, <2>5, <3>1, CountUp, Zenon
  <2>7. f[n - 1] = g[n - 1]
    BY <1>2, <2>6
  <2> QED BY <1>2, <2>1, <2>2, <2>3, <2>7
<1> QED
  BY <1>1, <1>2

(* n bits make a number below the n-th power of two.                         *)
LEMMA ValRange ==
  ASSUME NEW s \in BitSeq, NEW a \in Nat, NEW n \in 0..WordBits, a + n <= Len(s)
  PROVE  Val(s, a, n) \in 0..(Power[n] - 1)
<1> DEFINE H == {k \in 0..n : Val(s, a, k) \in 0..(Power[k] - 1)}
<1>1. WordBits \in Nat /\ Len(s) \in Nat /\ n \in Nat
  BY ByteAssumption DEF WordBits, BitSeq
<1>2. 0 \in H
  BY <1>1, ValIs, PowerIs
<1>3. ASSUME NEW k \in 1..n, k - 1 \in H PROVE k \in H
  <2>1. Val(s, a, k) = 2 * Val(s, a, k - 1) + s[a + k]
    BY <1>1, ValIs
  <2>2. s[a + k] \in {0, 1}
    BY <1>1 DEF BitSeq
  <2>3. Power[k] = 2 * Power[k - 1] /\ Power[k - 1] \in Nat
    BY <1>1, PowerIs
  <2>4. Val(s, a, k - 1) \in 0..(Power[k - 1] - 1)
    BY <1>3
  <2>5. Val(s, a, k) \in 0..(Power[k] - 1)
    <3>1. ASSUME NEW u, NEW p, NEW x, u \in 0..(p - 1), p \in Nat, x \in {0, 1}
          PROVE  2 * u + x \in 0..((2 * p) - 1)
      BY <3>1
    <3> QED BY <2>1, <2>2, <2>3, <2>4, <3>1
  <2> QED BY <2>5
<1>4. \A k \in 0..n : k \in H
  <2> HIDE DEF H
  <2> QED BY <1>1, <1>2, <1>3, CountUp, Zenon
<1> QED
  BY <1>1, <1>4

(* Bits and the bits after them.                                             *)
Joined(s, a, n, m) == Val(s, a, n + m) = Val(s, a, n) * Power[m] + Val(s, a + n, m)

(* Two numbers of bits side by side make a third.                            *)
LEMMA ValJoins ==
  ASSUME NEW s \in BitSeq, NEW a \in Nat, NEW n \in Nat, NEW m \in Nat,
         n + m <= WordBits, a + n + m <= Len(s)
  PROVE  Joined(s, a, n, m)
<1> DEFINE H == {k \in 0..m : Joined(s, a, n, k)}
<1>1. WordBits \in Nat /\ Len(s) \in Nat
  BY ByteAssumption DEF WordBits, BitSeq
<1>2. Val(s, a, n) \in Nat
  <2>1. Val(s, a, n) \in 0..(Power[n] - 1)
    BY <1>1, ValRange
  <2> QED BY <2>1
<1>3. 0 \in H
  <2>1. Val(s, a + n, 0) = 0
    BY <1>1, ValIs
  <2> QED BY <1>2, <2>1, PowerIs DEF Joined
<1>4. ASSUME NEW k \in 1..m, k - 1 \in H PROVE k \in H
  <2>1. Val(s, a, n + k) = 2 * Val(s, a, (n + k) - 1) + s[a + (n + k)]
    BY <1>1, ValIs
  <2>2. Val(s, a + n, k) = 2 * Val(s, a + n, k - 1) + s[(a + n) + k]
    BY <1>1, ValIs
  <2>3. (n + k) - 1 = n + (k - 1) /\ a + (n + k) = (a + n) + k
    OBVIOUS
  <2>4. Val(s, a, n + (k - 1)) = Val(s, a, n) * Power[k - 1] + Val(s, a + n, k - 1)
    BY <1>4 DEF Joined
  <2>5. s[(a + n) + k] \in {0, 1}
    BY <1>1 DEF BitSeq
  <2>6. Val(s, a + n, k - 1) \in Nat
    <3>1. k - 1 \in 0..WordBits /\ a + n \in Nat /\ (a + n) + (k - 1) <= Len(s)
      BY <1>1
    <3>2. Val(s, a + n, k - 1) \in 0..(Power[k - 1] - 1)
      BY <3>1, ValRange
    <3>3. Power[k - 1] \in Nat
      BY <3>1, PowerIs
    <3> QED BY <3>2, <3>3
  <2>7. Power[k] = 2 * Power[k - 1] /\ Power[k - 1] \in Nat
    BY <1>1, PowerIs
  <2> DEFINE v == Val(s, a, n)
             p == Power[k - 1]
             u == Val(s, a + n, k - 1)
  <2>8. 2 * (v * p + u) = v * (2 * p) + 2 * u
    <3> HIDE DEF v, p, u
    <3>1. v \in Nat /\ p \in Nat /\ u \in Nat
      BY <1>2, <2>6, <2>7 DEF v, p, u
    <3> QED BY <3>1
  <2>9. v * (2 * p) \in Nat
    BY <1>2, <2>7
  <2>10. Val(s, a, n + k) = v * Power[k] + Val(s, a + n, k)
    <3> DEFINE x == s[(a + n) + k]
    <3>1. Val(s, a, n + k) = 2 * (v * p + u) + x
      <4>1. Val(s, a, (n + k) - 1) = v * p + u
        BY <2>3, <2>4
      <4> HIDE DEF u, v, p, x
      <4> QED BY <2>1, <2>3, <4>1 DEF x
    <3>2. Val(s, a + n, k) = 2 * u + x
      BY <2>2
    <3>3. 2 * (v * p + u) + x = v * (2 * p) + (2 * u + x)
      <4> HIDE DEF u, v, p, x
      <4>1. v * (2 * p) \in Nat /\ u \in Nat /\ x \in Nat
        BY <2>5, <2>6, <2>9 DEF u, v, p, x
      <4> QED BY <2>8, <4>1
    <3>4. v * (2 * p) = v * Power[k]
      BY <2>7
    <3> HIDE DEF u, v, p, x
    <3> QED BY <3>1, <3>2, <3>3, <3>4
  <2> QED BY <2>10 DEF Joined
<1>5. \A k \in 0..m : k \in H
  <2> HIDE DEF H
  <2> QED BY <1>3, <1>4, CountUp, Zenon
<1> QED
  BY <1>5

(* The bits of a file.                                                       *)
Byte == 0..(Power[ByteBits] - 1)

(* The bits of a file, and how many they are.                                *)
LEMMA BitsOfIs ==
  ASSUME NEW bytes \in Seq(Byte)
  PROVE  /\ BitsOf(bytes) \in BitSeq
         /\ Len(BitsOf(bytes)) = ByteBits * Len(bytes)
<1>1. Len(bytes) \in Nat /\ ByteBits \in Nat /\ ByteBits * Len(bytes) \in Nat /\ ByteBits # 0
  BY ByteAssumption
<1>2. ASSUME NEW j \in 1..(ByteBits * Len(bytes))
      PROVE  Bits(bytes[((j - 1) \div ByteBits) + 1], ByteBits)[((j - 1) % ByteBits) + 1] \in {0, 1}
  <2> DEFINE x == (j - 1) \div ByteBits
             y == (j - 1) % ByteBits
  <2>1. x \in Nat /\ y \in 0..(ByteBits - 1) /\ j - 1 = ByteBits * x + y
    BY <1>1
  <2> HIDE DEF x, y
  <2>2. x < Len(bytes)
    <3>1. SUFFICES ASSUME Len(bytes) <= x PROVE FALSE
      BY <1>1, <2>1
    <3>2. ByteBits * Len(bytes) <= ByteBits * x
      BY <1>1, <2>1, <3>1
    <3> QED BY <1>1, <2>1, <3>2
  <2>3. bytes[x + 1] \in Byte
    BY <1>1, <2>1, <2>2
  <2>4. Power[ByteBits - (y + 1)] \in Nat \ {0}
    <3>1. ByteBits - (y + 1) \in 0..WordBits
      BY <1>1, <2>1 DEF WordBits
    <3> QED BY <3>1, PowerIs
  <2>5. (bytes[x + 1] \div Power[ByteBits - (y + 1)]) % 2 \in {0, 1}
    <3> DEFINE b == bytes[x + 1]
               p == Power[ByteBits - (y + 1)]
    <3>1. b \in Nat /\ p \in Nat \ {0}
      BY <2>3, <2>4, PowerIs DEF Byte
    <3> HIDE DEF b, p
    <3>2. b \div p \in Nat
      BY <3>1
    <3>3. (b \div p) % 2 \in {0, 1}
      BY <3>2
    <3> QED BY <3>3 DEF b, p
  <2>6. Bits(bytes[x + 1], ByteBits)[y + 1] = (bytes[x + 1] \div Power[ByteBits - (y + 1)]) % 2
    BY <1>1, <2>1 DEF Bits
  <2>7. Bits(bytes[x + 1], ByteBits)[y + 1] \in {0, 1}
    BY <2>5, <2>6
  <2> QED BY <2>7 DEF x, y
<1>3. BitsOf(bytes) \in [1..(ByteBits * Len(bytes)) -> {0, 1}]
  BY <1>2 DEF BitsOf
<1> QED
  BY <1>1, <1>3 DEF BitSeq

(* The bits of a byte make the byte.                                         *)
LEMMA ByteValue ==
  ASSUME NEW bytes \in Seq(Byte), NEW p \in 0..(Len(bytes) - 1)
  PROVE  Val(BitsOf(bytes), p * ByteBits, ByteBits) = bytes[p + 1]
<1> DEFINE s == BitsOf(bytes)
           b == bytes[p + 1]
           a == p * ByteBits
           H == {k \in 0..ByteBits : Val(s, a, k) = b \div Power[ByteBits - k]}
<1>1. Len(bytes) \in Nat /\ ByteBits \in Nat \ {0} /\ p \in Nat /\ a \in Nat
  BY ByteAssumption
<1>2. s \in BitSeq /\ Len(s) = ByteBits * Len(bytes)
  BY BitsOfIs
<1>3. a + ByteBits <= Len(s)
  <2>1. ByteBits * (p + 1) <= ByteBits * Len(bytes)
    BY <1>1
  <2> QED BY <1>1, <1>2, <2>1
<1>4. b \in Byte /\ b \in Nat /\ b < Power[ByteBits] /\ Power[ByteBits] \in Nat \ {0}
  <2>1. ByteBits \in 0..WordBits
    BY <1>1 DEF WordBits
  <2> QED BY <1>1, <2>1, PowerIs DEF Byte
<1>5. ASSUME NEW k \in 1..ByteBits
      PROVE  s[a + k] = (b \div Power[ByteBits - k]) % 2
  <2>1. a + k \in 1..(ByteBits * Len(bytes))
    BY <1>1, <1>2, <1>3
  <2>2. (p * ByteBits + (k - 1)) \div ByteBits = p /\ (p * ByteBits + (k - 1)) % ByteBits = k - 1
    <3>1. k - 1 \in 0..(ByteBits - 1)
      BY <1>1
    <3> QED BY <1>1, <3>1, Divided
  <2>3. (a + k) - 1 = p * ByteBits + (k - 1)
    BY <1>1
  <2>4. s[a + k] = Bits(b, ByteBits)[(k - 1) + 1]
    BY <2>1, <2>2, <2>3 DEF BitsOf
  <2> QED BY <2>4 DEF Bits
<1> HIDE DEF s, b, a
<1>6. 0 \in H
  <2>1. Val(s, a, 0) = 0
    BY <1>1, <1>2, <1>3, ValIs
  <2>2. (0 * Power[ByteBits] + b) \div Power[ByteBits] = 0
    <3>1. b \in 0..(Power[ByteBits] - 1) /\ 0 \in Nat
      BY <1>4
    <3> QED BY <1>4, <3>1, Divided
  <2>3. 0 * Power[ByteBits] + b = b
    BY <1>4
  <2> QED BY <1>1, <2>1, <2>2, <2>3
<1>7. ASSUME NEW k \in 1..ByteBits, k - 1 \in H PROVE k \in H
  <2> DEFINE d == Power[ByteBits - k]
             x == b \div d
  <2>1. Val(s, a, k) = 2 * Val(s, a, k - 1) + s[a + k]
    <3>1. k \in Nat /\ k > 0 /\ a + k <= Len(s)
      BY <1>1, <1>2, <1>3
    <3> QED BY <1>1, <1>2, <3>1, ValIs
  <2>2. Power[ByteBits - (k - 1)] = 2 * d /\ d \in Nat \ {0}
    <3>1. ByteBits - (k - 1) \in 1..WordBits /\ ByteBits - k \in 0..WordBits
          /\ (ByteBits - (k - 1)) - 1 = ByteBits - k
      BY <1>1 DEF WordBits
    <3> QED BY <3>1, PowerIs
  <2>3. b \div (2 * d) = x \div 2 /\ x \in Nat
    BY <1>4, <2>2, Halved
  <2>4. Val(s, a, k - 1) = x \div 2
    BY <1>7, <2>2, <2>3
  <2>5. s[a + k] = x % 2
    BY <1>5
  <2> HIDE DEF x
  <2>6. x = 2 * (x \div 2) + (x % 2)
    BY <2>3
  <2>7. Val(s, a, k) = x
    BY <2>1, <2>4, <2>5, <2>6
  <2> QED BY <2>7 DEF x
<1>8. \A k \in 0..ByteBits : k \in H
  <2> HIDE DEF H
  <2> QED BY <1>1, <1>6, <1>7, CountUp, Zenon
<1>9. Val(s, a, ByteBits) = b \div Power[0]
  BY <1>1, <1>8
<1> QED
  BY <1>4, <1>9, PowerIs DEF s, a, b

(* A number made of n bits is the same in any register of n bits or more.    *)
LEMMA ValFits ==
  ASSUME NEW s \in BitSeq, NEW a \in Nat, NEW n \in 0..WordBits, a + n <= Len(s),
         NEW m \in n..WordBits
  PROVE  Val(s, a, n) % Power[m] = Val(s, a, n)
<1>1. WordBits \in Nat /\ n \in Nat /\ m \in Nat /\ m - n \in Nat
  BY ByteAssumption DEF WordBits
<1>2. Val(s, a, n) \in 0..(Power[n] - 1)
  BY ValRange
<1>3. Power[n + (m - n)] = Power[n] * Power[m - n]
  <2>1. n + (m - n) <= WordBits
    BY <1>1
  <2> QED BY <1>1, <2>1, PowerAdds
<1>4. Power[n] \in Nat \ {0} /\ Power[m - n] \in Nat \ {0} /\ n + (m - n) = m
  <2>1. m - n \in 0..WordBits
    BY <1>1
  <2> QED BY <1>1, <2>1, PowerIs
<1>5. Power[m] >= Power[n]
  <2>1. ASSUME NEW x \in Nat \ {0}, NEW y \in Nat \ {0} PROVE x * y >= x
    BY <2>1
  <2> QED BY <1>3, <1>4, <2>1
<1>6. Power[m] \in Nat \ {0} /\ Val(s, a, n) \in 0..(Power[m] - 1)
  BY <1>1, <1>2, <1>4, <1>5, PowerIs
<1>7. (0 * Power[m] + Val(s, a, n)) % Power[m] = Val(s, a, n)
  <2>1. 0 \in Nat
    OBVIOUS
  <2> QED BY <1>6, <2>1, Divided
<1>8. 0 * Power[m] + Val(s, a, n) = Val(s, a, n)
  BY <1>6
<1> QED
  BY <1>7, <1>8

(* What a number of n + m bits is divided into.                              *)
SplitsAt(s, a, n, m) ==
  /\ Val(s, a, n + m) \div Power[m] = Val(s, a, n)
  /\ Val(s, a, n + m) % Power[m] = Val(s, a + n, m)

(* A number of bits, cut in two.                                             *)
LEMMA ValSplits ==
  ASSUME NEW s \in BitSeq, NEW a \in Nat, NEW n \in Nat, NEW m \in Nat,
         n + m <= WordBits, a + n + m <= Len(s)
  PROVE  SplitsAt(s, a, n, m)
<1>1. WordBits \in Nat /\ Len(s) \in Nat
  BY ByteAssumption DEF WordBits, BitSeq
<1>2. Val(s, a, n + m) = Val(s, a, n) * Power[m] + Val(s, a + n, m)
  BY ValJoins DEF Joined
<1>3. Val(s, a, n) \in Nat
  <2>1. n \in 0..WordBits /\ a + n <= Len(s)
    BY <1>1
  <2>2. Val(s, a, n) \in 0..(Power[n] - 1)
    BY <2>1, ValRange
  <2> QED BY <2>2
<1>4. Val(s, a + n, m) \in 0..(Power[m] - 1) /\ Power[m] \in Nat \ {0}
  <2>1. m \in 0..WordBits /\ a + n \in Nat /\ (a + n) + m <= Len(s)
    BY <1>1
  <2> QED BY <2>1, ValRange, PowerIs
<1> QED
  <2> DEFINE x == Val(s, a, n)
             y == Val(s, a + n, m)
  <2> HIDE DEF x, y
  <2>1. (x * Power[m] + y) \div Power[m] = x /\ (x * Power[m] + y) % Power[m] = y
    BY <1>3, <1>4, Divided DEF x, y
  <2> QED BY <1>2, <2>1 DEF x, y, SplitsAt

(* The reader's register and, in the middle of decode, how far it is.        *)
Reader == [bits : Int, count : Int, position : Int, remaining : Int, result : Int,
           thrown : {"no", "end"}]

(* The register of the reader holds the last count bits before position.     *)
InFile(p, n, bits) ==
  /\ p \in 0..Len(file) /\ n \in Nat /\ n <= p * ByteBits
  /\ bits = Val(BitsOf(file), (p * ByteBits) - n, n)

(* After k rounds of decode(w), begun at bit at.                             *)
AfterRounds(r, k, at, w) ==
  /\ r \in Reader
  /\ InFile(r.position, r.count, r.bits) /\ r.count < ByteBits
  /\ r.remaining \in 0..w
  /\ (r.position * ByteBits) - r.count = at + (w - r.remaining)
  /\ r.result = Val(BitsOf(file), at, w - r.remaining)
  /\ \/ r.thrown = "no" /\ r.remaining = 0
     \/ r.thrown = "no" /\ r.remaining <= w - (k * ByteBits)
     \/ r.thrown = "end" /\ r.position = Len(file) /\ r.count < r.remaining

(* The bits of the file, and the places of its bytes.                        *)
LEMMA FileIs ==
  ASSUME file \in Seq(Byte)
  PROVE  /\ Len(file) \in Nat /\ ByteBits \in Nat \ {0}
         /\ BitsOf(file) \in BitSeq /\ Len(BitsOf(file)) = ByteBits * Len(file)
         /\ \A p \in 0..Len(file) : p * ByteBits \in Nat /\ p * ByteBits <= Len(BitsOf(file))
<1>1. Len(file) \in Nat /\ ByteBits \in Nat \ {0}
  BY ByteAssumption
<1>2. BitsOf(file) \in BitSeq /\ Len(BitsOf(file)) = ByteBits * Len(file)
  BY BitsOfIs
<1>3. ASSUME NEW p \in 0..Len(file)
      PROVE  p * ByteBits \in Nat /\ p * ByteBits <= ByteBits * Len(file)
  <2>1. p \in Nat /\ p <= Len(file)
    BY <1>1
  <2>2. ByteBits * p <= ByteBits * Len(file)
    BY <1>1, <2>1
  <2> QED BY <1>1, <2>1, <2>2
<1> QED
  BY <1>1, <1>2, <1>3

(* A byte fetched: the register holds the byte's bits too.                   *)
LEMMA Fetched ==
  ASSUME file \in Seq(Byte), NEW p \in Int, NEW n \in Int, NEW bits, InFile(p, n, bits),
         n < ByteBits, p # Len(file)
  PROVE  InFile(p + 1, n + ByteBits, (bits * Power[ByteBits] + file[p + 1]) % Power[WordBits])
<1> DEFINE s == BitsOf(file)
           a == (p * ByteBits) - n
<1>1. /\ Len(file) \in Nat /\ ByteBits \in Nat \ {0} /\ s \in BitSeq
      /\ p \in 0..Len(file) /\ p \in 0..(Len(file) - 1) /\ p + 1 \in 0..Len(file)
      /\ n \in Nat /\ p * ByteBits \in Nat /\ (p + 1) * ByteBits \in Nat
      /\ (p + 1) * ByteBits <= Len(s) /\ n <= p * ByteBits
  BY FileIs DEF InFile
<1>2. (p + 1) * ByteBits = (p * ByteBits) + ByteBits
  BY <1>1
<1>3. a \in Nat /\ a + n = p * ByteBits /\ ((p + 1) * ByteBits) - (n + ByteBits) = a
      /\ n + ByteBits <= (p + 1) * ByteBits /\ a + n + ByteBits <= Len(s) /\ n + ByteBits \in Nat
  BY <1>1, <1>2
<1>4. n + ByteBits \in 0..WordBits /\ n + ByteBits <= WordBits /\ WordBits \in Nat
  BY <1>1 DEF WordBits
<1>5. bits = Val(s, a, n)
  BY DEF InFile
<1>6. file[p + 1] = Val(s, p * ByteBits, ByteBits)
  BY <1>1, ByteValue
<1> HIDE DEF s, a
<1>7. Joined(s, a, n, ByteBits)
  BY <1>1, <1>3, <1>4, ValJoins
<1>8. Val(s, a, n + ByteBits) = bits * Power[ByteBits] + file[p + 1]
  BY <1>3, <1>5, <1>6, <1>7 DEF Joined
<1>9. Val(s, a, n + ByteBits) % Power[WordBits] = Val(s, a, n + ByteBits)
  <2>1. WordBits \in (n + ByteBits)..WordBits /\ a + (n + ByteBits) <= Len(s) /\ n + ByteBits \in 0..WordBits
    BY <1>1, <1>3, <1>4
  <2> DEFINE m == n + ByteBits
  <2> HIDE DEF m
  <2>2. Val(s, a, m) % Power[WordBits] = Val(s, a, m)
    BY <1>1, <1>3, <2>1, ValFits DEF m
  <2> QED BY <2>2 DEF m
<1> QED
  BY <1>1, <1>3, <1>8, <1>9 DEF InFile, s

(* The upper t bits of the register moved to the result.                     *)
TookBits(p, n, bits, t, done, at) ==
  /\ InFile(p, n - t, bits % Power[n - t])
  /\ (Val(BitsOf(file), at, done) * Power[t] + ((bits \div Power[n - t]) % Power[t]))
         % Power[WordBits]
       = Val(BitsOf(file), at, done + t)

(* Bits taken from the register leave it right for the place after them.     *)
LEMMA Moved ==
  ASSUME file \in Seq(Byte), NEW p \in Int, NEW n \in Int, NEW bits, InFile(p, n, bits),
         n <= WordBits, NEW t \in 0..n, NEW done \in Nat, NEW at \in Nat,
         at + done = (p * ByteBits) - n, done + t <= WordBits
  PROVE  TookBits(p, n, bits, t, done, at)
<1> DEFINE s == BitsOf(file)
           a == (p * ByteBits) - n
           l == n - t
<1>1. /\ Len(file) \in Nat /\ ByteBits \in Nat \ {0} /\ s \in BitSeq /\ Len(s) \in Nat
      /\ p \in 0..Len(file) /\ n \in Nat /\ p * ByteBits \in Nat
      /\ p * ByteBits <= Len(s) /\ n <= p * ByteBits /\ WordBits \in Nat
  <2>1. p \in 0..Len(file) /\ n \in Nat /\ n <= p * ByteBits
    BY Zenon DEF InFile
  <2>2. /\ Len(file) \in Nat /\ ByteBits \in Nat \ {0} /\ s \in BitSeq
        /\ p * ByteBits \in Nat /\ p * ByteBits <= Len(s)
    BY <2>1, FileIs, Zenon
  <2>3. Len(s) \in Nat
    BY <2>2 DEF BitSeq
  <2>4. WordBits \in Nat
    BY <2>2 DEF WordBits
  <2> QED BY <2>1, <2>2, <2>3, <2>4, Zenon
<1>2. /\ a \in Nat /\ l \in Nat /\ t \in Nat /\ t + l = n /\ a + t + l <= Len(s)
      /\ a + t = (p * ByteBits) - l /\ t + l <= WordBits /\ a = at + done /\ l <= p * ByteBits
      /\ at + done + t <= Len(s) /\ at + (done + t) <= Len(s) /\ done + t \in 0..WordBits
      /\ t \in 0..WordBits /\ a + t <= Len(s) /\ WordBits \in (done + t)..WordBits
      /\ t \in t..WordBits
  BY <1>1
<1>3. bits = Val(s, a, n)
  BY DEF InFile
<1> HIDE DEF s, a, l
<1>4. Val(s, a, t + l) \div Power[l] = Val(s, a, t) /\ Val(s, a, t + l) % Power[l] = Val(s, a + t, l)
  <2>1. SplitsAt(s, a, t, l)
    BY <1>1, <1>2, ValSplits
  <2> QED BY <2>1 DEF SplitsAt
<1>5. bits \div Power[l] = Val(s, a, t) /\ bits % Power[l] = Val(s, a + t, l)
  BY <1>2, <1>3, <1>4
<1>6. Val(s, a, t) % Power[t] = Val(s, a, t)
  BY <1>1, <1>2, ValFits
<1>7. Joined(s, at, done, t)
  BY <1>1, <1>2, ValJoins
<1>8. Val(s, at, done) * Power[t] + Val(s, a, t) = Val(s, at, done + t)
  BY <1>2, <1>7 DEF Joined
<1>9. Val(s, at, done + t) % Power[WordBits] = Val(s, at, done + t)
  <2> DEFINE m == done + t
  <2>1. m \in 0..WordBits /\ at + m <= Len(s) /\ WordBits \in m..WordBits
    BY <1>2
  <2> HIDE DEF m
  <2>2. Val(s, at, m) % Power[WordBits] = Val(s, at, m)
    BY <1>1, <2>1, ValFits
  <2> QED BY <2>2 DEF m
<1>10. InFile(p, l, bits % Power[l])
  BY <1>1, <1>2, <1>5 DEF InFile, s
<1> QED
  BY <1>5, <1>6, <1>8, <1>9, <1>10 DEF TookBits, s, l

(* A round of decode, by what it does to the register.                       *)
LEMMA RoundIs ==
  ASSUME NEW r \in Reader
  PROVE  Round(r) = IF r.remaining = 0 \/ r.thrown # "no" THEN r
                    ELSE IF Fetch(r).thrown # "no" THEN Fetch(r) ELSE Take(Fetch(r))
<1> DEFINE f == Fetch(r)
           F(x) == IF x.thrown # "no" THEN x ELSE Take(x)
<1>1. With(f, F) = F(f)
  <2> HIDE DEF f, F
  <2> QED BY DEF With
<1>2. Round(r) = IF r.remaining = 0 \/ r.thrown # "no" THEN r ELSE With(f, F)
  BY DEF Round
<1> QED
  BY <1>1, <1>2

(* A round's updates of the reader.                                          *)
Moves(f, v, m, n, b) == [f EXCEPT !.result = v, !.remaining = m, !.count = n, !.bits = b]

Adds(f, p, n, b)     == [f EXCEPT !.bits = b, !.count = n, !.position = p]

HasMoved(f, v, m, n, b, x) ==
  /\ x \in Reader /\ x.bits = b /\ x.count = n /\ x.position = f.position
  /\ x.remaining = m /\ x.result = v /\ x.thrown = f.thrown

HasAdded(f, p, n, b, x) ==
  /\ x \in Reader /\ x.bits = b /\ x.count = n /\ x.position = p
  /\ x.remaining = f.remaining /\ x.result = f.result /\ x.thrown = f.thrown

(* What Moves does to the fields of the reader.                              *)
LEMMA Updated ==
  ASSUME NEW f \in Reader, NEW v \in Int, NEW m \in Int, NEW n \in Int, NEW b \in Int, NEW x,
         x = Moves(f, v, m, n, b)
  PROVE  HasMoved(f, v, m, n, b, x)
<1> DEFINE x1 == [f EXCEPT !.result = v]
           x2 == [x1 EXCEPT !.remaining = m]
           x3 == [x2 EXCEPT !.count = n]
           x4 == [x3 EXCEPT !.bits = b]
<1>1. x = x4
  BY DEF Moves
<1>2. /\ x1 \in Reader /\ x1.bits = f.bits /\ x1.count = f.count /\ x1.position = f.position
      /\ x1.remaining = f.remaining /\ x1.result = v /\ x1.thrown = f.thrown
  BY DEF Reader
<1> HIDE DEF x1
<1>3. /\ x2 \in Reader /\ x2.bits = f.bits /\ x2.count = f.count /\ x2.position = f.position
      /\ x2.remaining = m /\ x2.result = v /\ x2.thrown = f.thrown
  BY <1>2 DEF Reader
<1> HIDE DEF x2
<1>4. /\ x3 \in Reader /\ x3.bits = f.bits /\ x3.count = n /\ x3.position = f.position
      /\ x3.remaining = m /\ x3.result = v /\ x3.thrown = f.thrown
  BY <1>3 DEF Reader
<1> HIDE DEF x3
<1>5. /\ x4 \in Reader /\ x4.bits = b /\ x4.count = n /\ x4.position = f.position
      /\ x4.remaining = m /\ x4.result = v /\ x4.thrown = f.thrown
  BY <1>4 DEF Reader
<1> QED
  BY <1>1, <1>5 DEF HasMoved

(* What Adds does to the fields of the reader.                               *)
LEMMA UpdatedByte ==
  ASSUME NEW f \in Reader, NEW p \in Int, NEW n \in Int, NEW b \in Int, NEW x,
         x = Adds(f, p, n, b)
  PROVE  HasAdded(f, p, n, b, x)
<1> DEFINE x1 == [f EXCEPT !.bits = b]
           x2 == [x1 EXCEPT !.count = n]
           x3 == [x2 EXCEPT !.position = p]
<1>1. x = x3
  BY DEF Adds
<1>2. /\ x1 \in Reader /\ x1.bits = b /\ x1.count = f.count /\ x1.position = f.position
      /\ x1.remaining = f.remaining /\ x1.result = f.result /\ x1.thrown = f.thrown
  BY DEF Reader
<1> HIDE DEF x1
<1>3. /\ x2 \in Reader /\ x2.bits = b /\ x2.count = n /\ x2.position = f.position
      /\ x2.remaining = f.remaining /\ x2.result = f.result /\ x2.thrown = f.thrown
  BY <1>2 DEF Reader
<1> HIDE DEF x2
<1>4. /\ x3 \in Reader /\ x3.bits = b /\ x3.count = n /\ x3.position = p
      /\ x3.remaining = f.remaining /\ x3.result = f.result /\ x3.thrown = f.thrown
  BY <1>3 DEF Reader
<1> QED
  BY <1>1, <1>4 DEF HasAdded

(* Places in the file, while decode is at work: of w bits from bit at, q     *)
(* remain, and the register holds the c bits before bit g.                   *)
Placed(at, w, q, c, g, t) ==
  /\ w - q \in Nat /\ (w - q) + t <= WordBits /\ at + (w - q) = g - c
  /\ (w - q) + t = w - (q - t) /\ c - t \in Nat /\ c - t <= WordBits /\ q - t \in Nat
  /\ g - (c - t) = at + (w - (q - t)) /\ at + ((w - q) + t) <= g
  /\ (w - q) + t \in 0..WordBits /\ at + ((w - q) + t) \in Nat

(* The place of the reader when some more bits of a field are taken.         *)
LEMMA PlacesAdd ==
  ASSUME NEW at \in Nat, NEW w \in 0..WordBits, NEW q \in 0..w, NEW c \in 0..WordBits,
         NEW g \in Int, g - c = at + (w - q), NEW t \in 0..c, t <= q, WordBits \in Nat
  PROVE  Placed(at, w, q, c, g, t)
  BY DEF Placed

(* The number in a register that holds bits of the file.                     *)
LEMMA InFileValue ==
  ASSUME file \in Seq(Byte), NEW p \in Int, NEW n \in 0..WordBits, NEW bits, InFile(p, n, bits)
  PROVE  bits \in 0..(Power[n] - 1) /\ bits \in Int /\ p \in 0..Len(file)
<1>1. /\ (p * ByteBits) - n \in Nat /\ ((p * ByteBits) - n) + n <= Len(BitsOf(file))
      /\ BitsOf(file) \in BitSeq /\ p \in 0..Len(file)
  BY FileIs, SMTT(40) DEF InFile
<1>2. Val(BitsOf(file), (p * ByteBits) - n, n) \in 0..(Power[n] - 1)
  BY <1>1, ValRange
<1> QED
  BY <1>1, <1>2 DEF InFile

(* The bits decode has not taken yet are short of what remains, or the next  *)
(* byte joins them.                                                          *)
LEMMA FetchKeeps ==
  ASSUME file \in Seq(Byte), NEW r \in Reader, InFile(r.position, r.count, r.bits),
         r.count < ByteBits, r.thrown = "no", NEW f, f = Fetch(r)
  PROVE  /\ f \in Reader /\ f.remaining = r.remaining /\ f.result = r.result
         /\ InFile(f.position, f.count, f.bits)
         /\ (f.position * ByteBits) - f.count = (r.position * ByteBits) - r.count
         /\ \/ f.thrown = "no" /\ f.count = r.count /\ r.count >= r.remaining
            \/ f.thrown = "no" /\ f.count = r.count + ByteBits /\ ~(r.count >= r.remaining)
            \/ f.thrown = "end" /\ f.position = Len(file) /\ f.count = r.count
               /\ f.count < f.remaining
<1>1. /\ r.position \in Int /\ r.count \in Int /\ r.remaining \in Int /\ r.bits \in Int
      /\ ByteBits \in Nat \ {0}
  BY ByteAssumption DEF Reader
<1>2. CASE r.count >= r.remaining
  BY <1>1, <1>2 DEF Fetch
<1>3. CASE ~(r.count >= r.remaining) /\ r.position = Len(file)
  <2>1. f = [r EXCEPT !.thrown = "end"]
    BY <1>3 DEF Fetch
  <2>2. /\ f \in Reader /\ f.bits = r.bits /\ f.count = r.count /\ f.position = r.position
        /\ f.remaining = r.remaining /\ f.result = r.result /\ f.thrown = "end"
    BY <2>1 DEF Reader
  <2> QED BY <1>1, <1>3, <2>2
<1>4. CASE ~(r.count >= r.remaining) /\ r.position # Len(file)
  <2> DEFINE p == r.position + 1
             n == r.count + ByteBits
             b == (r.bits * Power[ByteBits] + file[p]) % Power[WordBits]
  <2>1. f = Adds(r, p, n, b)
    BY <1>4 DEF Fetch, Adds
  <2>2. InFile(p, n, b)
    BY <1>1, <1>4, Fetched
  <2>3. p \in Int /\ n \in Int /\ n \in 0..WordBits
    BY <1>1 DEF WordBits, InFile
  <2> HIDE DEF p, n, b
  <2>4. b \in Int
    BY <2>2, <2>3, InFileValue
  <2>5. /\ f \in Reader /\ f.bits = b /\ f.count = n /\ f.position = p
        /\ f.remaining = r.remaining /\ f.result = r.result /\ f.thrown = r.thrown
    <3>1. HasAdded(r, p, n, b, f)
      BY <2>1, <2>3, <2>4, UpdatedByte, Zenon
    <3> QED BY <3>1, Zenon DEF HasAdded
  <2>6. (p * ByteBits) - n = (r.position * ByteBits) - r.count
    BY <1>1 DEF p, n
  <2> QED BY <1>4, <2>2, <2>5, <2>6 DEF n
<1> QED
  BY <1>2, <1>3, <1>4

Lesser(t, a, b) == a \in 0..WordBits /\ t \in 0..a /\ t \in Nat /\ t <= b

(* The lesser of two.                                                        *)
LEMMA LesserIs ==
  ASSUME NEW a \in Nat, a <= WordBits, WordBits \in Nat, NEW b \in Nat,
         NEW t, t = IF b < a THEN b ELSE a
  PROVE  Lesser(t, a, b)
  BY DEF Lesser

(* What remains is taken, or all the register has.                           *)
LEMMA TakeKeeps ==
  ASSUME file \in Seq(Byte), NEW w \in 0..WordBits, NEW at \in Nat, NEW f \in Reader,
         InFile(f.position, f.count, f.bits), f.count <= WordBits,
         f.remaining \in 0..w,
         (f.position * ByteBits) - f.count = at + (w - f.remaining),
         f.result = Val(BitsOf(file), at, w - f.remaining),
         NEW x, x = Take(f), NEW t, t = IF f.remaining < f.count THEN f.remaining ELSE f.count
  PROVE  /\ x \in Reader /\ InFile(x.position, x.count, x.bits)
         /\ x.count = f.count - t /\ x.remaining = f.remaining - t
         /\ (x.position * ByteBits) - x.count = at + (w - x.remaining)
         /\ x.result = Val(BitsOf(file), at, w - x.remaining)
         /\ x.thrown = f.thrown
<1> DEFINE done == w - f.remaining
           n == f.count - t
           m == f.remaining - t
           b == f.bits % Power[n]
           v == (f.result * Power[t] + ((f.bits \div Power[n]) % Power[t])) % Power[WordBits]
           s == BitsOf(file)
           g == f.position * ByteBits
<1>1. /\ f.position \in Int /\ f.count \in Int /\ f.remaining \in Int /\ f.bits \in Int
      /\ ByteBits \in Nat \ {0} /\ WordBits \in Nat /\ g \in Int
  BY ByteAssumption DEF Reader, WordBits
<1>2. f.count \in 0..WordBits /\ t \in 0..f.count /\ t \in Nat /\ t <= f.remaining
  <2>1. f.count \in Nat /\ f.count <= WordBits /\ f.remaining \in Nat
    <3>1. f.count \in Nat
      BY Zenon DEF InFile
    <3>2. f.remaining \in 0..w /\ f.remaining \in Int
      BY <1>1, Zenon
    <3> DEFINE q == f.remaining
    <3>3. q \in Nat
      <4>1. \A q1 : q1 \in 0..w => q1 \in Nat
        OBVIOUS
      <4> QED BY <3>2, <4>1, Zenon
    <3> QED BY <3>1, <3>3
  <2>2. Lesser(t, f.count, f.remaining)
    BY <1>1, <2>1, LesserIs, Zenon
  <2> QED BY <2>2, Zenon DEF Lesser
<1>3. /\ done \in Nat /\ done + t <= WordBits /\ at + done = g - f.count
      /\ done + t = w - m /\ n \in Nat /\ n <= WordBits /\ m \in Nat
      /\ g - n = at + (w - m) /\ at + (done + t) <= g /\ done + t \in 0..WordBits
      /\ at + (done + t) \in Nat
  <2> DEFINE q == f.remaining
             c == f.count
  <2>1. q \in 0..w /\ c \in 0..WordBits /\ g \in Int /\ g - c = at + (w - q)
        /\ t \in 0..c /\ t <= q
    BY <1>1, <1>2
  <2> HIDE DEF q, c, g
  <2>2. Placed(at, w, q, c, g, t)
    BY <1>1, <2>1, PlacesAdd, Zenon
  <2> QED BY <2>2, Zenon DEF Placed, q, c
<1>4. x = Moves(f, v, m, n, b)
  BY DEF Take, Moves
<1>5. f.result = Val(s, at, done)
  OBVIOUS
<1> HIDE DEF done
<1>6. InFile(f.position, n, b) /\ v = Val(s, at, done + t)
  <2>1. /\ InFile(f.position, f.count - t, f.bits % Power[f.count - t])
        /\ (Val(BitsOf(file), at, done) * Power[t]
             + ((f.bits \div Power[f.count - t]) % Power[t])) % Power[WordBits]
             = Val(BitsOf(file), at, done + t)
    <3>1. /\ f.count \in Int /\ f.position \in Int /\ t \in 0..f.count /\ done \in Nat
          /\ at + done = (f.position * ByteBits) - f.count /\ done + t <= WordBits
      <4>1. f.count \in Int /\ f.position \in Int /\ t \in 0..f.count
        BY <1>1, <1>2, Zenon
      <4>2. done \in Nat /\ done + t <= WordBits /\ at + done = g - f.count
        BY <1>3, Zenon
      <4> QED BY <4>1, <4>2
    <3>2. TookBits(f.position, f.count, f.bits, t, done, at)
      BY <3>1, Moved, Zenon
    <3> QED BY <3>2, Zenon DEF TookBits
  <2> QED BY <1>5, <2>1
<1>7. v \in Int
  <2>1. at + (done + t) <= Len(s) /\ done + t \in 0..WordBits /\ s \in BitSeq
    <3>1. f.position * ByteBits <= Len(s) /\ Len(s) \in Nat /\ s \in BitSeq /\ f.position * ByteBits \in Nat
      BY FileIs DEF InFile, BitSeq
    <3> HIDE DEF s, n, m
    <3>2. g <= Len(s) /\ g \in Nat
      BY <3>1
    <3> HIDE DEF g, s, done
    <3>4. at + (done + t) <= Len(s)
      <4>1. \A a \in Nat : \A l \in Nat : \A h \in Nat : (a <= h /\ h <= l) => a <= l
        OBVIOUS
      <4>2. at + (done + t) \in Nat /\ at + (done + t) <= g /\ Len(s) \in Nat
        BY <1>3, <3>1, Zenon
      <4> QED BY <3>2, <4>1, <4>2, Zenon
    <3> QED BY <1>3, <3>1, <3>4
  <2>2. Val(s, at, done + t) \in 0..(Power[done + t] - 1)
    <3> DEFINE y == done + t
    <3> HIDE DEF y, s
    <3>1. Val(s, at, y) \in 0..(Power[y] - 1)
      BY <2>1, ValRange DEF y
    <3> QED BY <3>1 DEF y
  <2> QED BY <1>6, <2>2
<1>8. b \in Int
  <2>1. n \in 0..WordBits /\ f.position \in Int
    BY <1>1, <1>3
  <2> HIDE DEF n, b
  <2> QED BY <1>6, <2>1, InFileValue
<1>9. n \in Int /\ m \in Int
  BY <1>3
<1> HIDE DEF n, m, b, v
<1>10. /\ x \in Reader /\ x.bits = b /\ x.count = n /\ x.position = f.position
       /\ x.remaining = m /\ x.result = v /\ x.thrown = f.thrown
  <2>1. HasMoved(f, v, m, n, b, x)
    BY <1>4, <1>7, <1>8, <1>9, Updated, Zenon
  <2> QED BY <2>1, Zenon DEF HasMoved
<1>11. x.result = Val(s, at, w - x.remaining)
  BY <1>3, <1>6, <1>10
<1>12. (x.position * ByteBits) - x.count = at + (w - x.remaining)
  BY <1>3, <1>10
<1>13. x.count = f.count - t /\ x.remaining = f.remaining - t
  BY <1>10 DEF n, m
<1> QED
  BY <1>6, <1>10, <1>11, <1>12, <1>13

(* A round takes a byte at least or all that remains.                        *)
Shrunk(w, m, c, u, after) ==
  c - u < ByteBits /\ m - u \in 0..w /\ (m - u = 0 \/ m - u <= w - after)

(* A round leaves fewer bits to read, by a byte at least.                    *)
LEMMA RoundShrinks ==
  ASSUME NEW w \in 1..WordBits, ByteBits \in Nat \ {0}, NEW m \in 0..w, m # 0,
         NEW n \in Nat, n < ByteBits, NEW before \in Nat, m <= w - before,
         NEW c, (c = n /\ n >= m) \/ (c = n + ByteBits /\ ~(n >= m)), NEW u, u = IF m < c THEN m ELSE c,
         WordBits \in Nat
  PROVE  Shrunk(w, m, c, u, before + ByteBits)
<1>1. CASE m < c
  BY <1>1 DEF Shrunk
<1>2. CASE ~(m < c)
  BY <1>2 DEF Shrunk
<1> QED
  BY <1>1, <1>2

(* A round keeps what the rounds before it established, and takes a byte at  *)
(* least or all that remains.                                                *)
LEMMA RoundKeeps ==
  ASSUME file \in Seq(Byte), NEW w \in 1..WordBits, NEW at \in Nat, NEW k \in 0..4,
         NEW r, AfterRounds(r, k, at, w)
  PROVE  AfterRounds(Round(r), k + 1, at, w)
<1>1. /\ r \in Reader /\ r.position \in Int /\ r.count \in Nat /\ r.remaining \in 0..w
      /\ ByteBits \in Nat \ {0} /\ WordBits \in Nat /\ WordBits = 4 * ByteBits
      /\ InFile(r.position, r.count, r.bits) /\ r.count < ByteBits
      /\ (r.position * ByteBits) - r.count = at + (w - r.remaining)
      /\ r.result = Val(BitsOf(file), at, w - r.remaining)
  BY ByteAssumption DEF AfterRounds, Reader, WordBits, InFile
<1>2. CASE r.remaining = 0 \/ r.thrown # "no"
  <2>1. Round(r) = r
    BY <1>1, <1>2, RoundIs
  <2> QED BY <1>1, <1>2, <2>1 DEF AfterRounds
<1>3. CASE r.remaining # 0 /\ r.thrown = "no"
  <2> DEFINE f == Fetch(r)
             x == Take(f)
  <2>1. Round(r) = IF f.thrown # "no" THEN f ELSE x
    BY <1>1, <1>3, RoundIs
  <2>2. /\ f \in Reader /\ f.remaining = r.remaining /\ f.result = r.result
        /\ InFile(f.position, f.count, f.bits)
        /\ (f.position * ByteBits) - f.count = (r.position * ByteBits) - r.count
        /\ \/ f.thrown = "no" /\ f.count = r.count /\ r.count >= r.remaining
           \/ f.thrown = "no" /\ f.count = r.count + ByteBits /\ ~(r.count >= r.remaining)
           \/ f.thrown = "end" /\ f.position = Len(file) /\ f.count = r.count
              /\ f.count < f.remaining
    BY <1>1, <1>3, FetchKeeps
  <2>3. r.remaining <= w - (k * ByteBits)
    BY <1>3 DEF AfterRounds
  <2>4. /\ (f.position * ByteBits) - f.count = at + (w - f.remaining)
        /\ f.remaining \in 0..w /\ f.result = Val(BitsOf(file), at, w - f.remaining)
    BY <1>1, <2>2, Zenon
  <2>5. CASE f.thrown # "no"
    <3>1. f.thrown = "end" /\ f.position = Len(file) /\ f.count < f.remaining /\ f.count = r.count
      BY <2>2, <2>5
    <3>2. f.count < ByteBits
      BY <1>1, <3>1, Zenon
    <3> QED BY <2>1, <2>2, <2>4, <2>5, <3>1, <3>2, Zenon DEF AfterRounds
  <2>6. CASE f.thrown = "no"
    <3> DEFINE t == IF f.remaining < f.count THEN f.remaining ELSE f.count
    <3>1. f.count \in Nat /\ f.count <= WordBits /\ f.remaining \in Nat /\ f.remaining # 0
      <4> DEFINE c == f.count
                 m == f.remaining
                 n == r.count
                 q == r.remaining
      <4>1. /\ n \in Nat /\ n < ByteBits /\ q \in 0..w /\ q # 0 /\ m = q
            /\ ByteBits \in Nat \ {0} /\ WordBits = 4 * ByteBits
            /\ c = n \/ c = n + ByteBits
        BY <1>1, <1>3, <2>2, <2>6, Zenon
      <4> HIDE DEF c, m, n, q
      <4>2. c \in Nat /\ c <= WordBits /\ m \in Nat /\ m # 0
        BY <4>1
      <4> QED BY <4>2 DEF c, m
    <3>2. /\ x \in Reader /\ InFile(x.position, x.count, x.bits)
          /\ x.count = f.count - t /\ x.remaining = f.remaining - t
          /\ (x.position * ByteBits) - x.count = at + (w - x.remaining)
          /\ x.result = Val(BitsOf(file), at, w - x.remaining)
          /\ x.thrown = f.thrown
      <4>1. w \in 0..WordBits
        BY <1>1
      <4> HIDE DEF f
      <4> QED BY <2>2, <2>4, <3>1, <4>1, TakeKeeps
    <3>3. x.count < ByteBits /\ x.remaining \in 0..w
          /\ (x.remaining = 0 \/ x.remaining <= w - ((k + 1) * ByteBits))
      <4>1. ASSUME NEW c, c = f.count, NEW m, m = f.remaining, NEW n, n = r.count, NEW u, u = t
            PROVE  c - u < ByteBits /\ m - u \in 0..w
                   /\ (m - u = 0 \/ m - u <= w - ((k + 1) * ByteBits))
        <5>1. /\ m \in 0..w /\ m # 0 /\ n \in Nat /\ n < ByteBits /\ ByteBits \in Nat \ {0}
              /\ m <= w - (k * ByteBits) /\ u = IF m < c THEN m ELSE c
              /\ (c = n /\ n >= m) \/ (c = n + ByteBits /\ ~(n >= m))
          BY <1>1, <1>3, <2>2, <2>3, <2>6, <3>1, <4>1
        <5>2. (k + 1) * ByteBits = (k * ByteBits) + ByteBits /\ k * ByteBits \in Nat
          <6>1. \A i \in Nat : \A b \in Nat : (i + 1) * b = (i * b) + b /\ i * b \in Nat
            OBVIOUS
          <6>2. k \in Nat /\ ByteBits \in Nat
            BY <5>1
          <6> QED BY <6>1, <6>2, Zenon
        <5> DEFINE before == k * ByteBits
                   after  == (k + 1) * ByteBits
        <5>3. after = before + ByteBits /\ before \in Nat /\ m <= w - before
          BY <5>1, <5>2
        <5> HIDE DEF before, after
        <5>4. Shrunk(w, m, c, u, before + ByteBits)
          BY <1>1, <5>1, <5>3, RoundShrinks, Zenon
        <5> QED BY <5>3, <5>4, Zenon DEF Shrunk, after
      <4> QED BY <3>2, <4>1
    <3> QED BY <2>1, <2>6, <3>2, <3>3, Zenon DEF AfterRounds
  <2> QED BY <2>5, <2>6
<1> QED
  BY <1>1, <1>2, <1>3

(* The rounds of decode.                                                     *)
RoundZero(w) == [bits |-> inBits, count |-> inCount, position |-> position,
                 remaining |-> w, result |-> 0, thrown |-> "no"]

(* decode, by what each of its rounds does.                                  *)
LEMMA DecodedIs ==
  ASSUME NEW w \in 1..WordBits
  PROVE  \E f : /\ Decoded(w) = f[5] /\ f[0] = RoundZero(w)
                /\ \A k \in 1..5 : f[k] = Round(f[k - 1])
<1> DEFINE n == 5
           First == RoundZero(w)
           Step(u, k) == Round(u)
           Up(m, f) == f = [k \in 0..m |-> IF k = 0 THEN First ELSE Step(f[k - 1], k)]
           bad == {m \in 0..n : ~\E f : Up(m, f)}
<1>1. n \in 0..n
  OBVIOUS
<1> HIDE DEF Step, First, n
<1>2. ASSUME bad # {} PROVE FALSE
  <2>1. bad \in SUBSET Nat
    BY <1>1
  <2>2. PICK m \in bad : \A j \in bad : m <= j
    <3> HIDE DEF bad
    <3> QED BY <1>2, <2>1, LeastNatural, Zenon
  <2>3. m \in 0..n /\ ~\E f : Up(m, f)
    BY <2>2
  <2>4. m # 0
    <3>1. Up(0, [k \in 0..0 |-> First])
      OBVIOUS
    <3> QED BY <2>3, <3>1
  <2>5. m - 1 \in 0..n /\ m - 1 \notin bad
    BY <1>1, <2>2, <2>3, <2>4
  <2>6. PICK f : Up(m - 1, f)
    BY <2>5
  <2> DEFINE h == [k \in 0..m |-> IF k = m THEN Step(f[m - 1], m) ELSE f[k]]
  <2>7. \A k \in 0..(m - 1) : f[k] = IF k = 0 THEN First ELSE Step(f[k - 1], k)
    BY <2>6
  <2>8. \A k \in 0..m : h[k] = IF k = 0 THEN First ELSE Step(h[k - 1], k)
    <3> TAKE k \in 0..m
    <3>1. k \in 0..(m - 1) \/ k = m
      BY <2>3
    <3>2. k # 0 => (k - 1 \in 0..m /\ k - 1 # m /\ h[k - 1] = f[k - 1])
      BY <2>3
    <3>3. CASE k = m
      BY <2>4, <3>2, <3>3
    <3>4. CASE k # m
      <4>1. k \in 0..(m - 1) /\ h[k] = f[k]
        BY <3>1, <3>4
      <4> QED BY <2>7, <3>2, <4>1
    <3> QED BY <3>3, <3>4
  <2>9. Up(m, h)
    BY <2>8
  <2> QED BY <2>3, <2>9
<1>3. \E f : Up(n, f)
  BY <1>1, <1>2
<1> DEFINE c == CHOOSE f : Up(n, f)
<1>4. Up(n, c)
  BY <1>3
<1>5. c[0] = First /\ \A k \in 1..n : c[k] = Step(c[k - 1], k)
  <2> HIDE DEF c
  <2> QED BY <1>1, <1>4
<1>6. Decoded(w) = c[n]
  BY DEF Decoded, Step, First, n, RoundZero
<1> HIDE DEF c
<1> QED
  BY <1>5, <1>6, Zenon DEF Step, First, n

(* What decode(w) returns or throws, and where it leaves the reader.         *)
Reads(at, w, r) ==
  /\ r.thrown = "no"  => /\ at + w <= Len(BitsOf(file))
                         /\ (r.position * ByteBits) - r.count = at + w
                         /\ r.result = Val(BitsOf(file), at, w)
  /\ r.thrown = "end" => ~(at + w <= Len(BitsOf(file)))
  /\ r.thrown \in {"no", "end"}
  /\ r \in Reader /\ InFile(r.position, r.count, r.bits) /\ r.count < ByteBits

(* decode returns the field that is there and leaves the register right for  *)
(* the place after it.                                                       *)
LEMMA DecodedReads ==
  ASSUME file \in Seq(Byte), InFile(position, inCount, inBits), inCount < ByteBits,
         NEW w \in 1..WordBits
  PROVE  Reads(Cursor, w, Decoded(w))
<1>1. /\ position \in Nat /\ inCount \in Nat /\ Cursor \in Nat /\ Cursor = (position * ByteBits) - inCount
      /\ ByteBits \in Nat \ {0} /\ WordBits = 4 * ByteBits /\ Len(file) \in Nat
      /\ BitsOf(file) \in BitSeq /\ Len(BitsOf(file)) = ByteBits * Len(file)
      /\ Cursor <= Len(BitsOf(file)) /\ position * ByteBits \in Nat
  <2> DEFINE p == position * ByteBits
  <2>1. /\ position \in 0..Len(file) /\ inCount \in Nat /\ inCount <= p /\ Cursor = p - inCount
        /\ WordBits = 4 * ByteBits
    BY DEF InFile, Cursor, WordBits
  <2>2. /\ Len(file) \in Nat /\ ByteBits \in Nat \ {0}
        /\ BitsOf(file) \in BitSeq /\ Len(BitsOf(file)) = ByteBits * Len(file)
        /\ p \in Nat /\ p <= Len(BitsOf(file)) /\ Len(BitsOf(file)) \in Nat
    BY <2>1, FileIs DEF BitSeq
  <2> HIDE DEF p
  <2>3. Cursor \in Nat /\ Cursor <= Len(BitsOf(file)) /\ position \in Nat
    <3>1. \A g \in Nat : \A l \in Nat : \A c \in Nat :
             (c <= g /\ g <= l) => (g - c \in Nat /\ g - c <= l)
      OBVIOUS
    <3> QED BY <2>1, <2>2, <3>1
  <2> QED BY <2>1, <2>2, <2>3 DEF p
<1>2. AfterRounds(RoundZero(w), 0, Cursor, w)
  <2>1. inBits \in Int
    <3>1. inCount \in 0..WordBits /\ position \in Int
      BY <1>1
    <3> QED BY <3>1, InFileValue
  <2>2. Val(BitsOf(file), Cursor, 0) = 0
    BY <1>1, ValIs
  <2>3. RoundZero(w) \in Reader
    BY <1>1, <2>1 DEF RoundZero, Reader
  <2>4. /\ RoundZero(w).bits = inBits /\ RoundZero(w).count = inCount
        /\ RoundZero(w).position = position /\ RoundZero(w).remaining = w
        /\ RoundZero(w).result = 0 /\ RoundZero(w).thrown = "no"
    BY DEF RoundZero
  <2>5. w - w = 0 /\ w \in 0..w /\ w <= w - (0 * ByteBits) /\ Cursor + 0 = Cursor
    BY <1>1
  <2> HIDE DEF RoundZero
  <2>6. /\ (RoundZero(w).position * ByteBits) - RoundZero(w).count = Cursor + (w - RoundZero(w).remaining)
        /\ RoundZero(w).result = Val(BitsOf(file), Cursor, w - RoundZero(w).remaining)
    BY <1>1, <2>2, <2>4, <2>5, Zenon
  <2> QED BY <2>3, <2>4, <2>5, <2>6, Zenon DEF AfterRounds
<1>3. PICK f : /\ Decoded(w) = f[5] /\ f[0] = RoundZero(w)
               /\ \A k \in 1..5 : f[k] = Round(f[k - 1])
  BY DecodedIs, Zenon
<1> DEFINE H == {k \in 0..5 : AfterRounds(f[k], k, Cursor, w)}
<1>4. 0 \in H
  BY <1>2, <1>3
<1>5. ASSUME NEW k \in 1..5, k - 1 \in H PROVE k \in H
  <2>1. k - 1 \in 0..4 /\ (k - 1) + 1 = k /\ k \in 0..5
    OBVIOUS
  <2>2. AfterRounds(f[k - 1], k - 1, Cursor, w)
    BY <1>5
  <2>3. AfterRounds(Round(f[k - 1]), (k - 1) + 1, Cursor, w)
    <3> DEFINE r == f[k - 1]
               i == k - 1
    <3> HIDE DEF r, i
    <3>1. AfterRounds(Round(r), i + 1, Cursor, w)
      BY <1>1, <2>1, <2>2, RoundKeeps, Zenon DEF r, i
    <3> QED BY <3>1 DEF r, i
  <2>4. f[k] = Round(f[k - 1])
    BY <1>3
  <2> QED BY <2>1, <2>3, <2>4
<1>6. \A k \in 0..5 : k \in H
  <2>1. 5 \in Nat
    OBVIOUS
  <2> HIDE DEF H
  <2> QED BY <1>4, <1>5, <2>1, CountUp, Zenon
<1> DEFINE r == Decoded(w)
<1>7. AfterRounds(r, 5, Cursor, w)
  BY <1>3, <1>6
<1> HIDE DEF r
<1>8. /\ r \in Reader /\ InFile(r.position, r.count, r.bits) /\ r.count < ByteBits
      /\ r.remaining \in 0..w
      /\ (r.position * ByteBits) - r.count = Cursor + (w - r.remaining)
      /\ r.result = Val(BitsOf(file), Cursor, w - r.remaining)
      /\ r.thrown \in {"no", "end"} /\ r.position \in 0..Len(file) /\ r.count \in Nat
  BY <1>7 DEF AfterRounds, Reader, InFile
<1>9. r.position * ByteBits \in Nat /\ r.position * ByteBits <= Len(BitsOf(file))
  BY <1>8, FileIs
<1>10. r.thrown = "no" => r.remaining = 0
  BY <1>1, <1>7, <1>8 DEF AfterRounds
<1>11. r.thrown = "end" => r.position = Len(file) /\ r.count < r.remaining
  BY <1>7 DEF AfterRounds
<1>12. r.thrown = "no" => /\ Cursor + w <= Len(BitsOf(file))
                          /\ (r.position * ByteBits) - r.count = Cursor + w
                          /\ r.result = Val(BitsOf(file), Cursor, w)
  <2>1. w - 0 = w
    OBVIOUS
  <2>2. SUFFICES ASSUME r.thrown = "no" PROVE
              /\ Cursor + w <= Len(BitsOf(file))
              /\ (r.position * ByteBits) - r.count = Cursor + w
              /\ r.result = Val(BitsOf(file), Cursor, w)
    OBVIOUS
  <2>3. /\ (r.position * ByteBits) - r.count = Cursor + w
        /\ r.result = Val(BitsOf(file), Cursor, w)
    BY <1>8, <1>10, <2>1, <2>2, Zenon
  <2>4. Cursor + w <= Len(BitsOf(file))
    <3>1. \A g \in Nat : \A l \in Nat : \A c \in Nat : g <= l => g - c <= l
      OBVIOUS
    <3>2. (r.position * ByteBits) - r.count <= Len(BitsOf(file))
      BY <1>8, <1>9, <3>1, FileIs DEF BitSeq
    <3> QED BY <2>3, <3>2, Zenon
  <2> QED BY <2>3, <2>4
<1>13. r.thrown = "end" => ~(Cursor + w <= Len(BitsOf(file)))
  <2>1. SUFFICES ASSUME r.thrown = "end" PROVE ~(Cursor + w <= Len(BitsOf(file)))
    OBVIOUS
  <2> DEFINE g == r.position * ByteBits
             c == r.count
             m == r.remaining
             l == Len(BitsOf(file))
  <2>2. g = l
    <3>1. g = Len(file) * ByteBits
      BY <1>11, <2>1
    <3> QED BY <1>1, <3>1
  <2>3. c \in Nat /\ m \in 0..w /\ c < m /\ g - c = Cursor + (w - m) /\ Cursor \in Nat /\ g \in Nat
    BY <1>1, <1>8, <1>9, <1>11, <2>1
  <2> HIDE DEF g, c, m, l
  <2>4. ~(Cursor + w <= l)
    BY <2>2, <2>3
  <2> QED BY <2>4 DEF l
<1> QED
  BY <1>8, <1>12, <1>13, Zenon DEF Reads, r

(* The inductive invariant: what the registers hold between calls, and what  *)
(* the last call of the reader did.                                          *)
WriterHolds ==
  /\ outCount \in 0..(ByteBits - 1) /\ outBits \in 0..(Power[outCount] - 1)
  /\ outBytes \in Seq(Byte) /\ file \in Seq(Byte) /\ reading \in BOOLEAN

ReaderHolds ==
  /\ InFile(position, inCount, inBits) /\ inCount < ByteBits
  /\ ~reading => position = 0 /\ inCount = 0 /\ inBits = 0 /\ last = NoCall

LastHolds ==
  /\ last.thrown \in {"no", "end", "length"}
  /\ DecodesFields /\ AlignStays

IInv == WriterHolds /\ ReaderHolds /\ LastHolds

(* Before the first byte is read.                                            *)
LEMMA NothingRead ==
  ASSUME NEW f \in Seq(Byte)
  PROVE  Val(BitsOf(f), 0, 0) = 0 /\ Len(f) \in Nat /\ 0 \in 0..Len(f)
<1>1. BitsOf(f) \in BitSeq /\ Len(BitsOf(f)) \in Nat
  BY BitsOfIs DEF BitSeq
<1> QED
  BY <1>1, ValIs

(* Initially.                                                                *)
LEMMA InitHolds ==
  ASSUME Init
  PROVE  IInv
<1>1. WriterHolds
  <2>1. 0 \in 0..(ByteBits - 1) /\ 0 \in 0..(Power[0] - 1)
    <3>1. Power[0] = 1
      BY PowerIs
    <3>2. 0 \in 0..(Power[0] - 1)
      BY <3>1
    <3>3. 0 \in 0..(ByteBits - 1)
      BY ByteAssumption
    <3> QED BY <3>2, <3>3
  <2>2. <<>> \in Seq(Byte) /\ FALSE \in BOOLEAN
    OBVIOUS
  <2> QED BY <2>1, <2>2, Zenon DEF Init, WriterHolds
<1>2. ReaderHolds
  <2>1. (0 * ByteBits) - 0 = 0 /\ 0 <= 0 * ByteBits /\ 0 < ByteBits
    BY ByteAssumption
  <2> QED BY <1>1, <2>1, NothingRead DEF Init, ReaderHolds, InFile, WriterHolds
<1>3. LastHolds
  BY DEF Init, LastHolds, NoCall, DecodesFields, AlignStays
<1> QED
  BY <1>1, <1>2, <1>3 DEF IInv

(* The number in the writer's register, with a field shifted in.             *)
LEMMA ShiftedNat ==
  ASSUME WriterHolds, NEW n \in Int, NEW w \in 0..WordBits, NEW bits \in ShiftedIn(n, w)
  PROVE  bits \in Nat
<1>1. WordBits \in Nat /\ w \in Nat /\ ByteBits \in Nat \ {0}
  BY ByteAssumption DEF WordBits
<1>2. Power[w] \in Nat \ {0} /\ Power[WordBits] \in Nat \ {0}
  BY <1>1, PowerIs
<1>3. n % Power[w] \in Nat
  BY <1>2
<1>4. outBits \in Nat
  BY DEF WriterHolds
<1>5. CASE w = WordBits
  <2> DEFINE x == [i \in 1..WordBits |-> IF 1 \in {Bits(outBits, WordBits)[i], Bits(n % Power[w], WordBits)[i]}
                                        THEN 1 ELSE 0]
  <2>1. x \in BitSeq
    BY <1>1 DEF BitSeq
  <2>2. Num(x) \in Nat
    <3> HIDE DEF x
    <3> QED BY <2>1, NumNat
  <2>3. BitOr(outBits, n % Power[w]) \in Nat
    BY <2>2 DEF BitOr
  <2> QED BY <1>3, <1>5, <2>3 DEF ShiftedIn
<1>6. CASE w # WordBits
  <2> DEFINE d == n % Power[w]
  <2>1. (outBits * Power[w] + d) % Power[WordBits] \in Nat
    <3> HIDE DEF d
    <3>1. d \in Nat
      BY <1>3 DEF d
    <3>2. outBits * Power[w] + d \in Nat
      BY <1>2, <1>4, <3>1
    <3> QED BY <1>2, <3>2
  <2> QED BY <1>6, <2>1 DEF ShiftedIn
<1> QED
  BY <1>5, <1>6

(* The whole bytes of a register are bytes.                                  *)
LEMMA WholeBytesAre ==
  ASSUME NEW bits \in Nat, NEW count \in Nat, count < WordBits + ByteBits
  PROVE  WholeBytes(bits, count) \in Seq(Byte)
<1>1. WordBits \in Nat /\ ByteBits \in Nat \ {0} /\ WordBits >= ByteBits
  BY ByteAssumption DEF WordBits
<1>2. count \div ByteBits \in Nat /\ (count \div ByteBits) * ByteBits <= count
  <2>1. count \div ByteBits \in Nat /\ count % ByteBits \in Nat
        /\ count = ByteBits * (count \div ByteBits) + (count % ByteBits)
    BY <1>1
  <2> DEFINE q == count \div ByteBits
             r == count % ByteBits
  <2> HIDE DEF q, r
  <2>2. q * ByteBits <= count
    BY <1>1, <2>1 DEF q, r
  <2> QED BY <2>1, <2>2 DEF q
<1>3. ASSUME NEW i \in 1..(count \div ByteBits)
      PROVE  (bits \div Power[count - i * ByteBits]) % Power[ByteBits] \in Byte
  <2> DEFINE q == count \div ByteBits
             p == Power[count - i * ByteBits]
  <2>1. i * ByteBits <= count /\ ByteBits <= i * ByteBits /\ i * ByteBits \in Nat
    <3>1. q \in Nat /\ q * ByteBits <= count /\ i \in 1..q
      BY <1>2
    <3> HIDE DEF q
    <3>2. i * ByteBits <= q * ByteBits /\ ByteBits <= i * ByteBits
      <4>1. ASSUME NEW x \in Nat, NEW y \in Nat, NEW b \in Nat, x <= y PROVE x * b <= y * b
        BY <4>1
      <4>2. 1 * ByteBits = ByteBits /\ 1 \in Nat /\ i \in Nat /\ 1 <= i /\ i <= q
        BY <1>1, <3>1
      <4> QED BY <1>1, <3>1, <4>1, <4>2
    <3> QED BY <1>1, <3>1, <3>2
  <2>2. count - i * ByteBits \in 0..WordBits
    BY <1>1, <2>1
  <2>3. p \in Nat \ {0}
    BY <2>2, PowerIs
  <2> HIDE DEF p
  <2>4. bits \div p \in Nat
    BY <2>3
  <2>5. Power[ByteBits] \in Nat \ {0}
    BY <1>1, PowerIs
  <2>6. (bits \div p) % Power[ByteBits] \in 0..(Power[ByteBits] - 1)
    BY <2>4, <2>5
  <2> QED BY <2>6 DEF p, Byte
<1> QED
  BY <1>2, <1>3 DEF WholeBytes

(* pack leaves an empty register.                                            *)
LEMMA PackedHolds ==
  ASSUME WriterHolds
  PROVE  /\ Packed.bytes \in Seq(Byte) /\ Packed.count = 0
         /\ Packed.bits \in 0..(Power[0] - 1)
<1>1. WordBits \in Nat /\ ByteBits \in Nat \ {0} /\ WordBits >= ByteBits
  BY ByteAssumption DEF WordBits
<1>2. outCount \in 0..(ByteBits - 1) /\ outBits \in 0..(Power[outCount] - 1) /\ outBytes \in Seq(Byte)
  BY DEF WriterHolds
<1>3. Power[0] = 1
  BY PowerIs
<1>4. CASE outCount = 0
  <2>1. Packed = [bytes |-> outBytes, bits |-> outBits, count |-> 0]
    BY <1>4 DEF Packed
  <2> QED BY <1>2, <1>4, <2>1
<1>5. CASE outCount # 0
  <2> DEFINE p == Power[outCount]
             q == Power[ByteBits - outCount]
  <2>1. outCount \in 0..WordBits /\ ByteBits - outCount \in 0..WordBits
        /\ outCount + (ByteBits - outCount) = ByteBits /\ ByteBits <= WordBits
        /\ outCount \in Nat /\ ByteBits - outCount \in Nat
    BY <1>1, <1>2
  <2>2. p \in Nat \ {0} /\ q \in Nat \ {0} /\ Power[ByteBits] = p * q
    <3>1. Power[outCount + (ByteBits - outCount)] = p * q
      BY <2>1, PowerAdds
    <3> QED BY <2>1, <3>1, PowerIs
  <2>3. outBits * q \in Byte
    <3>1. ASSUME NEW x \in Nat, NEW P \in Nat, NEW Q \in Nat \ {0}, x <= P - 1
          PROVE  x * Q \in 0..(P * Q - 1)
      <4>1. x * Q <= (P - 1) * Q
        BY <3>1
      <4>2. (P - 1) * Q = P * Q - Q /\ x * Q \in Nat /\ P * Q \in Nat
        BY <3>1
      <4> QED BY <3>1, <4>1, <4>2
    <3>2. outBits \in Nat /\ outBits <= p - 1
      BY <1>2
    <3> HIDE DEF p, q
    <3>3. outBits * q \in 0..(p * q - 1)
      BY <2>2, <3>1, <3>2
    <3> QED BY <2>2, <3>3 DEF Byte
  <2>4. Packed = [bytes |-> Append(outBytes, outBits * q), bits |-> 0, count |-> 0]
    BY <1>5 DEF Packed
  <2> HIDE DEF p, q
  <2> QED BY <1>2, <1>3, <2>3, <2>4
<1> QED
  BY <1>4, <1>5

(* Every operation of the writer,                                            *)
LEMMA EncodeKeeps ==
  ASSUME IInv, NEW f \in Fields, Encode(f)
  PROVE  IInv'
<1>1. f.n \in Int /\ f.w \in 0..WordBits
  BY FieldsAssumption
<1>2. WordBits \in Nat /\ ByteBits \in Nat \ {0} /\ WordBits >= ByteBits /\ f.w \in Nat
  BY <1>1, ByteAssumption DEF WordBits
<1>3. outCount \in 0..(ByteBits - 1) /\ outBytes \in Seq(Byte) /\ file \in Seq(Byte)
      /\ reading \in BOOLEAN
  BY DEF IInv, WriterHolds
<1>4. PICK bits \in ShiftedIn(f.n, f.w) :
           /\ outBytes' = outBytes \o WholeBytes(bits, outCount + f.w)
           /\ outBits' = bits % Power[(outCount + f.w) % ByteBits]
           /\ outCount' = (outCount + f.w) % ByteBits
  BY DEF Encode
<1>5. UNCHANGED <<file, reading, position, inBits, inCount, last>>
  BY DEF Encode, inVars
<1>6. bits \in Nat
  BY <1>1, ShiftedNat DEF IInv
<1> DEFINE count == outCount + f.w
<1>7. count \in Nat /\ count < WordBits + ByteBits /\ count % ByteBits \in 0..(ByteBits - 1)
  <2>1. outCount \in 0..(ByteBits - 1) /\ f.w \in 0..WordBits
    BY <1>1, <1>3, Zenon
  <2> DEFINE w == f.w
  <2>2. w \in 0..WordBits
    BY <2>1
  <2> HIDE DEF w
  <2>3. ASSUME NEW c, c = outCount + w PROVE c \in Nat /\ c < WordBits + ByteBits
    BY <1>2, <2>1, <2>2, <2>3
  <2>4. count \in Nat /\ count < WordBits + ByteBits
    BY <2>3 DEF w
  <2> HIDE DEF count
  <2>5. count % ByteBits \in 0..(ByteBits - 1)
    BY <1>2, <2>4
  <2> QED BY <2>4, <2>5
<1> HIDE DEF count
<1>8. WholeBytes(bits, count) \in Seq(Byte)
  BY <1>6, <1>7, WholeBytesAre
<1>9. outBytes' \in Seq(Byte)
  BY <1>3, <1>4, <1>8, ConcatProperties, Zenon DEF count
<1>10. outBits' \in 0..(Power[outCount'] - 1) /\ outCount' \in 0..(ByteBits - 1)
  <2>1. outCount' = count % ByteBits /\ outBits' = bits % Power[outCount']
    BY <1>4, Zenon DEF count
  <2>2. outCount' \in 0..(ByteBits - 1) /\ outCount' \in 0..WordBits
    BY <1>2, <1>7, <2>1
  <2>3. Power[outCount'] \in Nat \ {0}
    BY <2>2, PowerIs
  <2> QED BY <1>6, <2>1, <2>2, <2>3
<1>11. WriterHolds'
  BY <1>3, <1>5, <1>9, <1>10, Zenon DEF WriterHolds
<1>12. ReaderHolds' /\ LastHolds'
  <2>1. (ReaderHolds /\ LastHolds) /\ file' = file /\ reading' = reading /\ position' = position
        /\ inBits' = inBits /\ inCount' = inCount /\ last' = last
    BY <1>5, Zenon DEF IInv
  <2> QED BY <2>1, Zenon DEF ReaderHolds, LastHolds, InFile, DecodesFields, AlignStays, Cursor
<1> QED
  BY <1>11, <1>12, Zenon DEF IInv

(* pack among them,                                                          *)
LEMMA PackKeeps ==
  ASSUME IInv, Pack
  PROVE  IInv'
<1>1. /\ Packed.bytes \in Seq(Byte) /\ Packed.count = 0 /\ Packed.bits \in 0..(Power[0] - 1)
      /\ ByteBits \in Nat \ {0}
  BY PackedHolds, ByteAssumption DEF IInv
<1>2. WriterHolds'
  <2>1. 0 \in 0..(ByteBits - 1)
    BY <1>1
  <2> QED BY <1>1, <2>1, Zenon DEF Pack, IInv, WriterHolds
<1>3. ReaderHolds' /\ LastHolds'
  <2>1. (ReaderHolds /\ LastHolds) /\ file' = file /\ reading' = reading /\ position' = position
        /\ inBits' = inBits /\ inCount' = inCount /\ last' = last
    BY Zenon DEF IInv, Pack, inVars
  <2> QED BY <2>1, Zenon DEF ReaderHolds, LastHolds, InFile, DecodesFields, AlignStays, Cursor
<1> QED
  BY <1>2, <1>3, Zenon DEF IInv

(* and writing the buffer to the file;                                       *)
LEMMA WriteKeeps ==
  ASSUME IInv, Write
  PROVE  IInv'
<1>1. /\ Packed.bytes \in Seq(Byte) /\ ByteBits \in Nat \ {0} /\ Power[0] = 1
  BY PackedHolds, PowerIs, ByteAssumption DEF IInv
<1>2. /\ file' = file \o Packed.bytes /\ outBytes' = <<>> /\ outBits' = 0 /\ outCount' = 0
      /\ ~reading /\ reading' = reading /\ position' = position
      /\ inBits' = inBits /\ inCount' = inCount /\ last' = last
  BY Zenon DEF Write, inVars
<1>3. file' \in Seq(Byte)
  BY <1>1, <1>2, ConcatProperties, Zenon DEF IInv, WriterHolds
<1>4. WriterHolds'
  <2>1. 0 \in 0..(ByteBits - 1) /\ 0 \in 0..(Power[0] - 1) /\ <<>> \in Seq(Byte)
    BY <1>1
  <2> QED BY <1>2, <1>3, <2>1, Zenon DEF IInv, WriterHolds
<1>5. position = 0 /\ inCount = 0 /\ inBits = 0 /\ last = NoCall
  BY <1>2 DEF IInv, ReaderHolds
<1>6. InFile(position, inCount, inBits)'
  <2>1. Val(BitsOf(file'), 0, 0) = 0 /\ 0 \in 0..Len(file')
    BY <1>3, NothingRead, Zenon
  <2>2. (0 * ByteBits) - 0 = 0 /\ 0 <= 0 * ByteBits /\ 0 \in Nat
    BY <1>1
  <2>3. position' = 0 /\ inCount' = 0 /\ inBits' = 0
    BY <1>2, <1>5, Zenon
  <2> QED BY <2>1, <2>2, <2>3, Zenon DEF InFile
<1>7. ReaderHolds'
  BY <1>1, <1>2, <1>5, <1>6 DEF ReaderHolds
<1>8. LastHolds'
  <2>1. last' = NoCall
    BY <1>2, <1>5, Zenon
  <2> QED BY <2>1 DEF NoCall, LastHolds, DecodesFields, AlignStays
<1> QED
  BY <1>4, <1>7, <1>8, Zenon DEF IInv

(* every operation of the reader:                                            *)
LEMMA ReadKeeps ==
  ASSUME IInv, Read
  PROVE  IInv'
<1>1. /\ file' = file /\ outBytes' = outBytes /\ outBits' = outBits /\ outCount' = outCount
      /\ reading' = TRUE /\ position' = 0 /\ inBits' = 0 /\ inCount' = 0 /\ last' = NoCall
  BY Zenon DEF Read
<1>2. WriterHolds'
  <2>1. reading' \in BOOLEAN
    BY <1>1
  <2> QED BY <1>1, <2>1, Zenon DEF IInv, WriterHolds
<1>3. InFile(position, inCount, inBits)'
  <2>1. Val(BitsOf(file), 0, 0) = 0 /\ 0 \in 0..Len(file)
    BY NothingRead, Zenon DEF IInv, WriterHolds
  <2>2. (0 * ByteBits) - 0 = 0 /\ 0 <= 0 * ByteBits /\ 0 \in Nat
    BY ByteAssumption
  <2> QED BY <1>1, <2>1, <2>2, Zenon DEF InFile
<1>4. ReaderHolds'
  <2>1. 0 < ByteBits
    BY ByteAssumption
  <2> QED BY <1>1, <1>3, <2>1, Zenon DEF ReaderHolds
<1>5. LastHolds'
  BY <1>1 DEF NoCall, LastHolds, DecodesFields, AlignStays
<1> QED
  BY <1>2, <1>4, <1>5, Zenon DEF IInv

(* What a call of the reader leaves unchanged keeps the writer.              *)
LEMMA SettleKeepsWriter ==
  ASSUME IInv, NEW call, NEW w, NEW r, Settle(call, w, r)
  PROVE  WriterHolds' /\ file' = file /\ reading' = reading
<1>1. /\ file' = file /\ outBytes' = outBytes /\ outBits' = outBits /\ outCount' = outCount
      /\ reading' = reading
  BY Zenon DEF Settle, outVars
<1> QED
  BY <1>1, Zenon DEF IInv, WriterHolds

(* decode,                                                                   *)
LEMMA DecodeKeeps ==
  ASSUME IInv, NEW w \in Widths, Decode(w)
  PROVE  IInv'
<1> DEFINE r == Decoded(w)
<1>1. Settle("decode", w, r) /\ reading
  BY DEF Decode
<1> HIDE DEF r
<1>2. WriterHolds' /\ file' = file /\ reading' = reading
  BY <1>1, SettleKeepsWriter, Zenon
<1>3. /\ position' = r.position /\ inBits' = r.bits /\ inCount' = r.count
      /\ last' = [call |-> "decode", at |-> Cursor, w |-> w, value |-> r.result, thrown |-> r.thrown]
  BY <1>1, Zenon DEF Settle
<1>4. /\ last'.call = "decode" /\ last'.at = Cursor /\ last'.w = w
      /\ last'.value = r.result /\ last'.thrown = r.thrown
  BY <1>3
<1>5. Cursor' = (r.position * ByteBits) - r.count
  BY <1>3, Zenon DEF Cursor
<1>6. CASE w \in 1..WordBits
  <2>1. Reads(Cursor, w, r)
    BY <1>6, DecodedReads, Zenon DEF IInv, WriterHolds, ReaderHolds, r
  <2>2. ReaderHolds'
    BY <1>1, <1>2, <1>3, <2>1, Zenon DEF Reads, ReaderHolds, InFile
  <2>3. DecodesFields'
    <3>1. CASE r.thrown = "no"
      <4>1. /\ Has(BitsOf(file), Cursor, w) /\ Cursor' = Cursor + w
            /\ r.result = Num(Field(BitsOf(file), Cursor, w))
        BY <1>5, <2>1, <3>1, Zenon DEF Reads, Has, Val
      <4> QED BY <1>2, <1>4, <3>1, <4>1 DEF DecodesFields
    <3>2. CASE r.thrown = "end"
      <4>1. ~Has(BitsOf(file), Cursor, w)
        BY <2>1, <3>2, Zenon DEF Reads, Has
      <4> QED BY <1>2, <1>4, <3>2, <4>1 DEF DecodesFields
    <3> QED BY <2>1, <3>1, <3>2 DEF Reads
  <2>4. AlignStays' /\ last'.thrown \in {"no", "end", "length"}
    BY <1>4, <2>1 DEF Reads, AlignStays
  <2> QED BY <1>2, <2>2, <2>3, <2>4, Zenon DEF IInv, LastHolds
<1>7. CASE w \notin 1..WordBits
  <2>1. r = [RoundZero(w) EXCEPT !.thrown = "length"]
    BY <1>7 DEF r, Decoded, RoundZero
  <2>2. r.position = position /\ r.count = inCount /\ r.bits = inBits /\ r.thrown = "length"
    BY <2>1 DEF RoundZero
  <2>3. ReaderHolds'
    BY <1>1, <1>2, <1>3, <2>2, Zenon DEF IInv, ReaderHolds, InFile
  <2>4. Cursor' = Cursor
    BY <1>5, <2>2, Zenon DEF Cursor
  <2>5. DecodesFields'
    BY <1>2, <1>4, <1>7, <2>2, <2>4 DEF DecodesFields
  <2>6. AlignStays' /\ last'.thrown \in {"no", "end", "length"}
    BY <1>4, <2>2 DEF AlignStays
  <2> QED BY <1>2, <2>3, <2>5, <2>6, Zenon DEF IInv, LastHolds
<1> QED
  BY <1>6, <1>7

(* A bit of the last byte fetched, and the end of that byte.                 *)
LEMMA AlignedIs ==
  ASSUME NEW p \in Nat, NEW n \in Nat, n < ByteBits, n <= p * ByteBits
  PROVE  Aligned((p * ByteBits) - n) = p * ByteBits
<1>1. ByteBits \in Nat \ {0}
  BY ByteAssumption
<1> DEFINE a == (p * ByteBits) - n
           m == (-a) % ByteBits
           q == (-a) \div ByteBits
<1>2. a \in Nat /\ p * ByteBits \in Nat
  BY <1>1
<1>3. m \in 0..(ByteBits - 1) /\ q \in Int /\ -a = ByteBits * q + m
  <2> HIDE DEF a
  <2> QED BY <1>1, <1>2
<1> HIDE DEF m, q
<1>4. n - m = ByteBits * (q + p)
  BY <1>1, <1>2, <1>3
<1>5. q + p = 0
  <2>1. CASE q + p >= 1
    <3>1. ByteBits * (q + p) >= ByteBits * 1
      BY <1>1, <1>3, <2>1
    <3> QED BY <1>1, <1>3, <1>4, <3>1
  <2>2. CASE q + p <= -1
    <3>1. ByteBits * (q + p) <= ByteBits * (-1)
      BY <1>1, <1>3, <2>2
    <3> QED BY <1>1, <1>3, <1>4, <3>1
  <2> QED BY <1>3, <2>1, <2>2
<1>6. n = m
  BY <1>1, <1>3, <1>4, <1>5
<1> QED
  BY <1>2, <1>6 DEF Aligned, m

(* and align.                                                                *)
LEMMA AlignKeeps ==
  ASSUME IInv, Align
  PROVE  IInv'
<1> DEFINE r == IF Skipped = 0
                THEN [bits |-> inBits, count |-> inCount, position |-> position,
                      result |-> 0, thrown |-> "no"]
                ELSE Decoded(Skipped)
<1>1. Settle("align", Skipped, r) /\ reading
  BY DEF Align
<1>2. WriterHolds' /\ file' = file /\ reading' = reading
  BY <1>1, SettleKeepsWriter, Zenon
<1>3. /\ position' = r.position /\ inBits' = r.bits /\ inCount' = r.count
      /\ last' = [call |-> "align", at |-> Cursor, w |-> Skipped, value |-> r.result,
                  thrown |-> r.thrown]
  BY <1>1, Zenon DEF Settle
<1>4. last'.call = "align" /\ last'.at = Cursor /\ last'.thrown = r.thrown
  BY <1>3
<1>5. Cursor' = (r.position * ByteBits) - r.count
  BY <1>3, Zenon DEF Cursor
<1>6. InFile(position, inCount, inBits) /\ inCount < ByteBits /\ file \in Seq(Byte)
  BY DEF IInv, WriterHolds, ReaderHolds
<1>7. /\ position \in Nat /\ inCount \in Nat /\ inCount <= position * ByteBits
      /\ ByteBits \in Nat \ {0} /\ WordBits >= ByteBits /\ WordBits \in Nat
      /\ position * ByteBits \in Nat
      /\ position * ByteBits <= Len(BitsOf(file)) /\ Len(BitsOf(file)) \in Nat
  BY <1>6, FileIs, SMTT(40) DEF InFile, WordBits, BitSeq
<1>8. Aligned(Cursor) = position * ByteBits
  BY <1>6, <1>7, AlignedIs DEF Cursor
<1>9. r.thrown = "no" /\ InFile(r.position, r.count, r.bits) /\ r.count < ByteBits
      /\ (r.position * ByteBits) - r.count = position * ByteBits
  <2>1. CASE Skipped = 0
    <3>1. r.position = position /\ r.count = inCount /\ r.bits = inBits /\ r.thrown = "no"
      BY <2>1
    <3>2. inCount = 0
      BY <2>1 DEF Skipped
    <3> HIDE DEF r
    <3>3. (position * ByteBits) - 0 = position * ByteBits
      BY <1>7
    <3> QED BY <1>6, <3>1, <3>2, <3>3, Zenon
  <2>2. CASE Skipped # 0
    <3>1. inCount \in 1..WordBits /\ Skipped = inCount
      BY <1>6, <1>7, <2>2 DEF Skipped
    <3>2. r = Decoded(inCount)
      BY <2>2, <3>1
    <3> HIDE DEF r
    <3>3. Reads(Cursor, inCount, r)
      BY <1>6, <3>1, <3>2, DecodedReads, Zenon
    <3>4. Cursor + inCount = position * ByteBits
      <4> DEFINE g == position * ByteBits
      <4>1. g \in Nat /\ Cursor = g - inCount
        BY <1>7 DEF Cursor
      <4> HIDE DEF g
      <4>2. Cursor + inCount = g
        BY <1>7, <4>1
      <4> QED BY <4>2 DEF g
    <3>5. r.thrown = "no"
      BY <1>7, <3>3, <3>4, Zenon DEF Reads
    <3> QED BY <3>3, <3>4, <3>5, Zenon DEF Reads
  <2> QED BY <2>1, <2>2
<1> HIDE DEF r
<1>10. ReaderHolds'
  BY <1>1, <1>2, <1>3, <1>9, Zenon DEF ReaderHolds, InFile
<1>11. AlignStays'
  <2>1. Cursor' = Aligned(Cursor)
    BY <1>5, <1>8, <1>9, Zenon
  <2> QED BY <1>4, <1>9, <2>1, Zenon DEF AlignStays
<1>12. DecodesFields' /\ last'.thrown \in {"no", "end", "length"}
  BY <1>4, <1>9 DEF DecodesFields
<1> QED
  BY <1>2, <1>10, <1>11, <1>12, Zenon DEF IInv, LastHolds

(* Every call of either buffer keeps the invariant.                          *)
LEMMA NextKeeps ==
  ASSUME IInv, [Next]_vars
  PROVE  IInv'
<1>1. CASE UNCHANGED vars
  <2>1. /\ file' = file /\ outBytes' = outBytes /\ outBits' = outBits /\ outCount' = outCount
        /\ reading' = reading /\ position' = position /\ inBits' = inBits /\ inCount' = inCount
        /\ last' = last
    BY <1>1, Zenon DEF vars, outVars, inVars
  <2>2. WriterHolds'
    BY <2>1, Zenon DEF IInv, WriterHolds
  <2>3. ReaderHolds' /\ LastHolds'
    BY <2>1, Zenon DEF IInv, ReaderHolds, LastHolds, InFile, DecodesFields, AlignStays, Cursor
  <2> QED BY <2>2, <2>3, Zenon DEF IInv
<1>2. CASE Next
  <2>1. ASSUME NEW f \in Fields, Encode(f) PROVE IInv'
    BY <2>1, EncodeKeeps, Zenon
  <2>2. ASSUME NEW w \in Widths, Decode(w) PROVE IInv'
    BY <2>2, DecodeKeeps, Zenon
  <2> QED BY <1>2, <2>1, <2>2, PackKeeps, WriteKeeps, ReadKeeps, AlignKeeps, Zenon DEF Next
<1> QED
  BY <1>1, <1>2, Zenon

(* The invariant always holds.                                               *)
LEMMA RegisterInvariant == Spec => []IInv
<1>1. Init => IInv
  BY InitHolds, Zenon
<1>2. IInv /\ [Next]_vars => IInv'
  BY NextKeeps, Zenon
<1> QED
  BY <1>1, <1>2, PTL DEF Spec

(* It gives the type of the registers.                                       *)
LEMMA TypeHolds == IInv => TypeOK
<1> SUFFICES ASSUME IInv PROVE TypeOK
  OBVIOUS
<1>2. WordBits \in Nat /\ ByteBits \in Nat \ {0} /\ ByteBits <= WordBits
  BY ByteAssumption DEF WordBits
<1>3. inCount \in 0..(ByteBits - 1) /\ position \in 0..Len(file) /\ inBits \in 0..(Power[inCount] - 1)
  <2>1. InFile(position, inCount, inBits) /\ inCount < ByteBits /\ file \in Seq(Byte)
    BY Zenon DEF IInv, ReaderHolds, WriterHolds
  <2>2. inCount \in Nat /\ position \in Int /\ inCount \in 0..WordBits
    BY <1>2, <2>1, FileIs DEF InFile
  <2>3. inBits \in 0..(Power[inCount] - 1) /\ position \in 0..Len(file)
    BY <2>1, <2>2, InFileValue
  <2> QED BY <1>2, <2>1, <2>2, <2>3
<1>4. \A b \in {file[i] : i \in DOMAIN file} \cup {outBytes[i] : i \in DOMAIN outBytes} :
         b \in 0..(Power[ByteBits] - 1)
  <2>1. file \in Seq(Byte) /\ outBytes \in Seq(Byte)
    BY Zenon DEF IInv, WriterHolds
  <2>2. \A i \in DOMAIN file : file[i] \in Byte
    BY <2>1
  <2>3. \A i \in DOMAIN outBytes : outBytes[i] \in Byte
    BY <2>1
  <2> QED BY <2>2, <2>3, Zenon DEF Byte
<1> QED
  <2>1. /\ outCount \in 0..(ByteBits - 1) /\ outBits \in 0..(Power[outCount] - 1)
        /\ reading \in BOOLEAN /\ last.thrown \in {"no", "end", "length"}
    BY Zenon DEF IInv, WriterHolds, LastHolds
  <2> QED BY <1>3, <1>4, <2>1, Zenon DEF TypeOK

(* Either register holds less than a byte between calls, and nothing above   *)
(* the bits it counts; the reader stays in the file.                         *)
THEOREM RegisterTypeCorrect == Spec => []TypeOK
  BY RegisterInvariant, TypeHolds, PTL

(* A call of decode returns the field after the bits already taken, or       *)
(* throws because there are not as many, for every file, every width and     *)
(* every place in the file.                                                  *)
THEOREM DecodesAlways == Spec => []DecodesFields
<1>1. IInv => DecodesFields
  BY Zenon DEF IInv, LastHolds
<1> QED
  BY <1>1, RegisterInvariant, PTL

(* align never throws, and stops at the next byte boundary.                  *)
THEOREM AlwaysAligns == Spec => []AlignStays
<1>1. IInv => AlignStays
  BY Zenon DEF IInv, LastHolds
<1> QED
  BY <1>1, RegisterInvariant, PTL

(* Bit j of m bytes is the one y places down byte x.                         *)
LEMMA PlaceOf ==
  ASSUME NEW m \in Nat, NEW j \in 1..(ByteBits * m)
  PROVE  \E x \in 0..(m - 1) : \E y \in 0..(ByteBits - 1) :
            /\ j = ((x * ByteBits) + y) + 1
            /\ (j - 1) \div ByteBits = x /\ (j - 1) % ByteBits = y
<1> DEFINE x == (j - 1) \div ByteBits
           y == (j - 1) % ByteBits
<1>1. ByteBits \in Nat \ {0} /\ ByteBits * m \in Nat
  BY ByteAssumption
<1>2. x \in Nat /\ y \in 0..(ByteBits - 1) /\ j - 1 = ByteBits * x + y
  BY <1>1
<1> HIDE DEF x, y
<1>3. x < m
  <2>1. SUFFICES ASSUME m <= x PROVE FALSE
    BY <1>2
  <2>2. ByteBits * m <= ByteBits * x
    BY <1>1, <1>2, <2>1
  <2> QED BY <1>1, <1>2, <2>2
<1>4. j = ((x * ByteBits) + y) + 1 /\ x \in 0..(m - 1)
  BY <1>1, <1>2, <1>3
<1> QED
  BY <1>2, <1>4 DEF x, y

(* The byte of a bit and its place in that byte.                             *)
LEMMA PlaceIn ==
  ASSUME NEW m \in Nat, NEW x \in 0..(m - 1), NEW y \in 0..(ByteBits - 1), NEW j,
         j = ((x * ByteBits) + y) + 1
  PROVE  /\ j \in 1..(ByteBits * m)
         /\ (j - 1) \div ByteBits = x /\ (j - 1) % ByteBits = y
<1>1. ByteBits \in Nat \ {0} /\ x \in Nat
  BY ByteAssumption
<1>2. ((x * ByteBits) + y) \div ByteBits = x /\ ((x * ByteBits) + y) % ByteBits = y
  BY <1>1, Divided
<1>3. x * ByteBits \in Nat /\ j - 1 = (x * ByteBits) + y /\ j \in Nat /\ j >= 1
  BY <1>1
<1>4. ByteBits * (x + 1) <= ByteBits * m /\ ByteBits * (x + 1) = (x * ByteBits) + ByteBits
  BY <1>1
<1>5. j <= ByteBits * m
  BY <1>1, <1>3, <1>4
<1> QED
  BY <1>1, <1>2, <1>3, <1>5

(* A bit of the file, by its byte.                                           *)
LEMMA BitOfByte ==
  ASSUME NEW bytes \in Seq(Byte), NEW x \in 0..(Len(bytes) - 1), NEW y \in 0..(ByteBits - 1),
         NEW j, j = ((x * ByteBits) + y) + 1
  PROVE  BitsOf(bytes)[j] = Bit(bytes[x + 1], (ByteBits - 1) - y)
<1>1. Len(bytes) \in Nat /\ ByteBits \in Nat \ {0}
  BY ByteAssumption
<1>2. /\ j \in 1..(ByteBits * Len(bytes))
      /\ (j - 1) \div ByteBits = x /\ (j - 1) % ByteBits = y
  BY <1>1, PlaceIn
<1>3. BitsOf(bytes)[j] = Bits(bytes[x + 1], ByteBits)[y + 1]
  BY <1>2 DEF BitsOf
<1>4. y + 1 \in 1..ByteBits /\ ByteBits - (y + 1) = (ByteBits - 1) - y
  BY <1>1
<1>5. Bits(bytes[x + 1], ByteBits)[y + 1] = (bytes[x + 1] \div Power[ByteBits - (y + 1)]) % 2
  BY <1>4 DEF Bits
<1> QED
  BY <1>3, <1>4, <1>5 DEF Bit

(* Bytes after bytes.                                                        *)
LEMMA BitsOfJoins ==
  ASSUME NEW a \in Seq(Byte), NEW b \in Seq(Byte)
  PROVE  BitsOf(a \o b) = BitsOf(a) \o BitsOf(b)
<1> DEFINE c == a \o b
           n == ByteBits * Len(c)
           k == ByteBits * Len(a)
           l == ByteBits * Len(b)
<1>1. /\ c \in Seq(Byte) /\ Len(a) \in Nat /\ Len(b) \in Nat /\ Len(c) = Len(a) + Len(b)
      /\ \A i \in 1..Len(c) : c[i] = IF i <= Len(a) THEN a[i] ELSE b[i - Len(a)]
      /\ ByteBits \in Nat \ {0}
  BY ByteAssumption
<1> HIDE DEF c
<1>2. n \in Nat /\ k \in Nat /\ l \in Nat /\ n = k + l
  BY <1>1
<1>3. /\ BitsOf(a) \in BitSeq /\ Len(BitsOf(a)) = k /\ BitsOf(b) \in BitSeq /\ Len(BitsOf(b)) = l
      /\ BitsOf(c) \in BitSeq /\ Len(BitsOf(c)) = n
  BY <1>1, BitsOfIs
<1> DEFINE t == BitsOf(a) \o BitsOf(b)
<1> HIDE DEF n, k, l
<1>4. /\ t \in BitSeq /\ Len(t) = n
      /\ \A i \in 1..n : t[i] = IF i <= k THEN BitsOf(a)[i] ELSE BitsOf(b)[i - k]
  <2>1. OneAfterOther(BitsOf(a), BitsOf(b), k, n)
    BY <1>2, <1>3, BitsConcatenated, Zenon
  <2> QED BY <2>1, Zenon DEF OneAfterOther
<1> HIDE DEF t
<1>5. ASSUME NEW j \in 1..n PROVE BitsOf(c)[j] = t[j]
  <2>1. PICK x \in 0..(Len(c) - 1), y \in 0..(ByteBits - 1) : j = ((x * ByteBits) + y) + 1
    <3>1. j \in 1..(ByteBits * Len(c)) /\ Len(c) \in Nat
      BY <1>1 DEF n
    <3> QED BY <3>1, PlaceOf, SMTT(40)
  <2>2. BitsOf(c)[j] = Bit(c[x + 1], (ByteBits - 1) - y)
    BY <1>1, <2>1, BitOfByte, ZenonT(40)
  <2>3. CASE x < Len(a)
    <3>1. x \in 0..(Len(a) - 1) /\ c[x + 1] = a[x + 1]
      BY <1>1, <2>3
    <3>2. BitsOf(a)[j] = Bit(a[x + 1], (ByteBits - 1) - y)
      BY <2>1, <3>1, BitOfByte
    <3>3. j \in 1..k
      BY <1>1, <2>1, <3>1, PlaceIn DEF k
    <3>4. t[j] = BitsOf(a)[j]
      BY <1>2, <1>4, <3>3
    <3> QED BY <2>2, <3>1, <3>2, <3>4
  <2>4. CASE ~(x < Len(a))
    <3> DEFINE z == x - Len(a)
    <3>1. z \in 0..(Len(b) - 1) /\ c[x + 1] = b[z + 1] /\ z \in Nat /\ x = z + Len(a)
      BY <1>1, <2>1, <2>4
    <3> HIDE DEF z
    <3>2. j - k = ((z * ByteBits) + y) + 1
      <4>1. (z + Len(a)) * ByteBits = (z * ByteBits) + k
        BY <1>1, <3>1 DEF k
      <4>2. x * ByteBits = (z * ByteBits) + k /\ z * ByteBits \in Nat
        BY <1>1, <3>1, <4>1
      <4> QED BY <1>2, <2>1, <4>2, SMTT(40)
    <3>3. BitsOf(b)[j - k] = Bit(b[z + 1], (ByteBits - 1) - y)
      BY <3>1, <3>2, BitOfByte
    <3>4. j - k >= 1
      <4>1. z * ByteBits \in Nat
        BY <1>1, <3>1
      <4> QED BY <3>2, <4>1
    <3>5. t[j] = BitsOf(b)[j - k]
      BY <1>2, <1>4, <3>4
    <3> QED BY <2>2, <3>1, <3>3, <3>5
  <2> QED BY <2>3, <2>4
<1>6. BitsOf(c) = t
  BY <1>2, <1>3, <1>4, <1>5, SameBits
<1> QED
  BY <1>6 DEF c, t

(* The whole bytes of a register, and what is left of it, are the register.  *)
LEMMA WholeBits ==
  ASSUME NEW n \in Nat, NEW count \in 0..WordBits
  PROVE  BitsOf(WholeBytes(n, count)) \o Bits(n % Power[count % ByteBits], count % ByteBits)
           = Bits(n, count)
<1> DEFINE q == count \div ByteBits
           r == count % ByteBits
           a == WholeBytes(n, count)
           b == Bits(n % Power[r], r)
           k == ByteBits * q
<1>1. WordBits \in Nat /\ ByteBits \in Nat \ {0} /\ count \in Nat /\ WordBits = 4 * ByteBits
  BY ByteAssumption DEF WordBits
<1>2. q \in Nat /\ r \in 0..(ByteBits - 1) /\ count = k + r /\ k \in Nat /\ count < WordBits + ByteBits
  BY <1>1
<1>3. a \in Seq(Byte) /\ Len(a) = q
      /\ \A i \in 1..q : a[i] = (n \div Power[count - i * ByteBits]) % Power[ByteBits]
  <2>1. a \in Seq(Byte)
    BY <1>1, <1>2, WholeBytesAre
  <2> QED BY <1>2, <2>1 DEF WholeBytes
<1> HIDE DEF q, r, a
<1>4. BitsOf(a) \in BitSeq /\ Len(BitsOf(a)) = k
  BY <1>3, BitsOfIs
<1>5. r \in 0..WordBits /\ n % Power[r] \in Int
  <2>1. r \in 0..WordBits
    BY <1>1, <1>2
  <2>2. Power[r] \in Nat \ {0}
    BY <2>1, PowerIs
  <2> QED BY <2>1, <2>2
<1>6. b \in BitSeq /\ Len(b) = r /\ \A j \in 1..r : b[j] = Bit(n % Power[r], r - j)
  BY <1>5, BitsAre
<1>7. /\ Bits(n, count) \in BitSeq /\ Len(Bits(n, count)) = count
      /\ \A j \in 1..count : Bits(n, count)[j] = Bit(n, count - j)
  BY BitsAre
<1> DEFINE t == BitsOf(a) \o b
<1> HIDE DEF b, k
<1>8. /\ t \in BitSeq /\ Len(t) = count
      /\ \A i \in 1..count : t[i] = IF i <= k THEN BitsOf(a)[i] ELSE b[i - k]
  <2>1. OneAfterOther(BitsOf(a), b, k, count)
    BY <1>2, <1>4, <1>6, BitsConcatenated, Zenon
  <2> QED BY <2>1, Zenon DEF OneAfterOther
<1> HIDE DEF t
<1>9. ASSUME NEW j \in 1..count PROVE t[j] = Bits(n, count)[j]
  <2>1. CASE j <= k
    <3>1. PICK x \in 0..(q - 1), y \in 0..(ByteBits - 1) : j = ((x * ByteBits) + y) + 1
      <4>1. j \in 1..(ByteBits * q)
        BY <1>2, <2>1 DEF k
      <4> QED BY <1>2, <4>1, PlaceOf
    <3>2. BitsOf(a)[j] = Bit(a[x + 1], (ByteBits - 1) - y)
      BY <1>3, <3>1, BitOfByte
    <3> DEFINE o == count - (x + 1) * ByteBits
               e == (ByteBits - 1) - y
    <3>3. /\ x \in Nat /\ x + 1 \in 1..q /\ e \in 0..(ByteBits - 1) /\ e \in Nat
          /\ ByteBits \in 0..WordBits
      BY <1>1, <1>2
    <3>4. o \in Nat /\ o + e = count - j /\ o + e <= WordBits
      <4>1. (x + 1) * ByteBits = (x * ByteBits) + ByteBits /\ x * ByteBits \in Nat
        BY <1>1, <3>3
      <4>2. (x + 1) * ByteBits <= k
        <5>1. ByteBits * (x + 1) <= ByteBits * q
          BY <1>1, <1>2, <3>3
        <5>2. ByteBits * (x + 1) = (x + 1) * ByteBits
          BY <1>1, <3>3
        <5> QED BY <5>1, <5>2 DEF k
      <4> DEFINE g == x * ByteBits
      <4> HIDE DEF g
      <4>3. (x + 1) * ByteBits = g + ByteBits /\ g \in Nat /\ g + ByteBits <= k /\ j = (g + y) + 1
        BY <3>1, <4>1, <4>2 DEF g
      <4>4. o = count - (g + ByteBits)
        BY <4>3
      <4> HIDE DEF o
      <4>5. o \in Nat
        BY <1>1, <1>2, <4>3, <4>4
      <4>6. o + e = count - j
        BY <1>1, <1>2, <4>3, <4>4
      <4> QED BY <1>1, <4>5, <4>6
    <3>5. a[x + 1] = (n \div Power[o]) % Power[ByteBits]
      BY <1>3, <3>3
    <3> HIDE DEF o, e
    <3>6. n \div Power[o] \in Int
      <4>1. o \in 0..WordBits
        BY <1>1, <3>3, <3>4
      <4>2. Power[o] \in Nat \ {0}
        BY <4>1, PowerIs
      <4> QED BY <4>2
    <3>7. Bit((n \div Power[o]) % Power[ByteBits], e) = Bit(n \div Power[o], e)
      BY <3>3, <3>6, BitLow
    <3>8. Shifts(n, o, e)
      BY <3>3, <3>4, BitShifts
    <3>9. Bit(n \div Power[o], e) = Bit(n, o + e)
      BY <3>8 DEF Shifts
    <3>10. t[j] = BitsOf(a)[j]
      BY <1>8, <2>1
    <3> QED BY <1>7, <3>2, <3>4, <3>5, <3>7, <3>9, <3>10 DEF e
  <2>2. CASE ~(j <= k)
    <3> DEFINE i == j - k
               e == r - i
    <3>1. i \in 1..r /\ e \in 0..(r - 1) /\ e = count - j
      BY <1>1, <1>2, <2>2
    <3>2. t[j] = b[i]
      BY <1>8, <2>2
    <3> HIDE DEF i
    <3>3. b[i] = Bit(n % Power[r], e)
      BY <1>6, <3>1
    <3> HIDE DEF e
    <3>4. Bit(n % Power[r], e) = Bit(n, e)
      BY <1>5, <3>1, BitLow
    <3> QED BY <1>7, <3>1, <3>2, <3>3, <3>4
  <2> QED BY <2>1, <2>2
<1>10. t = Bits(n, count)
  BY <1>1, <1>7, <1>8, <1>9, SameBits
<1> QED
  BY <1>10 DEF t, a, b, r

(* Bits or none of them.                                                     *)
LEMMA OrNothing ==
  ASSUME NEW n \in 0..(Power[WordBits] - 1)
  PROVE  BitOr(0, n) = n
<1> DEFINE w == WordBits
<1>1. w \in Nat /\ w \in 0..WordBits /\ Power[w] \in Nat
  <2>1. w \in Nat
    BY ByteAssumption DEF WordBits
  <2> QED BY <2>1, PowerIs
<1>2. n \in Nat /\ n < Power[w]
  BY <1>1
<1>3. Bits(n, w) \in BitSeq /\ Len(Bits(n, w)) = w
  BY <1>1, <1>2, BitsAre
<1>4. Bits(0, w) = [j \in 1..w |-> 0]
  BY <1>1, NoBits
<1> DEFINE s == Bits(n, w)
           z == Bits(0, w)
           t == [i \in 1..w |-> IF 1 \in {z[i], s[i]} THEN 1 ELSE 0]
<1>5. t = s
  <2>1. \A i \in 1..w : z[i] = 0
    BY <1>4
  <2>2. \A i \in 1..w : s[i] \in {0, 1}
    BY <1>1, <1>3 DEF BitSeq
  <2> HIDE DEF s, z
  <2>3. t \in BitSeq /\ Len(t) = w
    BY <1>1 DEF BitSeq
  <2>4. s \in BitSeq /\ Len(s) = w
    BY <1>3 DEF s
  <2>5. \A i \in 1..w : t[i] = s[i]
    BY <2>1, <2>2
  <2> HIDE DEF t
  <2> QED BY <1>1, <2>3, <2>4, <2>5, SameBits
<1>6. Num(s) = n
  BY <1>1, <1>2, SameNum
<1>7. BitOr(0, n) = Num(t)
  BY DEF BitOr
<1> HIDE DEF s, t
<1> QED
  BY <1>5, <1>6, <1>7

(* The stream of a file, bytes that wait and a register.                     *)
Stream(f, o, b, c) == BitsOf(f \o o) \o Bits(b, c)

StreamLen(s, f, o, c) == s \in BitSeq /\ Len(s) = (ByteBits * (Len(f) + Len(o))) + c

(* Three sequences of bytes, one after the other.                            *)
LEMMA BytesAssociate ==
  ASSUME NEW s \in Seq(Byte), NEW t \in Seq(Byte), NEW u \in Seq(Byte)
  PROVE  s \o (t \o u) = (s \o t) \o u /\ s \o t \in Seq(Byte)
<1> DEFINE B == Byte
<1> HIDE DEF B
<1>1. ASSUME NEW x \in Seq(B), NEW y \in Seq(B), NEW z \in Seq(B)
      PROVE  x \o (y \o z) = (x \o y) \o z /\ x \o y \in Seq(B)
  OBVIOUS
<1> QED
  BY <1>1 DEF B

(* How long the writer's stream is.                                          *)
LEMMA StreamIs ==
  ASSUME NEW f \in Seq(Byte), NEW o \in Seq(Byte), NEW b \in Int, NEW c \in 0..(ByteBits - 1)
  PROVE  StreamLen(Stream(f, o, b, c), f, o, c)
<1>1. c \in 0..WordBits
  BY ByteAssumption DEF WordBits
<1>2. Bits(b, c) \in BitSeq /\ Len(Bits(b, c)) = c
  BY <1>1, BitsAre
<1>3. f \o o \in Seq(Byte) /\ Len(f \o o) = Len(f) + Len(o)
  OBVIOUS
<1>4. BitsOf(f \o o) \in BitSeq /\ Len(BitsOf(f \o o)) = ByteBits * (Len(f) + Len(o))
  BY <1>3, BitsOfIs
<1> QED
  <2> DEFINE s == BitsOf(f \o o)
             t == Bits(b, c)
  <2>1. s \in BitSeq /\ t \in BitSeq /\ Len(s) = ByteBits * (Len(f) + Len(o)) /\ Len(t) = c
    BY <1>2, <1>4, Zenon
  <2> HIDE DEF s, t
  <2>2. s \o t \in BitSeq /\ Len(s \o t) = Len(s) + Len(t)
    BY <2>1, ConcatProperties DEF BitSeq
  <2>3. s \o t \in BitSeq /\ Len(s \o t) = (ByteBits * (Len(f) + Len(o))) + c
    BY <2>1, <2>2, Zenon
  <2> QED BY <2>3, Zenon DEF s, t, Stream, StreamLen

(* Whole bytes moved out of a register leave the stream as it is.            *)
Before(f, o, r, count) ==
  Stream(f, o \o WholeBytes(r, count), r % Power[count % ByteBits], count % ByteBits)
    = BitsOf(f \o o) \o Bits(r, count)

(* Whole bytes moved out of the register leave the stream as it was.         *)
LEMMA MovedOut ==
  ASSUME NEW f \in Seq(Byte), NEW o \in Seq(Byte), NEW r \in Nat, NEW count \in 0..WordBits
  PROVE  Before(f, o, r, count)
<1> DEFINE a == WholeBytes(r, count)
           c == count % ByteBits
           d == r % Power[c]
<1>1. WordBits \in Nat /\ ByteBits \in Nat \ {0} /\ count \in Nat /\ count < WordBits + ByteBits
      /\ WordBits >= ByteBits
  BY ByteAssumption DEF WordBits
<1>2. a \in Seq(Byte)
  BY <1>1, WholeBytesAre
<1>3. BitsOf(a) \o Bits(d, c) = Bits(r, count)
  BY WholeBits
<1>4. Bits(d, c) \in BitSeq
  <2>1. c \in 0..WordBits
    BY <1>1
  <2>2. Power[c] \in Nat \ {0}
    BY <2>1, PowerIs
  <2>3. d \in Int
    <3> HIDE DEF c
    <3> QED BY <2>2
  <2> HIDE DEF d, c
  <2> QED BY <2>1, <2>3, BitsAre
<1> HIDE DEF a, c, d
<1>5. f \o (o \o a) = (f \o o) \o a /\ f \o o \in Seq(Byte)
  BY <1>2, BytesAssociate, Zenon
<1>6. BitsOf((f \o o) \o a) = BitsOf(f \o o) \o BitsOf(a)
  BY <1>2, <1>5, BitsOfJoins, Zenon
<1>7. BitsOf(f \o o) \in BitSeq /\ BitsOf(a) \in BitSeq
  BY <1>2, <1>5, BitsOfIs, Zenon
<1>8. (BitsOf(f \o o) \o BitsOf(a)) \o Bits(d, c) = BitsOf(f \o o) \o (BitsOf(a) \o Bits(d, c))
  BY <1>4, <1>7, BitsAssociate, Zenon
<1>9. Stream(f, o \o a, d, c) = BitsOf(f \o o) \o Bits(r, count)
  BY <1>3, <1>5, <1>6, <1>8, Zenon DEF Stream
<1> QED
  BY <1>9, Zenon DEF a, d, c, Before

(* A field shifted into a register that can take it comes after the stream.  *)
After(f, o, b, c, n, w, r, count) ==
  Stream(f, o \o WholeBytes(r, count), r % Power[count % ByteBits], count % ByteBits)
    = Stream(f, o, b, c) \o Bits(n, w)

(* A field shifted in comes after the bits before it.                        *)
LEMMA ComesAfter ==
  ASSUME NEW f \in Seq(Byte), NEW o \in Seq(Byte), NEW b \in Nat, NEW c \in Nat,
         NEW n \in Int, NEW w \in Nat, c + w <= WordBits,
         NEW r, r = (b * Power[w]) + (n % Power[w]),
         NEW count, count = c + w
  PROVE  After(f, o, b, c, n, w, r, count)
<1>1. WordBits \in Nat /\ w \in 0..WordBits /\ c \in 0..WordBits /\ count \in 0..WordBits
  BY ByteAssumption DEF WordBits
<1>2. r \in Nat
  <2>1. Power[w] \in Nat \ {0}
    BY <1>1, PowerIs
  <2>2. b * Power[w] \in Nat /\ n % Power[w] \in Nat
    BY <2>1, SMTT(40)
  <2> QED BY <2>2
<1>3. Bits(r, count) = Bits(b, c) \o Bits(n, w)
  BY BitsJoin
<1>4. Stream(f, o \o WholeBytes(r, count), r % Power[count % ByteBits], count % ByteBits)
           = BitsOf(f \o o) \o Bits(r, count)
  <2>1. Before(f, o, r, count)
    BY <1>1, <1>2, MovedOut, Zenon
  <2> QED BY <2>1, Zenon DEF Before
<1>5. Bits(b, c) \in BitSeq /\ Bits(n, w) \in BitSeq
  BY <1>1, BitsAre
<1>6. f \o o \in Seq(Byte)
  OBVIOUS
<1>7. BitsOf(f \o o) \in BitSeq
  BY <1>6, BitsOfIs, Zenon
<1>8. BitsOf(f \o o) \o (Bits(b, c) \o Bits(n, w)) = (BitsOf(f \o o) \o Bits(b, c)) \o Bits(n, w)
  BY <1>5, <1>7, BitsAssociate, Zenon
<1> QED
  BY <1>3, <1>4, <1>8, Zenon DEF Stream, After

(* What waits in the register comes out as a byte filled with zeros.         *)
LEMMA BitsOfOne ==
  ASSUME NEW x \in Byte
  PROVE  BitsOf(<<x>>) = Bits(x, ByteBits)
<1>1. ByteBits \in Nat \ {0} /\ ByteBits \in 0..WordBits
  BY ByteAssumption DEF WordBits
<1>2. x \in Int
  <2>1. Power[ByteBits] \in Nat
    BY <1>1, PowerIs
  <2> QED BY <2>1 DEF Byte
<1>3. Bits(x, ByteBits) \in BitSeq /\ Len(Bits(x, ByteBits)) = ByteBits
      /\ \A j \in 1..ByteBits : Bits(x, ByteBits)[j] = Bit(x, ByteBits - j)
  BY <1>1, <1>2, BitsAre
<1> DEFINE s == <<x>>
<1>4. s \in Seq(Byte) /\ Len(s) = 1 /\ s[1] = x
  OBVIOUS
<1> HIDE DEF s
<1>5. BitsOf(s) \in BitSeq /\ Len(BitsOf(s)) = ByteBits
  <2>1. ByteBits * 1 = ByteBits
    BY <1>1
  <2> QED BY <1>4, <2>1, BitsOfIs
<1>6. ASSUME NEW j \in 1..ByteBits PROVE BitsOf(s)[j] = Bits(x, ByteBits)[j]
  <2>1. j - 1 \in 0..(ByteBits - 1) /\ j = ((0 * ByteBits) + (j - 1)) + 1 /\ 0 \in 0..(Len(s) - 1)
        /\ (ByteBits - 1) - (j - 1) = ByteBits - j /\ 0 + 1 = 1
    BY <1>1, <1>4
  <2>2. BitsOf(s)[j] = Bit(s[0 + 1], (ByteBits - 1) - (j - 1))
    BY <1>4, <2>1, BitOfByte
  <2>3. BitsOf(s)[j] = Bit(x, ByteBits - j)
    BY <1>4, <2>1, <2>2
  <2> QED BY <1>3, <2>3
<1>7. BitsOf(s) = Bits(x, ByteBits)
  BY <1>1, <1>3, <1>5, <1>6, SameBits
<1> QED
  BY <1>7 DEF s

ZerosAfter(x, k, b, c, w) == Bits(x, k) = Bits(b, c) \o Bits(0, w)

(* Zeros shifted in come after the bits before them.                         *)
LEMMA ZerosJoin ==
  ASSUME NEW b \in Nat, NEW c \in Nat, NEW w \in Nat, NEW k, k = c + w, k <= WordBits,
         NEW x, x = b * Power[w]
  PROVE  ZerosAfter(x, k, b, c, w)
<1>1. w \in 0..WordBits
  BY ByteAssumption DEF WordBits
<1>2. Power[w] \in Nat \ {0}
  BY <1>1, PowerIs
<1>3. ASSUME NEW y \in Int, y = 0 PROVE Bits(x, k) = Bits(b, c) \o Bits(y, w)
  <2>1. y % Power[w] = 0 /\ b * Power[w] \in Nat
    BY <1>2, <1>3
  <2>2. x = (b * Power[w]) + (y % Power[w])
    BY <2>1
  <2>3. Bits((b * Power[w]) + (y % Power[w]), c + w) = Bits(b, c) \o Bits(y, w)
    BY BitsJoin
  <2> QED BY <2>2, <2>3
<1> QED
  BY <1>3 DEF ZerosAfter

(* A byte filled up is the register and zeros.                               *)
LEMMA FilledUp ==
  ASSUME NEW f \in Seq(Byte), NEW o \in Seq(Byte), NEW c \in 1..(ByteBits - 1),
         NEW b \in 0..(Power[c] - 1),
         NEW x, x = b * Power[ByteBits - c], x \in Byte
  PROVE  BitsOf(f \o Append(o, x)) = PadBits(Stream(f, o, b, c))
<1> DEFINE w == ByteBits - c
           s == BitsOf(f \o o)
           z == Bits(0, w)
<1>1. ByteBits \in Nat \ {0} /\ ByteBits <= WordBits /\ w \in Nat /\ c \in Nat /\ c + w = ByteBits
      /\ w \in 0..WordBits /\ c \in 0..WordBits /\ c + w <= WordBits
  BY ByteAssumption DEF WordBits
<1>2. b \in Nat
  BY <1>1, PowerIs
<1>3. Bits(x, ByteBits) = Bits(b, c) \o z
  <2>1. x = b * Power[w]
    OBVIOUS
  <2> HIDE DEF w
  <2>2. c + w <= WordBits /\ ByteBits = c + w /\ ByteBits <= WordBits
    BY <1>1
  <2>3. ZerosAfter(x, ByteBits, b, c, w)
    BY <1>1, <1>2, <2>1, <2>2, ZerosJoin
  <2> QED BY <2>3, Zenon DEF ZerosAfter
<1>4. z = [j \in 1..w |-> 0] /\ z \in BitSeq
  BY <1>1, NoBits, BitsAre
<1>5. Bits(b, c) \in BitSeq
  BY <1>1, <1>2, BitsAre
<1>6. /\ f \o Append(o, x) = (f \o o) \o <<x>> /\ f \o o \in Seq(Byte) /\ <<x>> \in Seq(Byte)
  OBVIOUS
<1>7. BitsOf(f \o Append(o, x)) = s \o Bits(x, ByteBits)
  BY <1>6, BitsOfJoins, BitsOfOne, Zenon
<1>8. s \in BitSeq
  BY <1>6, BitsOfIs, Zenon
<1> DEFINE t == Stream(f, o, b, c)
<1>9. s \o (Bits(b, c) \o z) = t \o z
  <2> HIDE DEF z
  <2>1. s \o (Bits(b, c) \o z) = (s \o Bits(b, c)) \o z
    BY <1>4, <1>5, <1>8, BitsAssociate, Zenon
  <2> QED BY <2>1, Zenon DEF Stream
<1>10. Missing(Len(t), w)
  <2>1. StreamLen(t, f, o, c)
    <3>1. c \in 0..(ByteBits - 1) /\ b \in Int
      BY <1>1, <1>2
    <3> QED BY <3>1, StreamIs, Zenon
  <2> HIDE DEF t
  <2> DEFINE m == Len(f) + Len(o)
  <2>2. m \in Nat /\ Len(t) = (ByteBits * m) + c /\ c \in 0..(ByteBits - 1) /\ c # 0
    BY <1>1, <2>1 DEF StreamLen
  <2> HIDE DEF m
  <2>3. Missing(Len(t), ByteBits - c)
    BY <2>2, ToNextByte
  <2> QED BY <2>3
<1> HIDE DEF t, w, z
<1>11. PadBits(t) = t \o [j \in 1..w |-> 0]
  BY <1>10 DEF PadBits, Missing
<1> QED
  BY <1>3, <1>4, <1>7, <1>9, <1>11, Zenon DEF t

(* The stream s is what the calls c make.                                    *)
Makes(c, s) == Len(s) = Size(c) /\ (RegisterHolds(c) => s = Laid(c))

(* One call more adds to the stream what Laid adds for it.                   *)
LEMMA CallMore ==
  ASSUME NEW c \in Seq(CallSet), NEW d \in CallSet, NEW s, NEW t, Makes(c, s),
         Len(t) = PlaceAfter(Len(s), d), Fits(Len(s), d.w) => t = BitsAfter(s, d)
  PROVE  Makes(c \o <<d>>, t)
<1>1. Len(t) = Size(c \o <<d>>)
  <2>1. Len(t) = PlaceAfter(Size(c), d)
    BY Zenon DEF Makes
  <2>2. Size(c \o <<d>>) = PlaceAfter(Size(c), d)
    BY StartNext, Zenon
  <2> QED BY <2>1, <2>2, Zenon
<1>2. ASSUME RegisterHolds(c \o <<d>>) PROVE t = Laid(c \o <<d>>)
  <2>1. RegisterHolds(c) /\ Fits(Size(c), d.w)
    BY <1>2, HoldsNext, Zenon
  <2>2. s = Laid(c) /\ Fits(Len(s), d.w)
    BY <2>1, Zenon DEF Makes
  <2>3. t = BitsAfter(Laid(c), d)
    BY <2>2, Zenon
  <2> QED BY <2>3, LaidNext, Zenon
<1> QED
  BY <1>1, <1>2, Zenon DEF Makes

(* encode puts the field after the stream when the register can take it, and *)
(* as many bits as it has when it cannot.                                    *)
LEMMA ShiftedWhole ==
  ASSUME WriterHolds, NEW n \in Int, NEW w \in 0..WordBits, outCount + w <= WordBits,
         NEW r \in ShiftedIn(n, w)
  PROVE  r = (outBits * Power[w]) + (n % Power[w])
<1> DEFINE data == n % Power[w]
<1>1. WordBits \in Nat /\ ByteBits \in Nat \ {0} /\ ByteBits <= WordBits /\ w \in Nat
  BY ByteAssumption DEF WordBits
<1>2. outCount \in 0..(ByteBits - 1) /\ outBits \in 0..(Power[outCount] - 1) /\ outCount \in 0..WordBits
      /\ outCount \in Nat
  BY <1>1 DEF WriterHolds
<1>3. Power[w] \in Nat \ {0} /\ Power[outCount] \in Nat \ {0} /\ Power[WordBits] \in Nat \ {0}
  BY <1>1, <1>2, PowerIs
<1>4. data \in 0..(Power[w] - 1) /\ outBits \in Nat
  BY <1>2, <1>3
<1>5. CASE w = WordBits
  <2>1. outCount = 0
    BY <1>1, <1>2, <1>5
  <2>2. outBits = 0
    BY <1>2, <2>1, PowerIs
  <2>3. r \in {data, BitOr(outBits, data)}
    BY <1>5 DEF ShiftedIn
  <2> HIDE DEF data
  <2>4. BitOr(0, data) = data
    BY <1>4, <1>5, OrNothing
  <2>5. r = data
    BY <2>2, <2>3, <2>4
  <2>6. (outBits * Power[w]) + data = data
    BY <1>3, <1>4, <2>2
  <2> QED BY <2>5, <2>6 DEF data
<1>6. CASE w # WordBits
  <2>1. r = (outBits * Power[w] + data) % Power[WordBits]
    BY <1>6 DEF ShiftedIn
  <2> HIDE DEF data
  <2>2. Power[outCount + w] = Power[outCount] * Power[w]
    BY <1>1, <1>2, PowerAdds
  <2>3. Power[outCount + w] <= Power[WordBits]
    <3> DEFINE k == outCount + w
    <3>1. WordBits - k \in Nat /\ k \in Nat /\ k + (WordBits - k) = WordBits
          /\ WordBits - k \in 0..WordBits /\ k \in 0..WordBits
      BY <1>1, <1>2
    <3> HIDE DEF k
    <3>2. Power[k + (WordBits - k)] = Power[k] * Power[WordBits - k]
      BY <3>1, PowerAdds
    <3>3. Power[k] \in Nat \ {0} /\ Power[WordBits - k] \in Nat \ {0}
      BY <3>1, PowerIs
    <3>4. ASSUME NEW x \in Nat \ {0}, NEW y \in Nat \ {0} PROVE x <= x * y
      <4>1. x * 1 <= x * y /\ x * 1 = x
        BY <3>4
      <4> QED BY <4>1
    <3>5. Power[k] <= Power[WordBits]
      BY <3>1, <3>2, <3>3, <3>4
    <3> QED BY <3>5 DEF k
  <2>4. outBits * Power[w] + data < Power[outCount] * Power[w]
    <3>1. ASSUME NEW x \in Nat, NEW y \in Nat \ {0}, NEW p \in Nat \ {0}, x < p, NEW z \in 0..(y - 1)
          PROVE  x * y + z < p * y
      <4>1. (x + 1) * y <= p * y /\ (x + 1) * y = x * y + y
        BY <3>1
      <4>2. x * y \in Nat /\ p * y \in Nat
        BY <3>1
      <4> QED BY <3>1, <4>1, <4>2
    <3>2. outBits < Power[outCount]
      BY <1>2, <1>3
    <3> QED BY <1>3, <1>4, <3>1, <3>2
  <2> DEFINE v == outBits * Power[w] + data
  <2>5. v \in Nat
    <3>1. outBits * Power[w] \in Nat /\ data \in Nat
      BY <1>3, <1>4
    <3> QED BY <3>1
  <2>6. v < Power[WordBits]
    <3>1. v < Power[outCount + w]
      BY <2>2, <2>4
    <3>2. Power[outCount + w] \in Nat
      <4>1. outCount + w \in 0..WordBits
        BY <1>1, <1>2
      <4> QED BY <4>1, PowerIs
    <3> HIDE DEF v
    <3> QED BY <1>3, <2>3, <2>5, <3>1, <3>2
  <2>7. r = v % Power[WordBits]
    BY <2>1
  <2>8. r = v
    <3> HIDE DEF v
    <3> QED BY <1>3, <2>5, <2>6, <2>7
  <2> QED BY <2>8 DEF v, data
<1> QED
  BY <1>5, <1>6

Encoded(n, w, r, count) ==
  LET s == Stream(file, outBytes, outBits, outCount)
      t == Stream(file, outBytes \o WholeBytes(r, count), r % Power[count % ByteBits], count % ByteBits)
  IN  Len(t) = Len(s) + w /\ (Fits(Len(s), w) => t = s \o Bits(n, w))

(* encode adds the bits of its field.                                        *)
LEMMA EncodeAdds ==
  ASSUME WriterHolds, NEW n \in Int, NEW w \in 0..WordBits, NEW r \in ShiftedIn(n, w),
         NEW count, count = outCount + w
  PROVE  Encoded(n, w, r, count)
<1> DEFINE a == WholeBytes(r, count)
           o == outBytes \o a
           c == count % ByteBits
           b == r % Power[c]
           s == Stream(file, outBytes, outBits, outCount)
           t == Stream(file, o, b, c)
           m == Len(file) + Len(outBytes)
           q == count \div ByteBits
<1>1. WordBits \in Nat /\ ByteBits \in Nat \ {0} /\ ByteBits <= WordBits /\ w \in Nat
  BY ByteAssumption DEF WordBits
<1>2. outCount \in 0..(ByteBits - 1) /\ outBits \in 0..(Power[outCount] - 1) /\ outCount \in 0..WordBits
      /\ outCount \in Nat /\ file \in Seq(Byte) /\ outBytes \in Seq(Byte)
  BY <1>1 DEF WriterHolds
<1>3. outBits \in Nat /\ r \in Nat
  <2>1. Power[outCount] \in Nat \ {0}
    BY <1>2, PowerIs
  <2>2. outBits \in Nat
    BY <1>2, <2>1
  <2>3. r \in Nat
    BY ShiftedNat
  <2> QED BY <2>2, <2>3
<1>4. count \in Nat /\ count < WordBits + ByteBits
  BY <1>1, <1>2
<1>5. c \in 0..(ByteBits - 1) /\ c \in 0..WordBits /\ q \in Nat /\ count = (ByteBits * q) + c
  BY <1>1, <1>4
<1>6. b \in Int
  <2>1. Power[c] \in Nat \ {0}
    BY <1>5, PowerIs
  <2> HIDE DEF c
  <2> QED BY <1>3, <2>1
<1>7. a \in Seq(Byte) /\ Len(a) = q
  <2>1. a \in Seq(Byte)
    BY <1>3, <1>4, WholeBytesAre
  <2> HIDE DEF q
  <2>2. Len(a) = q
    <3>1. a = [i \in 1..q |-> (r \div Power[count - i * ByteBits]) % Power[ByteBits]]
      BY DEF WholeBytes, q
    <3> HIDE DEF a
    <3>2. DOMAIN a = 1..q
      BY <3>1
    <3>3. DOMAIN a = 1..Len(a) /\ Len(a) \in Nat
      BY <2>1
    <3> QED BY <1>5, <3>2, <3>3
  <2> QED BY <2>1, <2>2
<1> HIDE DEF a
<1>8. o \in Seq(Byte) /\ Len(o) = Len(outBytes) + q
  BY <1>2, <1>7
<1>9. m \in Nat /\ Len(s) = (ByteBits * m) + outCount
  <2>1. m \in Nat
    BY <1>2
  <2>2. outBits \in Int
    BY <1>3
  <2> QED BY <1>2, <2>1, <2>2, StreamIs DEF StreamLen
<1>10. Len(t) = (ByteBits * (m + q)) + c
  <2>1. StreamLen(t, file, o, c)
    <3> HIDE DEF o, b, c
    <3> QED BY <1>2, <1>5, <1>6, <1>8, StreamIs, Zenon
  <2> HIDE DEF t, o, q
  <2>2. Len(t) = (ByteBits * (Len(file) + Len(o))) + c
    BY <2>1, Zenon DEF StreamLen
  <2>3. Len(file) + Len(o) = m + q
    BY <1>2, <1>5, <1>8
  <2> QED BY <2>2, <2>3, Zenon
<1>11. Len(t) = Len(s) + w
  <2> HIDE DEF t, s, m, q, c
  <2>1. ByteBits * (m + q) = (ByteBits * m) + (ByteBits * q) /\ ByteBits * m \in Nat /\ ByteBits * q \in Nat
    BY <1>1, <1>5, <1>9
  <2> QED BY <1>1, <1>2, <1>5, <1>9, <1>10, <2>1
<1>12. ASSUME Fits(Len(s), w) PROVE t = s \o Bits(n, w)
  <2>1. Len(s) % ByteBits = outCount
    <3> HIDE DEF s, m
    <3> QED BY <1>2, <1>9, ToNextByte
  <2>2. outCount + w <= WordBits
    BY <1>12, <2>1, Zenon DEF Fits
  <2>3. r = (outBits * Power[w]) + (n % Power[w])
    BY <2>2, ShiftedWhole
  <2> HIDE DEF t, s
  <2>4. t = s \o Bits(n, w)
    <3>1. After(file, outBytes, outBits, outCount, n, w, r, count)
      <4>1. outCount + w <= WordBits /\ count = outCount + w
        BY <2>2
      <4> QED BY <1>1, <1>2, <1>3, <2>3, <4>1, ComesAfter, Zenon
    <3> QED BY <3>1, Zenon DEF After, t, s, o, a, b, c
  <2> QED BY <2>4
<1> HIDE DEF s, t
<1>13. Len(t) = Len(s) + w /\ (Fits(Len(s), w) => t = s \o Bits(n, w))
  BY <1>11, <1>12
<1> QED
  BY <1>13, Zenon DEF Encoded, s, t, o, a, b, c

(* pack fills the last byte with zeros.                                      *)
LEMMA PackFills ==
  ASSUME WriterHolds
  PROVE  BitsOf(file \o Packed.bytes) = PadBits(Stream(file, outBytes, outBits, outCount))
<1> DEFINE s == Stream(file, outBytes, outBits, outCount)
<1>1. WordBits \in Nat /\ ByteBits \in Nat \ {0} /\ ByteBits <= WordBits
  BY ByteAssumption DEF WordBits
<1>2. outCount \in 0..(ByteBits - 1) /\ outBits \in 0..(Power[outCount] - 1) /\ outCount \in 0..WordBits
      /\ outCount \in Nat /\ file \in Seq(Byte) /\ outBytes \in Seq(Byte)
  BY <1>1 DEF WriterHolds
<1>3. CASE outCount = 0
  <2>1. Packed.bytes = outBytes
    BY <1>3 DEF Packed
  <2>2. BitsOf(file \o outBytes) \in BitSeq
    <3>1. file \o outBytes \in Seq(Byte)
      BY <1>2
    <3> QED BY <3>1, BitsOfIs
  <2>3. s = BitsOf(file \o outBytes) \o <<>>
    <3>1. Bits(outBits, 0) = <<>>
      BY DEF Bits
    <3> QED BY <1>3, <3>1 DEF Stream
  <2>4. s = BitsOf(file \o outBytes) /\ s \in BitSeq
    <3> HIDE DEF s
    <3> QED BY <2>2, <2>3, ConcatEmptySeq DEF BitSeq
  <2>5. Missing(Len(s), 0)
    <3> DEFINE m == Len(file) + Len(outBytes)
    <3>1. m \in Nat /\ Len(s) = (ByteBits * m) + 0
      <4>1. Len(file \o outBytes) = m /\ file \o outBytes \in Seq(Byte) /\ m \in Nat
        BY <1>2
      <4>2. Len(s) = ByteBits * m
        BY <2>4, <4>1, BitsOfIs, Zenon
      <4> HIDE DEF m, s
      <4> QED BY <1>1, <4>1, <4>2
    <3>2. 0 \in 0..(ByteBits - 1)
      BY <1>1
    <3> HIDE DEF m, s
    <3> QED BY <3>1, <3>2, ToNextByte
  <2>6. PadBits(s) = s \o <<>>
    <3> HIDE DEF s
    <3>1. [j \in 1..0 |-> 0] = <<>>
      OBVIOUS
    <3> QED BY <2>5, <3>1 DEF PadBits, Missing
  <2>7. s \o <<>> = s
    <3> HIDE DEF s
    <3> QED BY <2>4, ConcatEmptySeq DEF BitSeq
  <2> QED BY <2>1, <2>4, <2>6, <2>7
<1>4. CASE outCount # 0
  <2> DEFINE x == outBits * Power[ByteBits - outCount]
  <2>1. Packed.bytes = Append(outBytes, x)
    BY <1>4 DEF Packed
  <2>2. x \in Byte
    <3>1. Packed.bytes \in Seq(Byte)
      BY PackedHolds
    <3> HIDE DEF x
    <3>2. /\ Append(outBytes, x)[Len(outBytes) + 1] = x
          /\ Len(outBytes) + 1 \in DOMAIN Append(outBytes, x)
      BY <1>2
    <3>3. \A i \in DOMAIN Packed.bytes : Packed.bytes[i] \in Byte
      BY <3>1
    <3> QED BY <2>1, <3>2, <3>3
  <2>3. outCount \in 1..(ByteBits - 1)
    BY <1>2, <1>4
  <2>4. BitsOf(file \o Append(outBytes, x)) = PadBits(s)
    BY <1>2, <2>2, <2>3, FilledUp
  <2> QED BY <2>1, <2>4
<1> QED
  BY <1>3, <1>4

(* What has been written, what waits and what the register holds are the     *)
(* calls one after the other.                                                *)
CallsKept == ~reading => Makes(calls, StreamSoFar)

StreamInv == calls \in Seq(CallSet) /\ CallsKept

(* The stream, by the bytes and the register of the writer.                  *)
LEMMA StreamSoFarIs ==
  ASSUME WriterHolds
  PROVE  /\ StreamSoFar = Stream(file, outBytes, outBits, outCount)
         /\ StreamSoFar \in BitSeq
<1>1. StreamSoFar = Stream(file, outBytes, outBits, outCount)
  BY DEF StreamSoFar, Stream
<1>2. /\ outCount \in 0..(ByteBits - 1) /\ file \in Seq(Byte) /\ outBytes \in Seq(Byte)
  BY DEF WriterHolds
<1>3. outBits \in Int
  <2>1. outCount \in 0..WordBits
    BY <1>2, ByteAssumption DEF WordBits
  <2>2. Power[outCount] \in Nat
    BY <2>1, PowerIs
  <2> QED BY <2>2 DEF WriterHolds
<1>4. StreamLen(Stream(file, outBytes, outBits, outCount), file, outBytes, outCount)
  BY <1>2, <1>3, StreamIs, Zenon
<1> QED
  BY <1>1, <1>4, Zenon DEF StreamLen

(* Initially the stream is empty.                                            *)
LEMMA InitMakes ==
  ASSUME Init
  PROVE  StreamInv
<1>1. StreamSoFar = <<>>
  <2>1. file = <<>> /\ outBytes = <<>> /\ outBits = 0 /\ outCount = 0
    BY DEF Init
  <2>2. Bits(0, 0) = <<>>
    BY DEF Bits
  <2>3. BitsOf(<<>> \o <<>>) = <<>>
    <3>1. <<>> \in Seq(Byte) /\ Len(<<>>) = 0 /\ <<>> \o <<>> = <<>>
      OBVIOUS
    <3>2. BitsOf(<<>>) \in BitSeq /\ Len(BitsOf(<<>>)) = ByteBits * 0
      BY <3>1, BitsOfIs
    <3>3. ByteBits * 0 = 0
      BY ByteAssumption
    <3> DEFINE t == BitsOf(<<>>)
    <3> HIDE DEF t
    <3>4. t \in BitSeq /\ Len(t) = 0
      BY <3>2, <3>3 DEF t
    <3>5. t = <<>>
      BY <3>4 DEF BitSeq
    <3> QED BY <3>1, <3>5 DEF t
  <2>4. <<>> \o <<>> = <<>>
    OBVIOUS
  <2> QED BY <2>1, <2>2, <2>3, <2>4, Zenon DEF StreamSoFar
<1>2. calls = <<>> /\ calls \in Seq(CallSet)
  BY DEF Init
<1>3. Len(<<>>) = 0
  OBVIOUS
<1> QED
  BY <1>1, <1>2, <1>3, NothingCalled, Zenon DEF StreamInv, CallsKept, Makes

(* encode adds its call to the stream,                                       *)
LEMMA EncodeMakes ==
  ASSUME IInv, StreamInv, NEW f \in Fields, Encode(f)
  PROVE  StreamInv'
<1> DEFINE s == StreamSoFar
           d == [n |-> f.n, w |-> f.w]
<1>1. f.n \in Int /\ f.w \in 0..WordBits
  BY FieldsAssumption
<1>2. WriterHolds /\ calls \in Seq(CallSet)
  BY Zenon DEF IInv, StreamInv
<1>3. PICK r \in ShiftedIn(f.n, f.w) :
           /\ outBytes' = outBytes \o WholeBytes(r, outCount + f.w)
           /\ outBits' = r % Power[(outCount + f.w) % ByteBits]
           /\ outCount' = (outCount + f.w) % ByteBits
  BY DEF Encode
<1>4. /\ ~reading /\ reading' = reading /\ file' = file
      /\ calls' = IF f.w = 0 THEN calls ELSE calls \o Put(f.n, f.w)
  BY Zenon DEF Encode
<1>5. Encoded(f.n, f.w, r, outCount + f.w)
  BY <1>1, <1>2, EncodeAdds, Zenon
<1>6. s = Stream(file, outBytes, outBits, outCount) /\ s \in BitSeq
  BY <1>2, StreamSoFarIs, Zenon
<1>7. s' = Stream(file', outBytes', outBits', outCount')
  BY Zenon DEF StreamSoFar, Stream
<1>8. Len(s') = Len(s) + f.w /\ (Fits(Len(s), f.w) => s' = s \o Bits(f.n, f.w))
  <2> DEFINE count == outCount + f.w
  <2>1. s' = Stream(file, outBytes \o WholeBytes(r, count), r % Power[count % ByteBits], count % ByteBits)
    BY <1>3, <1>4, <1>7, Zenon
  <2>2. Encoded(f.n, f.w, r, count)
    BY <1>5
  <2> HIDE DEF count, s
  <2> QED BY <1>6, <2>1, <2>2, Zenon DEF Encoded
<1>9. Makes(calls, s)
  BY <1>4, Zenon DEF StreamInv, CallsKept
<1> HIDE DEF s
<1>10. CASE f.w = 0
  <2>1. calls' = calls
    BY <1>4, <1>10, Zenon
  <2>2. Len(s) \in Nat /\ WordBits \in Nat /\ ByteBits \in Nat \ {0} /\ ByteBits <= WordBits
    BY <1>6, ByteAssumption DEF BitSeq, WordBits
  <2>3. Fits(Len(s), 0)
    BY <2>2 DEF Fits
  <2>4. s' = s \o Bits(f.n, 0)
    BY <1>8, <1>10, <2>3, Zenon
  <2>5. Bits(f.n, 0) = <<>>
    BY DEF Bits
  <2>6. s \o <<>> = s
    BY <1>6, ConcatEmptySeq DEF BitSeq
  <2>7. s' = s
    BY <2>4, <2>5, <2>6, Zenon
  <2>8. Makes(calls', s')
    BY <1>9, <2>1, <2>7, Zenon
  <2> QED BY <1>2, <2>1, <2>8, Zenon DEF StreamInv, CallsKept, s
<1>11. CASE f.w # 0
  <2>1. d \in CallSet /\ d.w = f.w /\ d.n = f.n
    BY <1>1 DEF CallSet
  <2>2. calls' = calls \o <<d>>
    BY <1>4, <1>11, Zenon DEF Put
  <2> HIDE DEF d
  <2>3. Len(s') = PlaceAfter(Len(s), d)
    BY <1>8, <1>11, <2>1, Zenon DEF PlaceAfter
  <2>4. Fits(Len(s), d.w) => s' = BitsAfter(s, d)
    BY <1>8, <1>11, <2>1, Zenon DEF BitsAfter
  <2>5. Makes(calls \o <<d>>, s')
    BY <1>2, <1>9, <2>1, <2>3, <2>4, CallMore, Zenon
  <2>6. calls' \in Seq(CallSet)
    <3>1. <<d>> \in Seq(CallSet)
      BY <2>1
    <3> QED BY <1>2, <2>2, <3>1, ConcatProperties, Zenon
  <2> QED BY <2>2, <2>5, <2>6, Zenon DEF StreamInv, CallsKept, s
<1> QED
  BY <1>10, <1>11

(* A mark of packing after the stream, filled up.                            *)
LEMMA MarkMakes ==
  ASSUME WriterHolds, calls \in Seq(CallSet), Makes(calls, StreamSoFar)
  PROVE  /\ Makes(calls \o PackMark, BitsOf(file \o Packed.bytes))
         /\ calls \o PackMark \in Seq(CallSet)
<1> DEFINE s == StreamSoFar
           t == BitsOf(file \o Packed.bytes)
           d == [n |-> 0, w |-> 0]
<1>1. s = Stream(file, outBytes, outBits, outCount) /\ s \in BitSeq
  BY StreamSoFarIs, Zenon
<1>2. t = PadBits(s)
  BY <1>1, PackFills, Zenon
<1>3. d \in CallSet /\ d.w = 0 /\ PackMark = <<d>>
  BY ByteAssumption DEF CallSet, PackMark, WordBits
<1> HIDE DEF s, t, d
<1>4. Len(PadBits(s)) = Aligned(Len(s))
  <2> DEFINE k == (-Len(s)) % ByteBits
             z == [i \in 1..k |-> 0]
  <2>1. Len(s) \in Nat /\ ByteBits \in Nat \ {0}
    BY <1>1, ByteAssumption DEF BitSeq
  <2>2. k \in Nat
    BY <2>1
  <2>3. PadBits(s) = s \o z /\ Aligned(Len(s)) = Len(s) + k
    BY DEF PadBits, Aligned
  <2> HIDE DEF k
  <2>4. z \in BitSeq /\ Len(z) = k
    BY <2>2 DEF BitSeq
  <2> HIDE DEF z
  <2>5. Len(s \o z) = Len(s) + Len(z)
    BY <1>1, <2>4, ConcatProperties DEF BitSeq
  <2> QED BY <2>3, <2>4, <2>5
<1>5. Len(t) = PlaceAfter(Len(s), d) /\ (Fits(Len(s), d.w) => t = BitsAfter(s, d))
  BY <1>2, <1>3, <1>4, Zenon DEF PlaceAfter, BitsAfter
<1>6. Makes(calls, s)
  BY Zenon DEF s
<1>7. Makes(calls \o <<d>>, t)
  BY <1>3, <1>5, <1>6, CallMore, Zenon
<1>8. calls \o <<d>> \in Seq(CallSet)
  <2>1. <<d>> \in Seq(CallSet)
    BY <1>3
  <2> QED BY <2>1, ConcatProperties, Zenon
<1> QED
  BY <1>3, <1>7, <1>8, Zenon DEF t

(* An empty register adds no bit.                                            *)
LEMMA EmptyRegister ==
  ASSUME NEW a \in Seq(Byte), NEW b
  PROVE  BitsOf(a) \o Bits(b, 0) = BitsOf(a)
<1>1. Bits(b, 0) = <<>>
  BY DEF Bits
<1>2. BitsOf(a) \in BitSeq
  BY BitsOfIs
<1> QED
  BY <1>1, <1>2, ConcatEmptySeq DEF BitSeq

(* pack adds its mark,                                                       *)
LEMMA PackMakes ==
  ASSUME IInv, StreamInv, Pack
  PROVE  StreamInv'
<1>1. WriterHolds /\ calls \in Seq(CallSet)
  BY Zenon DEF IInv, StreamInv
<1>2. /\ ~reading /\ reading' = reading /\ file' = file
      /\ outBytes' = Packed.bytes /\ outCount' = Packed.count
      /\ calls' = calls \o PackMark
  BY Zenon DEF Pack
<1>3. Makes(calls \o PackMark, BitsOf(file \o Packed.bytes)) /\ calls \o PackMark \in Seq(CallSet)
  BY <1>1, <1>2, MarkMakes, Zenon DEF StreamInv, CallsKept
<1>4. StreamSoFar' = BitsOf(file \o Packed.bytes)
  <2>1. StreamSoFar' = BitsOf(file \o Packed.bytes) \o Bits(outBits', 0)
    BY <1>1, <1>2, PackedHolds, Zenon DEF StreamSoFar
  <2>2. file \o Packed.bytes \in Seq(Byte)
    <3>1. Packed.bytes \in Seq(Byte) /\ file \in Seq(Byte)
      BY <1>1, PackedHolds, Zenon DEF WriterHolds
    <3> QED BY <3>1, ConcatProperties, Zenon
  <2> QED BY <2>1, <2>2, EmptyRegister, Zenon
<1> QED
  BY <1>2, <1>3, <1>4, Zenon DEF StreamInv, CallsKept

(* and writing the buffer adds nothing:                                      *)
LEMMA WriteMakes ==
  ASSUME IInv, StreamInv, Write
  PROVE  StreamInv'
<1>1. WriterHolds /\ calls \in Seq(CallSet)
  BY Zenon DEF IInv, StreamInv
<1>2. /\ ~reading /\ reading' = reading /\ file' = file \o Packed.bytes
      /\ outBytes' = <<>> /\ outCount' = 0
      /\ calls' = calls \o PackMark
  BY Zenon DEF Write
<1>3. Makes(calls \o PackMark, BitsOf(file \o Packed.bytes)) /\ calls \o PackMark \in Seq(CallSet)
  BY <1>1, <1>2, MarkMakes, Zenon DEF StreamInv, CallsKept
<1>4. StreamSoFar' = BitsOf(file \o Packed.bytes)
  <2>1. file \o Packed.bytes \in Seq(Byte)
    <3>1. Packed.bytes \in Seq(Byte) /\ file \in Seq(Byte)
      BY <1>1, PackedHolds, Zenon DEF WriterHolds
    <3> QED BY <3>1, ConcatProperties, Zenon
  <2>2. (file \o Packed.bytes) \o <<>> = file \o Packed.bytes
    BY <2>1, ConcatEmptySeq, Zenon
  <2>3. StreamSoFar' = BitsOf(file \o Packed.bytes) \o Bits(outBits', 0)
    BY <1>2, <2>2, Zenon DEF StreamSoFar
  <2> QED BY <2>1, <2>3, EmptyRegister, Zenon
<1> QED
  BY <1>2, <1>3, <1>4, Zenon DEF StreamInv, CallsKept

(* so does every step.                                                       *)
LEMMA NextMakes ==
  ASSUME IInv, StreamInv, [Next]_vars
  PROVE  StreamInv'
<1>1. CASE UNCHANGED vars
  <2>1. /\ file' = file /\ outBytes' = outBytes /\ outBits' = outBits /\ outCount' = outCount
        /\ reading' = reading /\ calls' = calls
    BY <1>1, Zenon DEF vars, outVars
  <2> QED BY <2>1, Zenon DEF StreamInv, CallsKept, StreamSoFar
<1>2. ASSUME NEW f \in Fields, Encode(f) PROVE StreamInv'
  BY <1>2, EncodeMakes, Zenon
<1>3. CASE Read
  <2>1. reading' /\ calls' = <<>>
    BY <1>3 DEF Read
  <2>2. <<>> \in Seq(CallSet)
    OBVIOUS
  <2> QED BY <2>1, <2>2, Zenon DEF StreamInv, CallsKept
<1>4. ASSUME NEW call, NEW w, NEW r, Settle(call, w, r) PROVE StreamInv'
  <2>1. /\ file' = file /\ outBytes' = outBytes /\ outBits' = outBits /\ outCount' = outCount
        /\ reading' = reading /\ calls' = calls
    BY <1>4, Zenon DEF Settle, outVars
  <2> QED BY <2>1, Zenon DEF StreamInv, CallsKept, StreamSoFar
<1>5. ASSUME NEW w \in Widths, Decode(w) PROVE StreamInv'
  BY <1>4, <1>5, Zenon DEF Decode
<1>6. CASE Align
  BY <1>4, <1>6, Zenon DEF Align
<1> QED
  BY <1>1, <1>2, <1>3, <1>5, <1>6, PackMakes, WriteMakes, Zenon DEF Next

(* As long as no field was longer than the register could take, the bytes    *)
(* written, the bytes waiting and the register are the fields one after the  *)
(* other; and when one was, no bit is missing or added.                      *)
THEOREM StreamAlwaysCalls == Spec => []StreamIsCalls
<1>1. Init => IInv /\ StreamInv
  BY InitHolds, InitMakes, Zenon
<1>2. (IInv /\ StreamInv) /\ [Next]_vars => (IInv /\ StreamInv)'
  BY NextKeeps, NextMakes, Zenon
<1>3. StreamInv => StreamIsCalls
  BY Zenon DEF StreamInv, CallsKept, Makes, StreamIsCalls
<1> QED
  BY <1>1, <1>2, <1>3, PTL DEF Spec
====================================================================================
