----------------------------- MODULE BitStream_proofs -----------------------------
(***************************************************************************)
(* What the operators of BitStream compute, for bytes of any even number   *)
(* of bits: sums, flattened and picked sequences, numbers as bits, and the *)
(* stream that a sequence of calls makes.                                  *)
(*                                                                         *)
(* A number shifted over a field is the bits of both (BitsJoin).  Calls    *)
(* that fill whole bytes and mark nothing make a piece of a stream         *)
(* (Piece), pieces one after the other make a piece (PieceJoin), and a     *)
(* stream that holds parts one after the other holds each where those      *)
(* before it end (FindsFlat).                                              *)
(***************************************************************************)
EXTENDS BitStream, FiniteSetTheorems, SequenceTheorems, WellFoundedInduction, TLAPS

(* A set of naturals that is not empty has a least member.                    *)
LEMMA LeastNatural ==
  ASSUME NEW S \in SUBSET Nat, S # {}
  PROVE  \E m \in S : \A k \in S : m <= k
<1> DEFINE lessThan == {p \in Nat \X Nat : p[1] < p[2]}
<1>1. IsWellFoundedOn(lessThan, Nat)
  BY NatLessThanWellFounded, Zenon DEF OpToRel
<1>2. PICK m \in S : \A k \in S : ~(<<k, m>> \in lessThan)
  BY <1>1, WFMin, Zenon
<1>3. \A k \in S : ~(k < m)
  BY <1>2
<1> QED
  BY <1>3

(* Counting up: what holds of 0, and of k when it holds of k - 1, holds up   *)
(* to n.                                                                     *)
LEMMA CountUp ==
  ASSUME NEW n \in Nat, NEW H, 0 \in H, \A k \in 1..n : k - 1 \in H => k \in H
  PROVE  \A k \in 0..n : k \in H
<1> DEFINE bad == {k \in 0..n : k \notin H}
<1>1. SUFFICES ASSUME bad # {} PROVE FALSE
  OBVIOUS
<1>2. bad \in SUBSET Nat
  OBVIOUS
<1>3. PICK m \in bad : \A k \in bad : m <= k
  <2> HIDE DEF bad
  <2> QED BY <1>1, <1>2, LeastNatural, Zenon
<1>4. m \in 1..n /\ m - 1 \in 0..n /\ ~(m <= m - 1)
  BY <1>3
<1> QED
  BY <1>3, <1>4

(* The powers of two, for widths up to a word's.                              *)
LEMMA PowerIs ==
  /\ Power[0] = 1
  /\ \A k \in 1..WordBits : Power[k] = 2 * Power[k - 1]
  /\ \A k \in 0..WordBits : Power[k] \in Nat \ {0}
<1> DEFINE n == WordBits
           First == 1
           Step(u, k) == 2 * u
           Up(m, f) == f = [k \in 0..m |-> IF k = 0 THEN First ELSE Step(f[k - 1], k)]
           bad == {m \in 0..n : ~\E f : Up(m, f)}
<1>1. n \in 0..n
  BY ByteAssumption DEF WordBits
<1> HIDE DEF Step, First, n
<1>2. ASSUME bad # {} PROVE FALSE
  <2>1. bad \in SUBSET Nat
    BY <1>1
  <2>2. PICK m \in bad : \A j \in bad : m <= j
    <3> HIDE DEF bad
    <3> QED BY <1>2, <2>1, LeastNatural, Zenon
  <2>3. m \in 0..n /\ ~\E f : Up(m, f)
    BY <2>2
  <2>4. m # 0
    <3>1. Up(0, [k \in 0..0 |-> First])
      OBVIOUS
    <3> QED BY <2>3, <3>1
  <2>5. m - 1 \in 0..n /\ m - 1 \notin bad
    BY <1>1, <2>2, <2>3, <2>4
  <2>6. PICK f : Up(m - 1, f)
    BY <2>5
  <2> DEFINE h == [k \in 0..m |-> IF k = m THEN Step(f[m - 1], m) ELSE f[k]]
  <2>7. \A k \in 0..(m - 1) : f[k] = IF k = 0 THEN First ELSE Step(f[k - 1], k)
    BY <2>6
  <2>8. \A k \in 0..m : h[k] = IF k = 0 THEN First ELSE Step(h[k - 1], k)
    <3> TAKE k \in 0..m
    <3>1. k \in 0..(m - 1) \/ k = m
      BY <2>3
    <3>2. k # 0 => (k - 1 \in 0..m /\ k - 1 # m /\ h[k - 1] = f[k - 1])
      BY <2>3
    <3>3. CASE k = m
      BY <2>4, <3>2, <3>3
    <3>4. CASE k # m
      <4>1. k \in 0..(m - 1) /\ h[k] = f[k]
        BY <3>1, <3>4
      <4> QED BY <2>7, <3>2, <4>1
    <3> QED BY <3>3, <3>4
  <2>9. Up(m, h)
    BY <2>8
  <2> QED BY <2>3, <2>9
<1>3. \E f : Up(n, f)
  BY <1>1, <1>2
<1> DEFINE c == CHOOSE f : Up(n, f)
<1>4. Up(n, c)
  BY <1>3
<1>5. c[0] = First /\ \A k \in 1..n : c[k] = Step(c[k - 1], k)
  <2> HIDE DEF c
  <2> QED BY <1>1, <1>4
<1>6. Power = [k \in 0..n |-> c[k]]
  BY DEF Power, Step, First, n
<1> HIDE DEF c
<1>7. n \in Nat
  BY <1>1
<1>8. Power[0] = 1 /\ \A k \in 1..n : Power[k] = 2 * Power[k - 1]
  BY <1>5, <1>6, <1>7 DEF Step, First
<1> DEFINE H == {k \in 0..n : Power[k] \in Nat \ {0}}
<1>9. 0 \in H /\ \A k \in 1..n : k - 1 \in H => k \in H
  BY <1>7, <1>8
<1>10. \A k \in 0..n : k \in H
  <2> HIDE DEF H
  <2> QED BY <1>7, <1>9, CountUp, Zenon
<1> QED
  BY <1>8, <1>10 DEF n

(* The number that bits make, bit by bit.                                    *)
LEMMA NumIs ==
  ASSUME NEW bits, Len(bits) \in Nat
  PROVE  \E f : /\ Num(bits) = f[Len(bits)]
                /\ f[0] = 0
                /\ \A k \in 1..Len(bits) : f[k] = 2 * f[k - 1] + bits[k]
<1> DEFINE n == Len(bits)
           First == 0
           Step(u, k) == 2 * u + bits[k]
           Up(m, f) == f = [k \in 0..m |-> IF k = 0 THEN First ELSE Step(f[k - 1], k)]
           bad == {m \in 0..n : ~\E f : Up(m, f)}
<1>1. n \in 0..n
  OBVIOUS
<1> HIDE DEF Step, First, n
<1>2. ASSUME bad # {} PROVE FALSE
  <2>1. bad \in SUBSET Nat
    BY <1>1
  <2>2. PICK m \in bad : \A j \in bad : m <= j
    <3> HIDE DEF bad
    <3> QED BY <1>2, <2>1, LeastNatural, Zenon
  <2>3. m \in 0..n /\ ~\E f : Up(m, f)
    BY <2>2
  <2>4. m # 0
    <3>1. Up(0, [k \in 0..0 |-> First])
      OBVIOUS
    <3> QED BY <2>3, <3>1
  <2>5. m - 1 \in 0..n /\ m - 1 \notin bad
    BY <1>1, <2>2, <2>3, <2>4
  <2>6. PICK f : Up(m - 1, f)
    BY <2>5
  <2> DEFINE h == [k \in 0..m |-> IF k = m THEN Step(f[m - 1], m) ELSE f[k]]
  <2>7. \A k \in 0..(m - 1) : f[k] = IF k = 0 THEN First ELSE Step(f[k - 1], k)
    BY <2>6
  <2>8. \A k \in 0..m : h[k] = IF k = 0 THEN First ELSE Step(h[k - 1], k)
    <3> TAKE k \in 0..m
    <3>1. k \in 0..(m - 1) \/ k = m
      BY <2>3
    <3>2. k # 0 => (k - 1 \in 0..m /\ k - 1 # m /\ h[k - 1] = f[k - 1])
      BY <2>3
    <3>3. CASE k = m
      BY <2>4, <3>2, <3>3
    <3>4. CASE k # m
      <4>1. k \in 0..(m - 1) /\ h[k] = f[k]
        BY <3>1, <3>4
      <4> QED BY <2>7, <3>2, <4>1
    <3> QED BY <3>3, <3>4
  <2>9. Up(m, h)
    BY <2>8
  <2> QED BY <2>3, <2>9
<1>3. \E f : Up(n, f)
  BY <1>1, <1>2
<1> DEFINE c == CHOOSE f : Up(n, f)
<1>4. Up(n, c)
  BY <1>3
<1>5. c[0] = First /\ \A k \in 1..n : c[k] = Step(c[k - 1], k)
  <2> HIDE DEF c
  <2> QED BY <1>1, <1>4
<1>6. Num(bits) = c[n]
  BY DEF Num, Step, First, n
<1> HIDE DEF c
<1> QED
  BY <1>5, <1>6, Zenon DEF Step, First, n

(* A number made of a quotient and a rest.                                   *)
LEMMA Divided ==
  ASSUME NEW d \in Nat \ {0}, NEW q \in Nat, NEW r \in 0..(d - 1)
  PROVE  (q * d + r) \div d = q /\ (q * d + r) % d = r
<1> DEFINE a == q * d + r
           x == a \div d
           y == a % d
<1>1. q * d \in Nat /\ a \in Nat
  OBVIOUS
<1>2. x \in Nat /\ y \in 0..(d - 1) /\ a = d * x + y
  <2> HIDE DEF a
  <2> QED BY <1>1
<1> HIDE DEF x, y
<1>3. CASE x < q
  <2>1. x + 1 <= q
    BY <1>2, <1>3
  <2>2. d * (x + 1) <= d * q
    BY <1>2, <2>1
  <2> QED BY <1>2, <2>2
<1>4. CASE q < x
  <2>1. q + 1 <= x
    BY <1>2, <1>4
  <2>2. d * (q + 1) <= d * x
    BY <1>2, <2>1
  <2> QED BY <1>2, <2>2
<1>5. CASE q = x
  BY <1>2, <1>5 DEF x, y
<1> QED
  BY <1>2, <1>3, <1>4, <1>5

(* The powers of a sum.                                                      *)
LEMMA PowerAdds ==
  ASSUME NEW a \in Nat, NEW b \in Nat, a + b <= WordBits
  PROVE  Power[a + b] = Power[a] * Power[b]
<1> DEFINE H == {k \in 0..b : Power[a + k] = Power[a] * Power[k]}
<1>1. WordBits \in Nat
  BY ByteAssumption DEF WordBits
<1>2. Power[a] \in Nat
  BY <1>1, PowerIs
<1>3. 0 \in H
  BY <1>2, PowerIs
<1>4. ASSUME NEW k \in 1..b, k - 1 \in H PROVE k \in H
  <2>1. Power[a + k] = 2 * Power[(a + k) - 1] /\ Power[k] = 2 * Power[k - 1]
    BY <1>1, PowerIs
  <2>2. (a + k) - 1 = a + (k - 1) /\ Power[a + (k - 1)] = Power[a] * Power[k - 1]
    BY <1>4
  <2>3. Power[k - 1] \in Nat
    BY <1>1, PowerIs
  <2>4. 2 * (Power[a] * Power[k - 1]) = Power[a] * (2 * Power[k - 1])
    BY <1>2, <2>3
  <2>5. Power[a + k] = Power[a] * Power[k]
    BY <2>1, <2>2, <2>4
  <2> QED BY <2>5
<1>5. \A k \in 0..b : k \in H
  <2> HIDE DEF H
  <2> QED BY <1>3, <1>4, CountUp, Zenon
<1>6. b \in H
  BY <1>5
<1> QED
  BY <1>6

BitSeq == Seq({0, 1})

(* n bits from place a, by their number and one by one.                      *)
LEMMA FieldIs ==
  ASSUME NEW s \in BitSeq, NEW a \in Nat, NEW n \in Nat, a + n <= Len(s)
  PROVE  Len(Field(s, a, n)) = n /\ \A k \in 1..n : Field(s, a, n)[k] = s[a + k]
<1>1. Field(s, a, n) = SubSeq(s, a + 1, a + n) /\ Len(s) \in Nat
  BY DEF Field, BitSeq
<1>2. a + 1 \in 1..(Len(s) + 1) /\ a + n \in (a + 1 - 1)..Len(s)
  BY <1>1
<1>3. Len(SubSeq(s, a + 1, a + n)) = (a + n) - (a + 1) + 1
      /\ \A i \in 1..((a + n) - (a + 1) + 1) : SubSeq(s, a + 1, a + n)[i] = s[(a + 1) + i - 1]
  BY <1>2, SubSeqProperties DEF BitSeq
<1>4. (a + n) - (a + 1) + 1 = n
  OBVIOUS
<1>5. \A k \in 1..n : (a + 1) + k - 1 = a + k
  OBVIOUS
<1> QED
  BY <1>1, <1>3, <1>4, <1>5

(* Half of a quotient.                                                       *)
LEMMA Halved ==
  ASSUME NEW b \in Nat, NEW d \in Nat \ {0}
  PROVE  b \div (2 * d) = (b \div d) \div 2 /\ b \div d \in Nat
<1> DEFINE x == b \div d
           r == b % d
           q == x \div 2
           h == x % 2
<1>1. x \in Nat /\ r \in 0..(d - 1) /\ b = d * x + r
  OBVIOUS
<1> HIDE DEF x, r
<1>2. q \in Nat /\ h \in {0, 1} /\ x = 2 * q + h
  BY <1>1
<1> HIDE DEF q, h
<1>3. h * d + r \in 0..((2 * d) - 1) /\ d * x = q * (2 * d) + h * d
  BY <1>1, <1>2
<1>4. b = q * (2 * d) + (h * d + r)
  BY <1>1, <1>2, <1>3
<1>5. 2 * d \in Nat \ {0}
  OBVIOUS
<1>6. (q * (2 * d) + (h * d + r)) \div (2 * d) = q
  BY <1>2, <1>3, <1>5, Divided
<1> QED
  BY <1>1, <1>4, <1>6 DEF x, q

(* A number of bits is a natural.                                            *)
LEMMA NumNat ==
  ASSUME NEW bits \in BitSeq
  PROVE  Num(bits) \in Nat
<1>1. Len(bits) \in Nat
  BY DEF BitSeq
<1>2. PICK f : /\ Num(bits) = f[Len(bits)] /\ f[0] = 0
               /\ \A k \in 1..Len(bits) : f[k] = 2 * f[k - 1] + bits[k]
  BY <1>1, NumIs, Zenon
<1> DEFINE n == Len(bits)
           H == {k \in 0..n : f[k] \in Nat}
<1>3. 0 \in H
  BY <1>1, <1>2
<1>4. ASSUME NEW k \in 1..n, k - 1 \in H PROVE k \in H
  <2>1. bits[k] \in {0, 1}
    BY DEF BitSeq
  <2>2. f[k] = 2 * f[k - 1] + bits[k] /\ f[k - 1] \in Nat
    BY <1>2, <1>4
  <2> QED BY <2>1, <2>2
<1>5. \A k \in 0..n : k \in H
  <2> HIDE DEF H
  <2> QED BY <1>1, <1>3, <1>4, CountUp, Zenon
<1> QED
  BY <1>1, <1>2, <1>5

(* The bit of n that counts Power[e].                                        *)
Bit(n, e) == (n \div Power[e]) % 2

(* Quotient and remainder of q d + r.                                        *)
LEMMA Quotients ==
  ASSUME NEW d \in Nat \ {0}, NEW q \in Int, NEW r \in 0..(d - 1)
  PROVE  (q * d + r) \div d = q /\ (q * d + r) % d = r
<1> DEFINE a == q * d + r
           x == a \div d
           y == a % d
<1>1. q * d \in Int /\ a \in Int
  OBVIOUS
<1>2. x \in Int /\ y \in 0..(d - 1) /\ a = d * x + y
  <2> HIDE DEF a
  <2> QED BY <1>1
<1> HIDE DEF x, y
<1>3. CASE x < q
  <2>1. x + 1 <= q
    BY <1>2, <1>3
  <2>2. d * (x + 1) <= d * q
    BY <1>2, <2>1
  <2> QED BY <1>2, <2>2
<1>4. CASE q < x
  <2>1. q + 1 <= x
    BY <1>2, <1>4
  <2>2. d * (q + 1) <= d * x
    BY <1>2, <2>1
  <2> QED BY <1>2, <2>2
<1>5. CASE q = x
  BY <1>2, <1>5 DEF x, y
<1> QED
  BY <1>2, <1>3, <1>4, <1>5

(* A quotient divided again.                                                 *)
LEMMA Quotient2 ==
  ASSUME NEW n \in Int, NEW c \in Nat \ {0}, NEW d \in Nat \ {0}
  PROVE  (n \div c) \div d = n \div (c * d)
<1> DEFINE x == n \div c
           r == n % c
           q == x \div d
           h == x % d
<1>1. x \in Int /\ r \in 0..(c - 1) /\ n = c * x + r
  OBVIOUS
<1> HIDE DEF x, r
<1>2. q \in Int /\ h \in 0..(d - 1) /\ x = d * q + h
  BY <1>1
<1> HIDE DEF q, h
<1>3. c * d \in Nat \ {0} /\ c * h \in Nat /\ c * h <= c * (d - 1) /\ c * (d - 1) = c * d - c
  <2>1. c * h <= c * (d - 1)
    BY <1>2
  <2> QED BY <1>2, <2>1
<1>4. c * h + r \in 0..((c * d) - 1)
  BY <1>1, <1>3
<1>5. n = q * (c * d) + (c * h + r)
  <2>1. c * x = c * (d * q) + c * h
    BY <1>1, <1>2
  <2>2. c * (d * q) = q * (c * d)
    <3>1. \A i \in Int : \A j \in Int : \A k \in Int : i * (j * k) = k * (i * j)
      OBVIOUS
    <3>2. c \in Int /\ d \in Int /\ q \in Int
      BY <1>2
    <3> QED BY <3>1, <3>2, Zenon
  <2> DEFINE k == q * (c * d)
             l == c * h
  <2>3. k \in Int /\ l \in Int /\ n = (k + l) + r
    BY <1>1, <1>2, <1>3, <2>1, <2>2
  <2> HIDE DEF k, l
  <2>4. n = k + (l + r)
    BY <1>1, <2>3
  <2> QED BY <2>4 DEF k, l
<1>6. (q * (c * d) + (c * h + r)) \div (c * d) = q
  <2> DEFINE e == c * d
             g == c * h + r
  <2> HIDE DEF e, g
  <2>1. e \in Nat \ {0} /\ g \in 0..(e - 1)
    BY <1>3, <1>4 DEF e, g
  <2>2. (q * e + g) \div e = q
    BY <1>2, <2>1, Quotients
  <2> QED BY <2>2 DEF e, g
<1> QED
  BY <1>5, <1>6 DEF q, x

(* The bits of a quotient.                                                   *)
Shifts(n, a, e) == Bit(n \div Power[a], e) = Bit(n, a + e)

(* Shifting n right by a whole number of bits shifts what Bit finds of it.   *)
LEMMA BitShifts ==
  ASSUME NEW n \in Int, NEW a \in Nat, NEW e \in Nat, a + e <= WordBits
  PROVE  Shifts(n, a, e)
<1>1. WordBits \in Nat /\ a \in 0..WordBits /\ e \in 0..WordBits
  BY ByteAssumption DEF WordBits
<1>2. Power[a] \in Nat \ {0} /\ Power[e] \in Nat \ {0} /\ Power[a + e] = Power[a] * Power[e]
  BY <1>1, PowerIs, PowerAdds
<1>3. (n \div Power[a]) \div Power[e] = n \div (Power[a] * Power[e])
  BY <1>2, Quotient2
<1> QED
  BY <1>2, <1>3 DEF Shifts, Bit

(* The bits of a rest.                                                       *)
LEMMA BitLow ==
  ASSUME NEW n \in Int, NEW w \in 0..WordBits, NEW e \in 0..(w - 1)
  PROVE  Bit(n % Power[w], e) = Bit(n, e)
<1> DEFINE u == n \div Power[w]
           v == n % Power[w]
           h == v \div Power[e]
           g == v % Power[e]
           p == Power[(w - e) - 1]
<1>1. /\ WordBits \in Nat /\ w \in Nat /\ e \in Nat /\ w - e \in 1..WordBits
      /\ (w - e) - 1 \in 0..WordBits /\ e + (w - e) = w
      /\ e \in 0..WordBits
  BY ByteAssumption DEF WordBits
<1>2. /\ Power[w] \in Nat \ {0} /\ Power[e] \in Nat \ {0} /\ p \in Nat \ {0}
      /\ Power[w - e] = 2 * p
  BY <1>1, PowerIs
<1>3. Power[w] = Power[e] * Power[w - e]
  <2>1. Power[e + (w - e)] = Power[e] * Power[w - e]
    BY <1>1, PowerAdds
  <2> QED BY <1>1, <2>1
<1>4. u \in Int /\ v \in Nat /\ n = Power[w] * u + v
  BY <1>2
<1> HIDE DEF u, v, p
<1>5. h \in Nat /\ g \in 0..(Power[e] - 1) /\ v = Power[e] * h + g
  <2>1. \A b \in Nat : \A d \in Nat \ {0} :
           b \div d \in Nat /\ b % d \in 0..(d - 1) /\ b = d * (b \div d) + (b % d)
    OBVIOUS
  <2> QED BY <1>2, <1>4, <2>1, Zenon
<1> HIDE DEF h, g
<1>6. n = (2 * (p * u) + h) * Power[e] + g
  <2>1. ASSUME NEW E \in Int PROVE ((E * (2 * p)) * u) + (E * h) = (2 * (p * u) + h) * E
    BY <1>2, <1>4, <1>5
  <2>2. n = ((Power[e] * (2 * p)) * u) + (Power[e] * h) + g
    BY <1>2, <1>3, <1>4, <1>5
  <2> QED BY <1>2, <2>1, <2>2
<1>7. n \div Power[e] = 2 * (p * u) + h
  <2> DEFINE q == 2 * (p * u) + h
  <2>1. q \in Int
    BY <1>2, <1>4, <1>5
  <2> HIDE DEF q
  <2>2. (q * Power[e] + g) \div Power[e] = q
    BY <1>2, <1>5, <2>1, Quotients
  <2> QED BY <1>6, <2>2 DEF q
<1>8. (2 * (p * u) + h) % 2 = h % 2
  <2> DEFINE z == p * u
  <2>1. z \in Int
    BY <1>2, <1>4
  <2> HIDE DEF z
  <2>2. (2 * z + h) % 2 = h % 2
    BY <1>5, <2>1
  <2> QED BY <2>2 DEF z
<1> QED
  BY <1>7, <1>8 DEF Bit, h, v

(* A number shifted over another.                                            *)
LEMMA BitsJoin ==
  ASSUME NEW x \in Nat, NEW y \in Int, NEW c \in Nat, NEW w \in Nat, c + w <= WordBits
  PROVE  Bits((x * Power[w]) + (y % Power[w]), c + w) = Bits(x, c) \o Bits(y, w)
<1> DEFINE z == y % Power[w]
           n == (x * Power[w]) + z
<1>1. /\ WordBits \in Nat /\ w \in 0..WordBits /\ c \in 0..WordBits
  BY ByteAssumption DEF WordBits
<1>2. Power[w] \in Nat \ {0}
  BY <1>1, PowerIs
<1>3. z \in 0..(Power[w] - 1) /\ n \in Int
  BY <1>2
<1>4. n \div Power[w] = x /\ n % Power[w] = z
  <2>1. x \in Int
    OBVIOUS
  <2> HIDE DEF z
  <2>2. ((x * Power[w]) + z) \div Power[w] = x /\ ((x * Power[w]) + z) % Power[w] = z
    BY <1>2, <1>3, <2>1, Quotients, Zenon
  <2> QED BY <2>2
<1> HIDE DEF n, z
<1>5. ASSUME NEW j \in 1..(c + w)
      PROVE  Bit(n, (c + w) - j) = IF j <= c THEN Bit(x, c - j) ELSE Bit(y, w - (j - c))
  <2>1. CASE j <= c
    <3>1. c - j \in Nat /\ w + (c - j) <= WordBits /\ w + (c - j) = (c + w) - j
      BY <1>1, <2>1
    <3>2. Shifts(n, w, c - j)
      BY <1>3, <3>1, BitShifts, Zenon
    <3>3. Bit(n, w + (c - j)) = Bit(x, c - j)
      BY <1>4, <3>2, Zenon DEF Shifts
    <3> QED BY <2>1, <3>1, <3>3
  <2>2. CASE ~(j <= c)
    <3> DEFINE e == (c + w) - j
    <3>1. e \in 0..(w - 1) /\ w - (j - c) = e
      BY <1>1, <2>2
    <3> HIDE DEF e
    <3>2. Bit(n % Power[w], e) = Bit(n, e)
      BY <1>1, <1>3, <3>1, BitLow
    <3>3. Bit(y % Power[w], e) = Bit(y, e)
      BY <1>1, <3>1, BitLow
    <3>4. Bit(n, e) = Bit(y, e)
      BY <1>4, <3>2, <3>3, Zenon DEF z
    <3> QED BY <2>2, <3>1, <3>4 DEF e
  <2> QED BY <2>1, <2>2
<1>6. Bits(n, c + w) = [j \in 1..(c + w) |-> Bit(n, (c + w) - j)]
  BY DEF Bits, Bit
<1>7. Bits(x, c) = [j \in 1..c |-> Bit(x, c - j)] /\ Bits(y, w) = [j \in 1..w |-> Bit(y, w - j)]
  BY DEF Bits, Bit
<1>8. [j \in 1..c |-> Bit(x, c - j)] \o [j \in 1..w |-> Bit(y, w - j)]
        = [j \in 1..(c + w) |-> IF j <= c THEN Bit(x, c - j) ELSE Bit(y, w - (j - c))]
  BY <1>1
<1> QED
  BY <1>5, <1>6, <1>7, <1>8 DEF n, z

(* Streams of one length with the same bits are the same.                    *)
LEMMA SameBits ==
  ASSUME NEW s \in BitSeq, NEW t \in BitSeq, NEW n \in Nat, Len(s) = n, Len(t) = n,
         \A j \in 1..n : s[j] = t[j]
  PROVE  s = t
  BY DEF BitSeq

(* Bits s, as many as k, and then bits t, n in all.                          *)
OneAfterOther(s, t, k, n) ==
  /\ s \o t \in BitSeq /\ Len(s \o t) = n /\ n \in Nat /\ k \in Nat
  /\ \A i \in 1..n : (s \o t)[i] = IF i <= k THEN s[i] ELSE t[i - k]

(* The bits of two streams, one after the other.                             *)
LEMMA BitsConcatenated ==
  ASSUME NEW s \in BitSeq, NEW t \in BitSeq, NEW k, k = Len(s), NEW n, n = k + Len(t)
  PROVE  OneAfterOther(s, t, k, n)
  BY DEF BitSeq, OneAfterOther

(* A bit is 0 or 1.                                                          *)
LEMMA BitIs ==
  ASSUME NEW n \in Int, NEW e \in 0..WordBits
  PROVE  Bit(n, e) \in {0, 1}
<1>1. Power[e] \in Nat \ {0}
  BY PowerIs
<1>2. n \div Power[e] \in Int
  BY <1>1
<1> QED
  BY <1>2 DEF Bit

(* The w lowest bits of n, the highest first.                                *)
LEMMA BitsAre ==
  ASSUME NEW n \in Int, NEW w \in 0..WordBits
  PROVE  /\ Bits(n, w) \in BitSeq /\ Len(Bits(n, w)) = w
         /\ \A j \in 1..w : Bits(n, w)[j] = Bit(n, w - j)
<1>1. WordBits \in Nat /\ w \in Nat
  BY ByteAssumption DEF WordBits
<1>2. Bits(n, w) = [j \in 1..w |-> Bit(n, w - j)]
  BY DEF Bits, Bit
<1>3. ASSUME NEW j \in 1..w PROVE Bit(n, w - j) \in {0, 1}
  <2>1. w - j \in 0..WordBits
    BY <1>1
  <2> QED BY <2>1, BitIs
<1> QED
  BY <1>1, <1>2, <1>3 DEF BitSeq

(* One call of encode, or a pack, writes from a place to a place, and puts   *)
(* bits after bits.                                                          *)
CallSet == [n : Int, w : 0..WordBits]

PlaceAfter(at, c) == IF c.w = 0 THEN Aligned(at) ELSE at + c.w

BitsAfter(bits, c) == IF c.w = 0 THEN PadBits(bits) ELSE bits \o Bits(c.n, c.w)

StartBy(c, k, p) ==
  \E f : /\ Start(c, k) = f[p] /\ f[0] = 0
         /\ \A i \in 1..p : f[i] = PlaceAfter(f[i - 1], c[i])

(* Where a call starts, for a place counted from 0 and from 1.               *)
LEMMA StartIs ==
  ASSUME NEW c, NEW at, NEW p \in Nat, at - 1 = p
  PROVE  StartBy(c, at, p)
<1> DEFINE n == at - 1
           First == 0
           Step(u, i) == PlaceAfter(u, c[i])
           Up(m, f) == f = [i \in 0..m |-> IF i = 0 THEN First ELSE Step(f[i - 1], i)]
           bad == {m \in 0..n : ~\E f : Up(m, f)}
<1>1. n \in 0..n
  OBVIOUS
<1> HIDE DEF Step, First, n
<1>2. ASSUME bad # {} PROVE FALSE
  <2>1. bad \in SUBSET Nat
    BY <1>1
  <2>2. PICK m \in bad : \A j \in bad : m <= j
    <3> HIDE DEF bad
    <3> QED BY <1>2, <2>1, LeastNatural, Zenon
  <2>3. m \in 0..n /\ ~\E f : Up(m, f)
    BY <2>2
  <2>4. m # 0
    <3>1. Up(0, [k \in 0..0 |-> First])
      OBVIOUS
    <3> QED BY <2>3, <3>1
  <2>5. m - 1 \in 0..n /\ m - 1 \notin bad
    BY <1>1, <2>2, <2>3, <2>4
  <2>6. PICK f : Up(m - 1, f)
    BY <2>5
  <2> DEFINE h == [k \in 0..m |-> IF k = m THEN Step(f[m - 1], m) ELSE f[k]]
  <2>7. \A k \in 0..(m - 1) : f[k] = IF k = 0 THEN First ELSE Step(f[k - 1], k)
    BY <2>6
  <2>8. \A k \in 0..m : h[k] = IF k = 0 THEN First ELSE Step(h[k - 1], k)
    <3> TAKE k \in 0..m
    <3>1. k \in 0..(m - 1) \/ k = m
      BY <2>3
    <3>2. k # 0 => (k - 1 \in 0..m /\ k - 1 # m /\ h[k - 1] = f[k - 1])
      BY <2>3
    <3>3. CASE k = m
      BY <2>4, <3>2, <3>3
    <3>4. CASE k # m
      <4>1. k \in 0..(m - 1) /\ h[k] = f[k]
        BY <3>1, <3>4
      <4> QED BY <2>7, <3>2, <4>1
    <3> QED BY <3>3, <3>4
  <2>9. Up(m, h)
    BY <2>8
  <2> QED BY <2>3, <2>9
<1>3. \E f : Up(n, f)
  BY <1>1, <1>2
<1> DEFINE chosen == CHOOSE f : Up(n, f)
<1>4. Up(n, chosen)
  BY <1>3
<1>5. chosen[0] = First /\ \A i \in 1..n : chosen[i] = Step(chosen[i - 1], i)
  <2> HIDE DEF chosen
  <2> QED BY <1>1, <1>4
<1>6. Start(c, at) = chosen[n]
  BY DEF Start, Step, First, n, PlaceAfter
<1>7. n = p
  BY DEF n
<1> HIDE DEF chosen
<1> QED
  BY <1>5, <1>6, <1>7, Zenon DEF Step, First, StartBy

(* Laid, by what each call adds to the bits before it.                       *)
LEMMA LaidIs ==
  ASSUME NEW c, Len(c) \in Nat
  PROVE  \E f : /\ Laid(c) = f[Len(c)] /\ f[0] = <<>>
                /\ \A i \in 1..Len(c) : f[i] = BitsAfter(f[i - 1], c[i])
<1> DEFINE n == Len(c)
           First == <<>>
           Step(u, k) == BitsAfter(u, c[k])
           Up(m, f) == f = [k \in 0..m |-> IF k = 0 THEN First ELSE Step(f[k - 1], k)]
           bad == {m \in 0..n : ~\E f : Up(m, f)}
<1>1. n \in 0..n
  OBVIOUS
<1> HIDE DEF Step, First, n
<1>2. ASSUME bad # {} PROVE FALSE
  <2>1. bad \in SUBSET Nat
    BY <1>1
  <2>2. PICK m \in bad : \A j \in bad : m <= j
    <3> HIDE DEF bad
    <3> QED BY <1>2, <2>1, LeastNatural, Zenon
  <2>3. m \in 0..n /\ ~\E f : Up(m, f)
    BY <2>2
  <2>4. m # 0
    <3>1. Up(0, [k \in 0..0 |-> First])
      OBVIOUS
    <3> QED BY <2>3, <3>1
  <2>5. m - 1 \in 0..n /\ m - 1 \notin bad
    BY <1>1, <2>2, <2>3, <2>4
  <2>6. PICK f : Up(m - 1, f)
    BY <2>5
  <2> DEFINE h == [k \in 0..m |-> IF k = m THEN Step(f[m - 1], m) ELSE f[k]]
  <2>7. \A k \in 0..(m - 1) : f[k] = IF k = 0 THEN First ELSE Step(f[k - 1], k)
    BY <2>6
  <2>8. \A k \in 0..m : h[k] = IF k = 0 THEN First ELSE Step(h[k - 1], k)
    <3> TAKE k \in 0..m
    <3>1. k \in 0..(m - 1) \/ k = m
      BY <2>3
    <3>2. k # 0 => (k - 1 \in 0..m /\ k - 1 # m /\ h[k - 1] = f[k - 1])
      BY <2>3
    <3>3. CASE k = m
      BY <2>4, <3>2, <3>3
    <3>4. CASE k # m
      <4>1. k \in 0..(m - 1) /\ h[k] = f[k]
        BY <3>1, <3>4
      <4> QED BY <2>7, <3>2, <4>1
    <3> QED BY <3>3, <3>4
  <2>9. Up(m, h)
    BY <2>8
  <2> QED BY <2>3, <2>9
<1>3. \E f : Up(n, f)
  BY <1>1, <1>2
<1> DEFINE chosen == CHOOSE f : Up(n, f)
<1>4. Up(n, chosen)
  BY <1>3
<1>5. chosen[0] = First /\ \A i \in 1..n : chosen[i] = Step(chosen[i - 1], i)
  <2> HIDE DEF chosen
  <2> QED BY <1>1, <1>4
<1>6. Laid(c) = chosen[n]
  BY DEF Laid, Step, First, n, BitsAfter
<1> HIDE DEF chosen
<1> QED
  BY <1>5, <1>6, Zenon DEF Step, First, n

(* A call more.                                                              *)
LEMMA StartNext ==
  ASSUME NEW c \in Seq(CallSet), NEW d \in CallSet
  PROVE  /\ \A k \in 1..(Len(c) + 1) : Start(c \o <<d>>, k) = Start(c, k)
         /\ Size(c \o <<d>>) = PlaceAfter(Size(c), d)
<1> DEFINE e == c \o <<d>>
           n == Len(c)
<1>1. n \in Nat /\ Len(e) = n + 1 /\ e[n + 1] = d /\ \A i \in 1..n : e[i] = c[i]
  OBVIOUS
<1> HIDE DEF e, n
<1>2. \A k \in 1..(n + 1) : Start(e, k) = Start(c, k)
  <2> TAKE k \in 1..(n + 1)
  <2> DEFINE m == k - 1
  <2>1. m \in Nat /\ m <= n /\ k - 1 = m
    BY <1>1
  <2> HIDE DEF m
  <2>2. PICK f : /\ Start(c, k) = f[m] /\ f[0] = 0
                 /\ \A i \in 1..m : f[i] = PlaceAfter(f[i - 1], c[i])
    <3>1. StartBy(c, k, m)
      BY <1>1, <2>1, StartIs, Zenon
    <3> QED BY <3>1, Zenon DEF StartBy
  <2>3. PICK g : /\ Start(e, k) = g[m] /\ g[0] = 0
                 /\ \A i \in 1..m : g[i] = PlaceAfter(g[i - 1], e[i])
    <3>1. StartBy(e, k, m)
      BY <1>1, <2>1, StartIs, Zenon
    <3> QED BY <3>1, Zenon DEF StartBy
  <2> DEFINE H == {i \in 0..m : f[i] = g[i]}
  <2>4. 0 \in H
    BY <2>1, <2>2, <2>3
  <2>5. ASSUME NEW i \in 1..m, i - 1 \in H PROVE i \in H
    <3>1. e[i] = c[i] /\ i \in 0..m
      BY <1>1, <2>1
    <3>2. f[i - 1] = g[i - 1]
      BY <2>5
    <3>3. f[i] = g[i]
      BY <2>2, <2>3, <3>1, <3>2, Zenon
    <3> QED BY <3>1, <3>3
  <2>6. \A i \in 0..m : i \in H
    <3> HIDE DEF H
    <3> QED BY <2>1, <2>4, <2>5, CountUp, Zenon
  <2>7. f[m] = g[m]
    BY <2>1, <2>6
  <2> QED BY <2>2, <2>3, <2>7
<1>3. Start(e, n + 2) = PlaceAfter(Start(e, n + 1), d)
  <2> DEFINE k == n + 1
             l == n + 2
  <2>1. k - 1 = n /\ l - 1 = k /\ k \in Nat /\ l - 1 \in Nat /\ k - 1 \in Nat
    BY <1>1
  <2> HIDE DEF k, l
  <2>2. PICK g : /\ Start(e, l) = g[k] /\ g[0] = 0
                 /\ \A i \in 1..k : g[i] = PlaceAfter(g[i - 1], e[i])
    <3>1. StartBy(e, l, k)
      BY <1>1, <2>1, StartIs, Zenon
    <3> QED BY <3>1, Zenon DEF StartBy
  <2>3. PICK f : /\ Start(e, k) = f[n] /\ f[0] = 0
                 /\ \A i \in 1..n : f[i] = PlaceAfter(f[i - 1], e[i])
    <3>1. StartBy(e, k, n)
      BY <1>1, <2>1, StartIs, Zenon
    <3> QED BY <3>1, Zenon DEF StartBy
  <2> DEFINE H == {i \in 0..n : f[i] = g[i]}
  <2>4. 0 \in H
    BY <1>1, <2>2, <2>3
  <2>5. ASSUME NEW i \in 1..n, i - 1 \in H PROVE i \in H
    <3>1. i \in 1..k /\ i \in 0..n
      BY <1>1, <2>1
    <3>2. f[i - 1] = g[i - 1]
      BY <2>5
    <3>3. f[i] = g[i]
      BY <2>2, <2>3, <3>1, <3>2, Zenon
    <3> QED BY <3>1, <3>3
  <2>6. \A i \in 0..n : i \in H
    <3> HIDE DEF H
    <3> QED BY <1>1, <2>4, <2>5, CountUp, Zenon
  <2>7. f[n] = g[n]
    BY <1>1, <2>6
  <2>8. k \in 1..k /\ e[k] = d
    BY <1>1, <2>1 DEF k
  <2>9. g[k] = PlaceAfter(g[n], d)
    BY <2>1, <2>2, <2>8
  <2>10. Start(e, l) = PlaceAfter(Start(e, k), d)
    BY <2>2, <2>3, <2>7, <2>9, Zenon
  <2> QED BY <2>10 DEF k, l
<1>4. Size(e) = Start(e, n + 2) /\ Size(c) = Start(c, n + 1)
  <2>1. Len(e) + 1 = n + 2
    BY <1>1
  <2> QED BY <2>1, Zenon DEF Size, n
<1>5. Start(e, n + 1) = Start(c, n + 1)
  <2>1. n + 1 \in 1..(n + 1)
    BY <1>1
  <2> QED BY <1>2, <2>1, Zenon
<1>6. Size(e) = PlaceAfter(Size(c), d)
  BY <1>3, <1>4, <1>5, Zenon
<1> QED
  BY <1>2, <1>6 DEF e, n

(* One call more.                                                            *)
LEMMA LaidNext ==
  ASSUME NEW c \in Seq(CallSet), NEW d \in CallSet
  PROVE  Laid(c \o <<d>>) = BitsAfter(Laid(c), d)
<1> DEFINE e == c \o <<d>>
           n == Len(c)
           k == n + 1
<1>1. n \in Nat /\ Len(e) = k /\ e[k] = d /\ (\A i \in 1..n : e[i] = c[i]) /\ k \in Nat
  OBVIOUS
<1> HIDE DEF e
<1>2. k - 1 = n
  BY <1>1
<1> HIDE DEF n
<1>3. PICK f : /\ Laid(c) = f[n] /\ f[0] = <<>>
               /\ \A i \in 1..n : f[i] = BitsAfter(f[i - 1], c[i])
  BY <1>1, LaidIs, Zenon DEF n
<1>4. PICK g : /\ Laid(e) = g[k] /\ g[0] = <<>>
               /\ \A i \in 1..k : g[i] = BitsAfter(g[i - 1], e[i])
  <2> HIDE DEF k
  <2>1. Len(e) \in Nat
    BY <1>1
  <2>2. PICK g : /\ Laid(e) = g[Len(e)] /\ g[0] = <<>>
               /\ \A i \in 1..Len(e) : g[i] = BitsAfter(g[i - 1], e[i])
    BY <2>1, LaidIs, Zenon
  <2> QED BY <1>1, <2>2
<1> DEFINE H == {i \in 0..n : f[i] = g[i]}
<1>5. 0 \in H
  BY <1>1, <1>3, <1>4
<1>6. ASSUME NEW i \in 1..n, i - 1 \in H PROVE i \in H
  <2>1. e[i] = c[i] /\ i \in 0..n /\ i \in 1..k
    BY <1>1
  <2>2. f[i - 1] = g[i - 1]
    BY <1>6
  <2>3. f[i] = g[i]
    <3> HIDE DEF k
    <3> QED BY <1>3, <1>4, <2>1, <2>2, Zenon
  <2> QED BY <2>1, <2>3
<1>7. \A i \in 0..n : i \in H
  <2> HIDE DEF H
  <2> QED BY <1>1, <1>5, <1>6, CountUp, Zenon
<1>8. f[n] = g[n]
  BY <1>1, <1>7
<1>9. k \in 1..k
  BY <1>1
<1> HIDE DEF k
<1>10. g[k] = BitsAfter(g[n], d)
  BY <1>1, <1>2, <1>4, <1>9
<1> QED
  BY <1>3, <1>4, <1>8, <1>10, Zenon DEF e

(* No call leaves no bit.                                                    *)
LEMMA NothingCalled == Size(<<>>) = 0 /\ Laid(<<>>) = <<>>
<1>1. Size(<<>>) = Start(<<>>, 1)
  BY DEF Size
<1>2. Start(<<>>, 1) = 0
  <2> DEFINE k == 1
  <2>1. k - 1 \in Nat /\ k - 1 = 0
    OBVIOUS
  <2> HIDE DEF k
  <2>2. Start(<<>>, k) = 0
    <3>1. 0 \in Nat
      OBVIOUS
    <3>2. StartBy(<<>>, k, 0)
      BY <2>1, <3>1, StartIs, Zenon
    <3> QED BY <3>2, Zenon DEF StartBy
  <2> QED BY <2>2 DEF k
<1>3. Laid(<<>>) = <<>>
  <2>1. Len(<<>>) \in Nat /\ Len(<<>>) = 0
    OBVIOUS
  <2> DEFINE c == <<>>
  <2> HIDE DEF c
  <2>2. Laid(c) = <<>>
    <3>1. Len(c) \in Nat /\ Len(c) = 0
      BY <2>1 DEF c
    <3>2. PICK f : Laid(c) = f[Len(c)] /\ f[0] = <<>>
      BY <3>1, LaidIs, Zenon
    <3> QED BY <3>1, <3>2
  <2> QED BY <2>2 DEF c
<1> QED
  BY <1>1, <1>2, <1>3

(* A number that fits in w bits is the number of its w bits.                 *)
LEMMA SameNum ==
  ASSUME NEW n \in Nat, NEW w \in 0..WordBits, n < Power[w]
  PROVE  Num(Bits(n, w)) = n
<1> DEFINE s == Bits(n, w)
<1>1. WordBits \in Nat /\ w \in Nat
  BY ByteAssumption DEF WordBits
<1>2. s \in BitSeq /\ Len(s) = w /\ \A j \in 1..w : s[j] = Bit(n, w - j)
  BY BitsAre
<1> HIDE DEF s
<1>3. PICK f : /\ Num(s) = f[w] /\ f[0] = 0
               /\ \A k \in 1..w : f[k] = 2 * f[k - 1] + s[k]
  <2>1. Len(s) \in Nat
    BY <1>1, <1>2
  <2>2. PICK f : /\ Num(s) = f[Len(s)] /\ f[0] = 0
                 /\ \A k \in 1..Len(s) : f[k] = 2 * f[k - 1] + s[k]
    BY <2>1, NumIs, Zenon
  <2> QED BY <1>2, <2>2
<1> DEFINE H == {k \in 0..w : f[k] = n \div Power[w - k]}
<1>4. 0 \in H
  <2>1. Power[w] \in Nat \ {0}
    BY PowerIs
  <2>2. n \in 0..(Power[w] - 1) /\ 0 \in Nat
    BY <2>1
  <2>3. (0 * Power[w] + n) \div Power[w] = 0
    BY <2>1, <2>2, Divided
  <2>4. 0 * Power[w] + n = n
    BY <2>1
  <2> QED BY <1>1, <1>3, <2>3, <2>4
<1>5. ASSUME NEW k \in 1..w, k - 1 \in H PROVE k \in H
  <2> DEFINE d == Power[w - k]
             x == n \div d
  <2>1. f[k] = 2 * f[k - 1] + s[k]
    BY <1>3
  <2>2. Power[w - (k - 1)] = 2 * d /\ d \in Nat \ {0}
    <3>1. w - (k - 1) \in 1..WordBits /\ w - k \in 0..WordBits
          /\ (w - (k - 1)) - 1 = w - k
      BY <1>1
    <3> QED BY <3>1, PowerIs
  <2>3. n \div (2 * d) = x \div 2 /\ x \in Nat
    BY <2>2, Halved
  <2>4. f[k - 1] = x \div 2
    BY <1>5, <2>2, <2>3
  <2>5. s[k] = x % 2
    BY <1>2 DEF Bit
  <2> HIDE DEF x
  <2>6. x = 2 * (x \div 2) + (x % 2)
    BY <2>3
  <2>7. f[k] = x
    BY <2>1, <2>4, <2>5, <2>6
  <2> QED BY <2>7 DEF x
<1>6. \A k \in 0..w : k \in H
  <2> HIDE DEF H
  <2> QED BY <1>1, <1>4, <1>5, CountUp, Zenon
<1>7. f[w] = n \div Power[0]
  BY <1>1, <1>6
<1> QED
  BY <1>3, <1>7, PowerIs DEF s

(* The bits of nothing.                                                      *)
LEMMA NoBits ==
  ASSUME NEW w \in 0..WordBits
  PROVE  Bits(0, w) = [j \in 1..w |-> 0]
<1>1. WordBits \in Nat
  BY ByteAssumption DEF WordBits
<1>2. ASSUME NEW j \in 1..w PROVE (0 \div Power[w - j]) % 2 = 0
  <2>1. w - j \in 0..WordBits
    BY <1>1
  <2>2. Power[w - j] \in Nat \ {0}
    BY <2>1, PowerIs
  <2>3. 0 \div Power[w - j] = 0
    <3>1. 0 \in 0..(Power[w - j] - 1) /\ 0 \in Nat /\ 0 * Power[w - j] + 0 = 0
      BY <2>2
    <3> QED BY <2>2, <3>1, Divided
  <2> QED BY <2>3
<1> QED
  BY <1>2 DEF Bits

(* Three streams, one after the other.                                       *)
LEMMA BitsAssociate ==
  ASSUME NEW s \in BitSeq, NEW t \in BitSeq, NEW u \in BitSeq
  PROVE  (s \o t) \o u = s \o (t \o u)
  BY ConcatAssociative DEF BitSeq

(* The place of the next byte.                                               *)
Missing(size, pad) == (-size) % ByteBits = pad

(* What is missing to the next byte boundary.                                *)
LEMMA ToNextByte ==
  ASSUME NEW m \in Nat, NEW c \in 0..(ByteBits - 1), NEW size, size = (ByteBits * m) + c
  PROVE  /\ c = 0 => Missing(size, 0)
         /\ c # 0 => Missing(size, ByteBits - c)
         /\ size % ByteBits = c
<1>1. ByteBits \in Nat \ {0}
  BY ByteAssumption
<1>2. c = 0 => Missing(size, 0)
  <2>1. SUFFICES ASSUME c = 0 PROVE Missing(size, 0)
    OBVIOUS
  <2>2. 0 \in 0..(ByteBits - 1) /\ -m \in Int
    BY <1>1
  <2>3. (((-m) * ByteBits) + 0) % ByteBits = 0
    BY <1>1, <2>2, Quotients
  <2>4. ((-m) * ByteBits) + 0 = -size
    BY <1>1, <2>1
  <2> QED BY <2>3, <2>4 DEF Missing
<1>3. c # 0 => Missing(size, ByteBits - c)
  <2>1. SUFFICES ASSUME c # 0 PROVE Missing(size, ByteBits - c)
    OBVIOUS
  <2>2. ByteBits - c \in 0..(ByteBits - 1) /\ -(m + 1) \in Int
    BY <1>1, <2>1
  <2>3. (((-(m + 1)) * ByteBits) + (ByteBits - c)) % ByteBits = ByteBits - c
    BY <1>1, <2>2, Quotients
  <2>4. (-(m + 1)) * ByteBits = -(ByteBits * m) - ByteBits /\ ByteBits * m \in Nat
    BY <1>1
  <2>5. ((-(m + 1)) * ByteBits) + (ByteBits - c) = -size
    BY <1>1, <2>4
  <2> QED BY <2>3, <2>5 DEF Missing
<1>4. size % ByteBits = c
  <2>1. ((m * ByteBits) + c) % ByteBits = c
    BY <1>1, Quotients
  <2>2. (m * ByteBits) + c = size
    BY <1>1
  <2> QED BY <2>1, <2>2
<1> QED
  BY <1>2, <1>3, <1>4

(* The register can take a field of w bits that starts at bit at.            *)
Fits(at, w) == (at % ByteBits) + w <= WordBits

(* Calls whose last one fits in the register: so do those before it.         *)
LEMMA HoldsNext ==
  ASSUME NEW c \in Seq(CallSet), NEW d \in CallSet, RegisterHolds(c \o <<d>>)
  PROVE  RegisterHolds(c) /\ Fits(Size(c), d.w)
<1> DEFINE e == c \o <<d>>
           n == Len(c)
<1>1. n \in Nat /\ DOMAIN e = 1..(n + 1) /\ e[n + 1] = d /\ DOMAIN c = 1..n
      /\ \A i \in 1..n : e[i] = c[i]
  OBVIOUS
<1>2. \A k \in 1..(n + 1) : Start(e, k) = Start(c, k)
  BY StartNext
<1> HIDE DEF e, n
<1>3. \A k \in DOMAIN e : Fits(Start(e, k), e[k].w)
  BY Zenon DEF RegisterHolds, Fits, e
<1>4. ASSUME NEW k \in DOMAIN c PROVE Fits(Start(c, k), c[k].w)
  <2>1. k \in 1..(n + 1) /\ k \in 1..n
    BY <1>1
  <2> QED BY <1>1, <1>2, <1>3, <2>1, Zenon
<1>5. RegisterHolds(c)
  BY <1>4, Zenon DEF RegisterHolds, Fits
<1>6. Fits(Size(c), d.w)
  <2>1. n + 1 \in 1..(n + 1)
    BY <1>1
  <2>2. Fits(Start(c, n + 1), d.w)
    BY <1>1, <1>2, <1>3, <2>1, Zenon
  <2> QED BY <2>2, Zenon DEF Size, n
<1> QED
  BY <1>5, <1>6

(* A recursion whose step is a function of what has come and of the place.   *)
Recurs(n, S, a, step, f) ==
  f \in [0..n -> S] /\ f[0] = a /\ \A k \in 1..n : f[k] = step[<<f[k - 1], k>>]

(* A function that a first value and a step make, place by place.            *)
LEMMA Recursion ==
  ASSUME NEW n \in Nat, NEW S, NEW a \in S, NEW step \in [S \X (1..n) -> S]
  PROVE  \E f : Recurs(n, S, a, step, f)
<1> DEFINE H == {m \in 0..n : \E f : Recurs(m, S, a, step, f)}
<1>1. 0 \in H
  <2>1. Recurs(0, S, a, step, [k \in 0..0 |-> a])
    BY DEF Recurs
  <2> QED BY <2>1
<1>2. ASSUME NEW m \in 1..n, m - 1 \in H PROVE m \in H
  <2>1. PICK f : Recurs(m - 1, S, a, step, f)
    BY <1>2
  <2> DEFINE h == [k \in 0..m |-> IF k = m THEN step[<<f[m - 1], m>>] ELSE f[k]]
  <2>2. f[m - 1] \in S /\ step[<<f[m - 1], m>>] \in S
    BY <2>1 DEF Recurs
  <2>3. h \in [0..m -> S] /\ h[0] = a
    BY <2>1, <2>2 DEF Recurs
  <2>4. ASSUME NEW k \in 1..m PROVE h[k] = step[<<h[k - 1], k>>]
    <3>1. h[k - 1] = f[k - 1]
      OBVIOUS
    <3>2. CASE k = m
      <4>1. h[m] = step[<<f[m - 1], m>>]
        OBVIOUS
      <4> HIDE DEF h
      <4> QED BY <3>1, <3>2, <4>1
    <3>3. CASE k # m
      <4>1. k \in 1..(m - 1) /\ h[k] = f[k]
        BY <3>3
      <4> QED BY <3>1, <4>1, <2>1 DEF Recurs
    <3> QED BY <3>2, <3>3
  <2>5. Recurs(m, S, a, step, h)
    <3> HIDE DEF h
    <3> QED BY <2>3, <2>4 DEF Recurs
  <2> QED BY <2>5
<1>3. \A k \in 0..n : k \in H
  <2> HIDE DEF H
  <2> QED BY <1>1, <1>2, CountUp, Zenon
<1> QED BY <1>3

(***************************************************************************)
(* Sums                                                                    *)
(***************************************************************************)
SumUp(s, f) ==
  /\ f \in [0..Len(s) -> Int] /\ f[0] = 0 /\ SumSeq(s) = f[Len(s)]
  /\ \A k \in 1..Len(s) : f[k] = f[k - 1] + s[k]

(* A sum, by the sums of the prefixes.                                       *)
LEMMA SumIs ==
  ASSUME NEW s \in Seq(Int)
  PROVE  \E f : SumUp(s, f)
<1> DEFINE n == Len(s)
           step == [p \in Int \X (1..n) |-> p[1] + s[p[2]]]
           First == 0
           Step(u, k) == u + s[k]
           Up(f) == f = [k \in 0..n |-> IF k = 0 THEN First ELSE Step(f[k - 1], k)]
           c == CHOOSE f : Up(f)
<1>1. n \in Nat /\ step \in [Int \X (1..n) -> Int]
  OBVIOUS
<1>2. PICK f : Recurs(n, Int, 0, step, f)
  <2> HIDE DEF step, n
  <2> QED BY <1>1, Recursion, 0 \in Int, Zenon
<1>3. f \in [0..n -> Int] /\ f[0] = 0 /\ \A k \in 1..n : f[k] = f[k - 1] + s[k]
  <2>1. f \in [0..n -> Int] /\ f[0] = 0 /\ \A k \in 1..n : f[k] = step[<<f[k - 1], k>>]
    <3> HIDE DEF step, n
    <3> QED BY <1>2 DEF Recurs
  <2>2. ASSUME NEW k \in 1..n PROVE f[k] = f[k - 1] + s[k]
    <3>1. k - 1 \in 0..n /\ f[k - 1] \in Int
      BY <1>1, <2>1, SMTT(40)
    <3> QED BY <2>1, <3>1
  <2> QED BY <2>1, <2>2
<1>4. Up(f)
  BY <1>3
<1>5. Up(c)
  BY <1>4
<1>6. c[0] = 0 /\ \A k \in 1..n : c[k] = c[k - 1] + s[k]
  <2> HIDE DEF c
  <2> QED BY <1>1, <1>5, SMTT(40)
<1>7. SumSeq(s) = c[n]
  BY DEF SumSeq
<1>8. DOMAIN c = 0..n
  <2> HIDE DEF c
  <2> QED BY <1>5
<1> DEFINE H == {k \in 0..n : c[k] \in Int}
<1> HIDE DEF c
<1>9. 0 \in H /\ \A k \in 1..n : k - 1 \in H => k \in H
  <2>1. \A k \in 1..n : s[k] \in Int
    OBVIOUS
  <2> HIDE DEF n
  <2> QED BY <1>1, <1>6, <2>1
<1>10. \A k \in 0..n : k \in H
  <2> HIDE DEF H, n
  <2> QED BY <1>1, <1>9, CountUp, Zenon
<1>11. c \in [0..n -> Int]
  <2>1. c = [k \in 0..n |-> IF k = 0 THEN First ELSE Step(c[k - 1], k)]
    BY <1>5
  <2> QED BY <1>10, <2>1
<1> QED BY <1>6, <1>7, <1>11 DEF SumUp

SumTo(s, k) == SumSeq(SubSeq(s, 1, k))

(* The sum up to a place is the sum up to the one before and what is there.   *)
Sums(s) ==
  /\ SumTo(s, 0) = 0 /\ SumTo(s, Len(s)) = SumSeq(s)
  /\ \A k \in 0..Len(s) : SumTo(s, k) \in Int
  /\ \A k \in 1..Len(s) : SumTo(s, k) = SumTo(s, k - 1) + s[k]

(* The first m members of a sequence.                                        *)
LEMMA PrefixIs ==
  ASSUME NEW T, NEW s \in Seq(T), NEW m \in 0..Len(s)
  PROVE  /\ SubSeq(s, 1, m) \in Seq(T) /\ Len(SubSeq(s, 1, m)) = m
         /\ \A k \in 1..m : SubSeq(s, 1, m)[k] = s[k]
OBVIOUS

(* The sum of a prefix grows by one member at a time.                        *)
LEMMA SumsAre ==
  ASSUME NEW s \in Seq(Int)
  PROVE  Sums(s)
<1>1. PICK f : SumUp(s, f)
  BY SumIs, Zenon
<1>2. ASSUME NEW m \in 0..Len(s) PROVE SumTo(s, m) = f[m]
  <2> DEFINE p == SubSeq(s, 1, m)
  <2>1. p \in Seq(Int) /\ Len(p) = m /\ \A k \in 1..m : p[k] = s[k]
    BY PrefixIs
  <2> HIDE DEF p
  <2>2. PICK g : SumUp(p, g)
    BY <2>1, SumIs, Zenon
  <2> DEFINE H == {k \in 0..m : g[k] = f[k]}
  <2>3. 0 \in H
    BY <1>1, <2>2 DEF SumUp
  <2>4. ASSUME NEW k \in 1..m, k - 1 \in H PROVE k \in H
    <3>1. g[k] = g[k - 1] + p[k] /\ f[k] = f[k - 1] + s[k] /\ p[k] = s[k]
      <4>1. k \in 1..Len(p) /\ k \in 1..Len(s)
        BY <2>1
      <4> QED BY <1>1, <2>1, <2>2, <4>1 DEF SumUp
    <3>2. g[k - 1] = f[k - 1]
      BY <2>4
    <3> QED BY <3>1, <3>2
  <2>5. m \in Nat /\ m \in 0..m
    OBVIOUS
  <2>6. m \in H
    <3> HIDE DEF H
    <3> QED BY <2>3, <2>4, <2>5, CountUp, Zenon
  <2>7. SumSeq(p) = g[m]
    BY <2>1, <2>2 DEF SumUp
  <2> QED BY <2>6, <2>7 DEF p, SumTo
<1>3. Len(s) \in Nat /\ \A k \in 0..Len(s) : f[k] \in Int
  <2>1. f \in [0..Len(s) -> Int]
    BY <1>1, Zenon DEF SumUp
  <2> QED BY <2>1
<1>4. SumTo(s, 0) = 0 /\ SumTo(s, Len(s)) = SumSeq(s)
  BY <1>1, <1>2, <1>3 DEF SumUp
<1>5. \A k \in 1..Len(s) : SumTo(s, k) = SumTo(s, k - 1) + s[k]
  <2> TAKE k \in 1..Len(s)
  <2>1. k \in 0..Len(s) /\ k - 1 \in 0..Len(s)
    BY <1>3
  <2>2. f[k] = f[k - 1] + s[k]
    BY <1>1, Zenon DEF SumUp
  <2>3. SumTo(s, k) = f[k] /\ SumTo(s, k - 1) = f[k - 1]
    BY <1>2, <2>1, Zenon
  <2> QED BY <2>2, <2>3
<1> QED BY <1>2, <1>3, <1>4, <1>5 DEF Sums

(* Sums of naturals are naturals and do not shrink.                           *)
LEMMA SumsOfNaturals ==
  ASSUME NEW s \in Seq(Nat)
  PROVE  /\ SumSeq(s) \in Nat
         /\ \A k \in 0..Len(s) : SumTo(s, k) \in Nat /\ SumTo(s, k) <= SumSeq(s)
         /\ \A k \in 0..Len(s) : \A j \in 0..k : SumTo(s, j) <= SumTo(s, k)
<1>1. s \in Seq(Int) /\ Len(s) \in Nat
  OBVIOUS
<1>2. Sums(s)
  BY <1>1, SumsAre, Zenon
<1> DEFINE H == {k \in 0..Len(s) : SumTo(s, k) \in Nat /\ \A j \in 0..k : SumTo(s, j) <= SumTo(s, k)}
<1>3. 0 \in H
  BY <1>1, <1>2 DEF Sums
<1>4. ASSUME NEW k \in 1..Len(s), k - 1 \in H PROVE k \in H
  <2>1. SumTo(s, k) = SumTo(s, k - 1) + s[k] /\ s[k] \in Nat
    BY <1>2 DEF Sums
  <2>2. SumTo(s, k - 1) \in Nat /\ \A j \in 0..(k - 1) : SumTo(s, j) <= SumTo(s, k - 1) /\ SumTo(s, j) \in Int
    BY <1>2, <1>4 DEF Sums
  <2>3. ASSUME NEW j \in 0..k PROVE SumTo(s, j) <= SumTo(s, k)
    <3>1. CASE j = k
      BY <2>1, <2>2, <3>1
    <3>2. CASE j # k
      <4>1. j \in 0..(k - 1)
        BY <3>2
      <4> QED BY <2>1, <2>2, <4>1
    <3> QED BY <3>1, <3>2
  <2> QED BY <2>1, <2>2, <2>3
<1>5. \A k \in 0..Len(s) : k \in H
  <2> HIDE DEF H
  <2> QED BY <1>1, <1>3, <1>4, CountUp, Zenon
<1>6. Len(s) \in 0..Len(s) /\ SumTo(s, Len(s)) = SumSeq(s)
  BY <1>1, <1>2 DEF Sums
<1> QED BY <1>5, <1>6

(***************************************************************************)
(* Sequences put together                                                  *)
(***************************************************************************)
FlatUp(ss, f) ==
  /\ FlattenSeq(ss) = f[Len(ss)] /\ f[1] = ss[1]
  /\ \A k \in 2..Len(ss) : f[k] = f[k - 1] \o ss[k]

(* A flattened sequence, by what each part adds.                             *)
LEMMA FlattenIs ==
  ASSUME NEW T, NEW ss \in Seq(Seq(T)), ss # <<>>
  PROVE  \E f : FlatUp(ss, f)
<1> DEFINE n == Len(ss)
           step == [p \in Seq(T) \X (1..(n - 1)) |-> p[1] \o ss[p[2] + 1]]
           First == ss[1]
           Step(u, k) == u \o ss[k]
           Up(f) == f = [k \in 1..n |-> IF k = 1 THEN First ELSE Step(f[k - 1], k)]
           c == CHOOSE f : Up(f)
<1>1. n \in Nat \ {0} /\ n - 1 \in Nat /\ First \in Seq(T)
  OBVIOUS
<1>2. step \in [Seq(T) \X (1..(n - 1)) -> Seq(T)]
  <2>1. \A p \in Seq(T) \X (1..(n - 1)) : p[1] \o ss[p[2] + 1] \in Seq(T)
    <3> TAKE p \in Seq(T) \X (1..(n - 1))
    <3>1. p[1] \in Seq(T) /\ p[2] + 1 \in 1..Len(ss)
      BY <1>1
    <3>2. ss[p[2] + 1] \in Seq(T)
      BY <3>1
    <3> QED BY <3>1, <3>2
  <2> QED BY <2>1
<1>3. PICK f : Recurs(n - 1, Seq(T), First, step, f)
  <2> HIDE DEF step, n, First
  <2> QED BY <1>1, <1>2, Recursion, Zenon
<1> DEFINE g == [k \in 1..n |-> f[k - 1]]
<1>4. f \in [0..(n - 1) -> Seq(T)] /\ f[0] = First /\ \A k \in 1..(n - 1) : f[k] = step[<<f[k - 1], k>>]
  <2> HIDE DEF step, n, First
  <2> QED BY <1>3 DEF Recurs
<1>5. ASSUME NEW k \in 2..n PROVE g[k] = Step(g[k - 1], k)
  <2>1. k - 1 \in 1..(n - 1) /\ k - 2 \in 0..(n - 1) /\ (k - 1) + 1 = k
    BY <1>1
  <2>2. f[k - 2] \in Seq(T)
    BY <1>4, <2>1
  <2>3. step[<<f[k - 2], k - 1>>] = f[k - 2] \o ss[k]
    BY <2>1, <2>2
  <2>4. g[k] = f[k - 1] /\ g[k - 1] = f[k - 2]
    BY <1>1, <2>1
  <2>5. f[k - 1] = step[<<f[k - 2], k - 1>>]
    <3> HIDE DEF step
    <3> QED BY <1>4, <2>1
  <2> QED BY <2>3, <2>4, <2>5
<1>6. Up(g)
  <2>1. g[1] = First
    BY <1>1, <1>4
  <2>2. g = [k \in 1..n |-> g[k]]
    OBVIOUS
  <2>3. \A k \in 1..n : g[k] = IF k = 1 THEN First ELSE Step(g[k - 1], k)
    <3> TAKE k \in 1..n
    <3>1. k = 1 \/ k \in 2..n
      BY <1>1
    <3> HIDE DEF g, Step, First
    <3> QED BY <1>5, <2>1, <3>1
  <2> HIDE DEF g, Step, First
  <2> QED BY <2>2, <2>3
<1>7. Up(c)
  BY <1>6
<1>8. c[1] = First /\ \A k \in 2..n : c[k] = c[k - 1] \o ss[k]
  <2>1. \A k \in 1..n : c[k] = IF k = 1 THEN First ELSE Step(c[k - 1], k)
    <3> HIDE DEF c, First, Step
    <3> QED BY <1>7
  <2>2. 1 \in 1..n /\ \A k \in 2..n : k \in 1..n /\ k # 1
    BY <1>1
  <2> HIDE DEF c, First, n
  <2> QED BY <2>1, <2>2
<1>9. FlattenSeq(ss) = c[n]
  BY <1>1 DEF FlattenSeq
<1> HIDE DEF c
<1> QED BY <1>8, <1>9 DEF FlatUp

FlatTo(ss, k) == FlattenSeq(SubSeq(ss, 1, k))

Flats(ss, T) ==
  /\ FlatTo(ss, 0) = <<>> /\ FlatTo(ss, Len(ss)) = FlattenSeq(ss)
  /\ \A k \in 0..Len(ss) : FlatTo(ss, k) \in Seq(T)
  /\ \A k \in 1..Len(ss) : FlatTo(ss, k) = FlatTo(ss, k - 1) \o ss[k]

(* Nothing to flatten.                                                       *)
LEMMA FlattenNone == FlattenSeq(<<>>) = <<>>
BY DEF FlattenSeq

(* The flattened prefixes, one part at a time.                               *)
LEMMA FlatsAre ==
  ASSUME NEW T, NEW ss \in Seq(Seq(T))
  PROVE  Flats(ss, T)
<1> DEFINE n == Len(ss)
<1>1. n \in Nat
  OBVIOUS
<1>2. FlatTo(ss, 0) = <<>>
  <2>1. SubSeq(ss, 1, 0) = <<>>
    OBVIOUS
  <2> QED BY <2>1, FlattenNone DEF FlatTo
<1>3. FlatTo(ss, n) = FlattenSeq(ss)
  <2>1. SubSeq(ss, 1, n) = ss
    OBVIOUS
  <2> QED BY <2>1 DEF FlatTo
<1>4. CASE ss = <<>>
  <2>1. n = 0
    BY <1>4
  <2>2. \A k \in 0..n : k = 0
    BY <2>1
  <2>3. \A k \in 1..n : FALSE
    BY <2>1
  <2>4. <<>> \in Seq(T)
    OBVIOUS
  <2> HIDE DEF n
  <2> QED BY <1>2, <1>3, <2>2, <2>3, <2>4, Zenon DEF Flats, n
<1>5. CASE ss # <<>>
  <2>1. PICK f : FlatUp(ss, f)
    BY <1>5, FlattenIs, Zenon
  <2>2. ASSUME NEW m \in 1..n PROVE FlatTo(ss, m) = f[m]
    <3> DEFINE p == SubSeq(ss, 1, m)
    <3>1. p \in Seq(Seq(T)) /\ Len(p) = m /\ (\A k \in 1..m : p[k] = ss[k]) /\ p # <<>>
      <4>1. p \in Seq(Seq(T)) /\ Len(p) = m /\ (\A k \in 1..m : p[k] = ss[k])
        BY PrefixIs
      <4> HIDE DEF p
      <4> QED BY <4>1
    <3> HIDE DEF p
    <3>2. PICK g : FlatUp(p, g)
      BY <3>1, FlattenIs, Zenon
    <3> DEFINE H == {k \in 0..(m - 1) : g[k + 1] = f[k + 1]}
    <3>3. 0 \in H
      BY <2>1, <3>1, <3>2 DEF FlatUp
    <3>4. ASSUME NEW k \in 1..(m - 1), k - 1 \in H PROVE k \in H
      <4>1. k + 1 \in 2..m /\ k + 1 \in 2..n /\ (k - 1) + 1 = k /\ (k + 1) - 1 = k
        OBVIOUS
      <4>2. g[k] = f[k]
        BY <3>4, <4>1
      <4>3. g[k + 1] = g[k] \o p[k + 1] /\ f[k + 1] = f[k] \o ss[k + 1]
        <5>1. g[k + 1] = g[(k + 1) - 1] \o p[k + 1]
          BY <3>1, <3>2, <4>1, Zenon DEF FlatUp
        <5>2. f[k + 1] = f[(k + 1) - 1] \o ss[k + 1]
          BY <2>1, <4>1, Zenon DEF FlatUp
        <5> QED BY <4>1, <5>1, <5>2
      <4>4. k + 1 \in 1..m /\ k \in 0..(m - 1)
        OBVIOUS
      <4>5. p[k + 1] = ss[k + 1]
        BY <3>1, <4>4, Zenon
      <4> QED BY <4>2, <4>3, <4>4, <4>5, Zenon
    <3>5. m - 1 \in Nat /\ m - 1 \in 0..(m - 1) /\ (m - 1) + 1 = m
      OBVIOUS
    <3>6. m - 1 \in H
      <4> HIDE DEF H
      <4> QED BY <3>3, <3>4, <3>5, CountUp, Zenon
    <3>7. g[m] = f[m]
      BY <3>5, <3>6
    <3>8. FlattenSeq(p) = g[m]
      BY <3>1, <3>2 DEF FlatUp
    <3> QED BY <3>7, <3>8 DEF p, FlatTo
  <2>3. ASSUME NEW k \in 1..n PROVE FlatTo(ss, k) = FlatTo(ss, k - 1) \o ss[k]
    <3>1. ss[k] \in Seq(T)
      OBVIOUS
    <3>2. CASE k = 1
      <4>1. FlatTo(ss, 1) = ss[1]
        BY <2>1, <2>2, <3>2 DEF FlatUp
      <4>2. <<>> \o ss[1] = ss[1]
        BY <3>1, <3>2
      <4> QED BY <1>2, <3>2, <4>1, <4>2
    <3>3. CASE k # 1
      <4>1. k \in 2..n /\ k - 1 \in 1..n
        BY <3>3
      <4> QED BY <2>1, <2>2, <4>1 DEF FlatUp
    <3> QED BY <3>2, <3>3
  <2> DEFINE H == {k \in 0..n : FlatTo(ss, k) \in Seq(T)}
  <2>4. 0 \in H
    <3>1. 0 \in 0..n /\ <<>> \in Seq(T)
      OBVIOUS
    <3> QED BY <1>2, <3>1, Zenon
  <2>5. ASSUME NEW k \in 1..n, k - 1 \in H PROVE k \in H
    <3>1. ss[k] \in Seq(T)
      OBVIOUS
    <3>2. FlatTo(ss, k - 1) \in Seq(T)
      BY <2>5, Zenon
    <3>3. FlatTo(ss, k - 1) \o ss[k] \in Seq(T)
      BY <3>1, <3>2, ConcatProperties, Zenon
    <3>4. k \in 0..n
      OBVIOUS
    <3> QED BY <2>3, <3>3, <3>4, Zenon
  <2>6. \A k \in 0..n : k \in H
    <3> HIDE DEF H, n
    <3> QED BY <1>1, <2>4, <2>5, CountUp, Zenon
  <2> QED BY <1>2, <1>3, <2>3, <2>6 DEF Flats
<1> QED BY <1>4, <1>5

(***************************************************************************)
(* Places picked                                                           *)
(***************************************************************************)
(* How many of the first k places are in keep.                                *)
Rk(keep, k) == Cardinality({i \in 1..k : i \in keep})

Ranks(keep, n) ==
  /\ Rk(keep, 0) = 0
  /\ \A k \in 0..n : Rk(keep, k) \in Nat /\ Rk(keep, k) <= k
  /\ \A k \in 1..n : Rk(keep, k) = Rk(keep, k - 1) + (IF k \in keep THEN 1 ELSE 0)

(* How many of the first places are kept, one place at a time.               *)
LEMMA RanksAre ==
  ASSUME NEW keep, NEW n \in Nat
  PROVE  Ranks(keep, n)
<1> DEFINE K(k) == {i \in 1..k : i \in keep}
<1>1. \A k \in 0..n : IsFiniteSet(K(k))
  <2> TAKE k \in 0..n
  <2>1. IsFiniteSet(1..k)
    BY FS_Interval
  <2> QED BY <2>1, FS_Subset
<1>2. Rk(keep, 0) = 0
  <2>1. K(0) = {}
    OBVIOUS
  <2> QED BY <2>1, FS_EmptySet DEF Rk
<1>3. ASSUME NEW k \in 1..n PROVE Rk(keep, k) = Rk(keep, k - 1) + (IF k \in keep THEN 1 ELSE 0)
  <2>1. CASE k \in keep
    <3>1. K(k) = K(k - 1) \cup {k} /\ k \notin K(k - 1)
      BY <2>1
    <3>2. IsFiniteSet(K(k - 1)) /\ Cardinality(K(k - 1)) \in Nat
      BY <1>1, FS_CardinalityType
    <3>3. Cardinality(K(k)) = Cardinality(K(k - 1)) + 1
      <4> HIDE DEF K
      <4> QED BY <3>1, <3>2, FS_AddElement
    <3> QED BY <2>1, <3>3 DEF Rk
  <2>2. CASE k \notin keep
    <3>1. K(k) = K(k - 1)
      BY <2>2
    <3>2. Cardinality(K(k - 1)) \in Nat
      BY <1>1, FS_CardinalityType
    <3> QED BY <2>2, <3>1, <3>2 DEF Rk
  <2> QED BY <2>1, <2>2
<1> DEFINE H == {k \in 0..n : Rk(keep, k) \in Nat /\ Rk(keep, k) <= k}
<1>4. 0 \in H
  BY <1>2
<1>5. ASSUME NEW k \in 1..n, k - 1 \in H PROVE k \in H
  <2>1. Rk(keep, k - 1) \in Nat /\ Rk(keep, k - 1) <= k - 1
    BY <1>5
  <2> QED BY <1>3, <2>1
<1>6. \A k \in 0..n : k \in H
  <2> HIDE DEF H
  <2> QED BY <1>4, <1>5, CountUp, Zenon
<1> QED BY <1>2, <1>3, <1>6 DEF Ranks

(* They grow at the places of keep only.                                      *)
LEMMA RanksGrow ==
  ASSUME NEW keep, NEW n \in Nat
  PROVE  \A k \in 0..n : \A i \in 0..k :
            /\ Rk(keep, i) <= Rk(keep, k)
            /\ (\E j \in (i + 1)..k : j \in keep) => Rk(keep, i) < Rk(keep, k)
            /\ (\A j \in (i + 1)..k : j \notin keep) => Rk(keep, i) = Rk(keep, k)
<1> DEFINE P(i, k) ==
            /\ Rk(keep, i) <= Rk(keep, k)
            /\ (\E j \in (i + 1)..k : j \in keep) => Rk(keep, i) < Rk(keep, k)
            /\ (\A j \in (i + 1)..k : j \notin keep) => Rk(keep, i) = Rk(keep, k)
           H == {k \in 0..n : \A i \in 0..k : P(i, k)}
<1>1. Ranks(keep, n)
  BY RanksAre, Zenon
<1>2. \A k \in 0..n : P(k, k)
  BY <1>1 DEF Ranks
<1>3. 0 \in H
  BY <1>2
<1>4. ASSUME NEW k \in 1..n, k - 1 \in H PROVE k \in H
  <2>1. ASSUME NEW i \in 0..k PROVE P(i, k)
    <3>1. CASE i = k
      BY <1>2, <3>1
    <3>2. CASE i # k
      <4>1. i \in 0..(k - 1) /\ k - 1 \in 0..n /\ i \in 0..n
        BY <3>2
      <4>2. P(i, k - 1)
        BY <1>4, <4>1
      <4>3. Rk(keep, k) = Rk(keep, k - 1) + (IF k \in keep THEN 1 ELSE 0)
        BY <1>1 DEF Ranks
      <4>4. Rk(keep, k - 1) \in Nat /\ Rk(keep, i) \in Nat
        BY <1>1, <4>1 DEF Ranks
      <4>5. (\E j \in (i + 1)..k : j \in keep) <=> (k \in keep \/ \E j \in (i + 1)..(k - 1) : j \in keep)
        BY <4>1
      <4>6. (\A j \in (i + 1)..k : j \notin keep) <=> (k \notin keep /\ \A j \in (i + 1)..(k - 1) : j \notin keep)
        BY <4>1
      <4>7. CASE k \in keep
        BY <4>2, <4>3, <4>4, <4>5, <4>6, <4>7
      <4>8. CASE k \notin keep
        BY <4>2, <4>3, <4>4, <4>5, <4>6, <4>8
      <4> QED BY <4>7, <4>8
    <3> QED BY <3>1, <3>2
  <2> QED BY <2>1
<1>5. \A k \in 0..n : k \in H
  <2> HIDE DEF H
  <2> QED BY <1>3, <1>4, CountUp, Zenon
<1> QED BY <1>5

(* What is picked: the place k of keep is the Rk(keep, k)-th.                 *)
PickedOf(seq, T, keep, p) ==
  /\ p \in Seq(T) /\ Len(p) = Rk(keep, Len(seq))
  /\ \A k \in 1..Len(seq) : k \in keep => Rk(keep, k) \in 1..Len(p) /\ p[Rk(keep, k)] = seq[k]
  /\ \A j \in 1..Len(p) : \E k \in 1..Len(seq) : k \in keep /\ j = Rk(keep, k)

PickedUp(seq, keep, f) ==
  /\ Picked(seq, keep) = f[Len(seq)] /\ f[0] = <<>>
  /\ \A k \in 1..Len(seq) : f[k] = IF k \in keep THEN Append(f[k - 1], seq[k]) ELSE f[k - 1]

(* The picked members, by what each place adds.                              *)
LEMMA PickedIs ==
  ASSUME NEW T, NEW seq \in Seq(T), NEW keep
  PROVE  \E f : PickedUp(seq, keep, f)
<1> DEFINE n == Len(seq)
           step == [p \in Seq(T) \X (1..n) |-> IF p[2] \in keep THEN Append(p[1], seq[p[2]]) ELSE p[1]]
           First == <<>>
           Step(u, k) == IF k \in keep THEN Append(u, seq[k]) ELSE u
           Up(f) == f = [k \in 0..n |-> IF k = 0 THEN First ELSE Step(f[k - 1], k)]
           c == CHOOSE f : Up(f)
<1>1. n \in Nat /\ First \in Seq(T)
  OBVIOUS
<1>2. step \in [Seq(T) \X (1..n) -> Seq(T)]
  <2>1. \A p \in Seq(T) \X (1..n) : (IF p[2] \in keep THEN Append(p[1], seq[p[2]]) ELSE p[1]) \in Seq(T)
    <3> TAKE p \in Seq(T) \X (1..n)
    <3>1. p[1] \in Seq(T) /\ seq[p[2]] \in T
      OBVIOUS
    <3>2. Append(p[1], seq[p[2]]) \in Seq(T)
      BY <3>1, AppendProperties
    <3> QED BY <3>1, <3>2
  <2> QED BY <2>1
<1>3. PICK f : Recurs(n, Seq(T), First, step, f)
  <2> HIDE DEF step, n, First
  <2> QED BY <1>1, <1>2, Recursion, Zenon
<1>4. f \in [0..n -> Seq(T)] /\ f[0] = First /\ \A k \in 1..n : f[k] = step[<<f[k - 1], k>>]
  <2> HIDE DEF step, n, First
  <2> QED BY <1>3 DEF Recurs
<1>5. ASSUME NEW k \in 1..n PROVE f[k] = Step(f[k - 1], k)
  <2>1. k - 1 \in 0..n
    BY <1>1
  <2>2. f[k - 1] \in Seq(T)
    BY <1>4, <2>1
  <2>3. step[<<f[k - 1], k>>] = Step(f[k - 1], k)
    BY <2>2
  <2> QED BY <1>4, <2>3, Zenon
<1>6. Up(f)
  <2>1. f = [k \in 0..n |-> f[k]]
    BY <1>4, Zenon
  <2>2. \A k \in 0..n : f[k] = IF k = 0 THEN First ELSE Step(f[k - 1], k)
    <3> TAKE k \in 0..n
    <3>1. k = 0 \/ k \in 1..n
      BY <1>1
    <3>2. f[0] = First
      BY <1>4, Zenon
    <3> HIDE DEF Step, First
    <3> QED BY <1>5, <3>1, <3>2
  <2> HIDE DEF Step, First
  <2> QED BY <2>1, <2>2
<1>7. Up(c)
  BY <1>6
<1>8. c[0] = First /\ \A k \in 1..n : c[k] = Step(c[k - 1], k)
  <2>1. \A k \in 0..n : c[k] = IF k = 0 THEN First ELSE Step(c[k - 1], k)
    <3> HIDE DEF c, First, Step
    <3> QED BY <1>7
  <2>2. 0 \in 0..n /\ \A k \in 1..n : k \in 0..n /\ k # 0
    BY <1>1
  <2> HIDE DEF c, First, Step, n
  <2> QED BY <2>1, <2>2
<1>9. Picked(seq, keep) = c[n]
  BY DEF Picked
<1> HIDE DEF c
<1> QED BY <1>8, <1>9 DEF PickedUp

(* Picked holds the kept members, each at its rank.                          *)
LEMMA PickedAre ==
  ASSUME NEW T, NEW seq \in Seq(T), NEW keep
  PROVE  PickedOf(seq, T, keep, Picked(seq, keep))
<1> DEFINE n == Len(seq)
<1>1. PICK f : PickedUp(seq, keep, f)
  BY PickedIs, Zenon
<1>2. n \in Nat /\ Ranks(keep, n)
  BY RanksAre
<1> DEFINE Good(k) ==
             /\ f[k] \in Seq(T) /\ Len(f[k]) = Rk(keep, k)
             /\ \A i \in 1..k : i \in keep => Rk(keep, i) \in 1..Len(f[k]) /\ f[k][Rk(keep, i)] = seq[i]
             /\ \A j \in 1..Len(f[k]) : \E i \in 1..k : i \in keep /\ j = Rk(keep, i)
           H == {k \in 0..n : Good(k)}
<1>3. 0 \in H
  <2>1. f[0] = <<>> /\ Rk(keep, 0) = 0
    BY <1>1, <1>2 DEF PickedUp, Ranks
  <2>2. <<>> \in Seq(T) /\ Len(<<>>) = 0 /\ (\A i \in 1..0 : FALSE) /\ 0 \in 0..n
    BY <1>2
  <2> QED BY <2>1, <2>2
<1>4. ASSUME NEW k \in 1..n, k - 1 \in H PROVE k \in H
  <2>1. Good(k - 1)
    BY <1>4
  <2>2. f[k] = IF k \in keep THEN Append(f[k - 1], seq[k]) ELSE f[k - 1]
    BY <1>1 DEF PickedUp
  <2>3. Rk(keep, k) = Rk(keep, k - 1) + (IF k \in keep THEN 1 ELSE 0) /\ Rk(keep, k - 1) \in Nat
    BY <1>2 DEF Ranks
  <2>4. CASE k \notin keep
    <3>1. f[k] = f[k - 1] /\ Rk(keep, k) = Rk(keep, k - 1)
      BY <2>2, <2>3, <2>4
    <3>2. \A i \in 1..k : i \in keep => i \in 1..(k - 1)
      BY <2>4
    <3>3. \A i \in 1..(k - 1) : i \in 1..k
      OBVIOUS
    <3>4. Good(k)
      BY <2>1, <3>1, <3>2, <3>3, Zenon
    <3> QED BY <3>4
  <2>5. CASE k \in keep
    <3>1. f[k] = Append(f[k - 1], seq[k]) /\ Rk(keep, k) = Rk(keep, k - 1) + 1
      BY <2>2, <2>3, <2>5
    <3> DEFINE u == f[k - 1]
               e == seq[k]
    <3>2. u \in Seq(T) /\ e \in T /\ Len(u) = Rk(keep, k - 1)
      BY <2>1
    <3> HIDE DEF u, e
    <3>3. /\ Append(u, e) \in Seq(T) /\ Len(Append(u, e)) = Len(u) + 1
          /\ (\A i \in 1..Len(u) : Append(u, e)[i] = u[i])
          /\ Append(u, e)[Len(u) + 1] = e
      BY <3>2, AppendProperties
    <3>4. f[k] = Append(u, e) /\ Len(f[k]) = Rk(keep, k)
      BY <3>1, <3>2, <3>3 DEF u, e
    <3>5. ASSUME NEW i \in 1..k, i \in keep
          PROVE  Rk(keep, i) \in 1..Len(f[k]) /\ f[k][Rk(keep, i)] = seq[i]
      <4>1. CASE i = k
        <5>1. Rk(keep, i) = Len(u) + 1 /\ Len(u) + 1 \in 1..Len(f[k])
          BY <2>3, <3>1, <3>2, <3>4, <4>1
        <5> QED BY <3>3, <3>4, <4>1, <5>1 DEF e
      <4>2. CASE i # k
        <5>1. i \in 1..(k - 1)
          BY <4>2
        <5>2. Rk(keep, i) \in 1..Len(u) /\ u[Rk(keep, i)] = seq[i]
          BY <2>1, <3>5, <5>1, Zenon DEF u
        <5>3. Rk(keep, i) \in 1..Len(f[k])
          BY <2>3, <3>2, <3>3, <3>4, <5>2
        <5> QED BY <3>3, <3>4, <5>2, <5>3, Zenon
      <4> QED BY <4>1, <4>2
    <3>6. ASSUME NEW j \in 1..Len(f[k])
          PROVE  \E i \in 1..k : i \in keep /\ j = Rk(keep, i)
      <4>1. CASE j = Len(u) + 1
        <5>1. j = Rk(keep, k) /\ k \in 1..k
          BY <3>1, <3>2, <4>1
        <5> QED BY <2>5, <5>1, Zenon
      <4>2. CASE j # Len(u) + 1
        <5>1. j \in 1..Len(u)
          BY <2>3, <3>2, <3>3, <3>4, <4>2
        <5>2. PICK i \in 1..(k - 1) : i \in keep /\ j = Rk(keep, i)
          BY <2>1, <5>1, Zenon DEF u
        <5>3. i \in 1..k
          OBVIOUS
        <5> QED BY <5>2, <5>3, Zenon
      <4> QED BY <4>1, <4>2
    <3>7. Good(k)
      BY <3>3, <3>4, <3>5, <3>6, Zenon
    <3> QED BY <3>7
  <2> QED BY <2>4, <2>5
<1>5. n \in H
  <2>1. n \in 0..n
    BY <1>2
  <2> HIDE DEF H, n
  <2> QED BY <1>2, <1>3, <1>4, <2>1, CountUp, Zenon
<1>6. Good(n) /\ Picked(seq, keep) = f[n]
  BY <1>1, <1>5 DEF PickedUp
<1> QED BY <1>6, Zenon DEF PickedOf

(* The members of a set up to n in order.                                     *)
LEMMA InOrderAre ==
  ASSUME NEW n \in Nat, NEW keep
  PROVE  /\ InOrder(keep, n) \in Seq(1..n) /\ Len(InOrder(keep, n)) = Rk(keep, n)
         /\ \A k \in 1..n : k \in keep => Rk(keep, k) \in 1..Rk(keep, n) /\ InOrder(keep, n)[Rk(keep, k)] = k
         /\ \A j \in 1..Rk(keep, n) : InOrder(keep, n)[j] \in keep \cap (1..n) /\ Rk(keep, InOrder(keep, n)[j]) = j
<1> DEFINE s == [i \in 1..n |-> i]
<1>1. s \in Seq(1..n) /\ Len(s) = n /\ \A i \in 1..n : s[i] = i
  OBVIOUS
<1> HIDE DEF s
<1>2. PickedOf(s, 1..n, keep, Picked(s, keep))
  BY <1>1, PickedAre, Zenon
<1>3. InOrder(keep, n) = Picked(s, keep)
  BY DEF InOrder, s
<1> DEFINE p == Picked(s, keep)
<1> HIDE DEF p
<1>4. /\ p \in Seq(1..n) /\ Len(p) = Rk(keep, n)
      /\ \A k \in 1..n : k \in keep => Rk(keep, k) \in 1..Rk(keep, n) /\ p[Rk(keep, k)] = k
      /\ \A j \in 1..Rk(keep, n) : \E k \in 1..n : k \in keep /\ j = Rk(keep, k)
  BY <1>1, <1>2, Zenon DEF PickedOf, p
<1>5. ASSUME NEW j \in 1..Rk(keep, n) PROVE p[j] \in keep \cap (1..n) /\ Rk(keep, p[j]) = j
  <2>1. PICK k \in 1..n : k \in keep /\ j = Rk(keep, k)
    BY <1>4, Zenon
  <2>2. p[j] = k
    BY <1>4, <2>1, Zenon
  <2> QED BY <2>1, <2>2, Zenon
<1> QED BY <1>3, <1>4, <1>5, Zenon DEF p

(***************************************************************************)
(* Streams one after the other                                             *)
(***************************************************************************)
LEMMA ByteIs == ByteBits \in Nat /\ ByteBits >= 2 /\ WordBits = 4 * ByteBits /\ WordBits \in Nat
BY ByteAssumption DEF WordBits

(* A multiple added leaves the remainder.                                     *)
LEMMA Division ==
  ASSUME NEW d \in Nat \ {0}, NEW n \in Int
  PROVE  n \div d \in Int /\ n % d \in 0..(d - 1) /\ n = ((n \div d) * d) + (n % d)
OBVIOUS

(* A multiple of d does not change a remainder by d.                         *)
LEMMA Remains ==
  ASSUME NEW d \in Nat \ {0}, NEW x \in Int, NEW y \in Int, y % d = 0
  PROVE  (x + y) % d = x % d /\ (x - y) % d = x % d
<1>1. PICK q \in Int, r \in 0..(d - 1) : x = (q * d) + r /\ x % d = r
  BY Division
<1>2. PICK p \in Int : y = p * d
  <2>1. PICK u \in Int, v \in 0..(d - 1) : y = (u * d) + v /\ y % d = v
    BY Division
  <2>2. v = 0 /\ u * d \in Int
    BY <2>1
  <2> QED BY <2>1, <2>2
<1>3. (q + p) * d = (q * d) + (p * d) /\ (q - p) * d = (q * d) - (p * d) /\ q * d \in Int /\ p * d \in Int
  BY <1>1, <1>2
<1>4. (((q + p) * d) + r) % d = r /\ (((q - p) * d) + r) % d = r
  <2>1. q + p \in Int /\ q - p \in Int
    OBVIOUS
  <2> QED BY <2>1, Quotients
<1>5. x + y = ((q + p) * d) + r /\ x - y = ((q - p) * d) + r
  BY <1>1, <1>2, <1>3
<1> QED BY <1>1, <1>4, <1>5

(* Filling up to a byte.                                                      *)
LEMMA Rounded ==
  ASSUME NEW a \in Nat
  PROVE  /\ (-a) % ByteBits \in 0..(ByteBits - 1)
         /\ Aligned(a) \in Nat /\ Aligned(a) % ByteBits = 0 /\ a <= Aligned(a) /\ Aligned(a) < a + ByteBits
         /\ a % ByteBits = 0 => Aligned(a) = a
<1> DEFINE z == (-a) % ByteBits
<1>1. -a \in Int /\ ByteBits \in Nat \ {0}
  BY ByteIs
<1>2. z \in 0..(ByteBits - 1) /\ -a = (((-a) \div ByteBits) * ByteBits) + z /\ (-a) \div ByteBits \in Int
  BY <1>1, Division
<1>3. PICK q \in Int : -a = (q * ByteBits) + z
  BY <1>2
<1> HIDE DEF z
<1>4. a + z = ((-q) * ByteBits) + 0 /\ -q \in Int /\ 0 \in 0..(ByteBits - 1)
  BY <1>1, <1>2, <1>3
<1>5. (a + z) % ByteBits = 0
  <2>1. (((-q) * ByteBits) + 0) % ByteBits = 0
    BY <1>1, <1>4, Quotients
  <2> QED BY <1>4, <2>1
<1>6. ASSUME a % ByteBits = 0 PROVE z = 0
  <2>1. (0 - a) % ByteBits = 0 % ByteBits
    <3>1. 0 \in Int /\ a \in Int
      OBVIOUS
    <3> QED BY <1>1, <1>6, <3>1, Remains, Zenon
  <2>2. 0 % ByteBits = 0 /\ 0 - a = -a
    BY <1>1
  <2> QED BY <2>1, <2>2 DEF z
<1>7. Aligned(a) = a + z
  BY DEF Aligned, z
<1> QED BY <1>1, <1>2, <1>5, <1>6, <1>7 DEF z

(* Whole bytes before a length do not change how it is rounded up.           *)
LEMMA RoundedAfter ==
  ASSUME NEW a \in Nat, NEW b \in Nat, a % ByteBits = 0
  PROVE  Aligned(a + b) = a + Aligned(b) /\ (a + b) % ByteBits = b % ByteBits
<1>1. ByteBits \in Nat \ {0} /\ a \in Int /\ b \in Int /\ -b \in Int
  BY ByteIs
<1>2. (b + a) % ByteBits = b % ByteBits
  BY <1>1, Remains
<1>3. ((-b) - a) % ByteBits = (-b) % ByteBits
  BY <1>1, Remains
<1>4. b + a = a + b /\ (-b) - a = -(a + b)
  OBVIOUS
<1>5. (-b) % ByteBits \in Int
  BY <1>1
<1> QED BY <1>2, <1>3, <1>4, <1>5 DEF Aligned

(* Padding fills the last byte and leaves the bits before it.                *)
LEMMA PaddedIs ==
  ASSUME NEW s \in BitSeq
  PROVE  /\ PadBits(s) \in BitSeq /\ Len(PadBits(s)) = Aligned(Len(s))
         /\ \A i \in 1..Len(s) : PadBits(s)[i] = s[i]
         /\ Len(s) % ByteBits = 0 => PadBits(s) = s
<1> DEFINE z == [i \in 1..((-Len(s)) % ByteBits) |-> 0]
<1>1. Len(s) \in Nat
  BY DEF BitSeq
<1> DEFINE m == (-Len(s)) % ByteBits
<1>2. m \in Nat /\ Aligned(Len(s)) = Len(s) + m /\ (Len(s) % ByteBits = 0 => m = 0)
  <2>1. (-Len(s)) % ByteBits \in 0..(ByteBits - 1) /\ (Len(s) % ByteBits = 0 => Aligned(Len(s)) = Len(s))
    BY <1>1, Rounded, Zenon
  <2>2. m \in Nat
    BY <2>1, ByteIs
  <2>3. Aligned(Len(s)) = Len(s) + m
    BY DEF Aligned
  <2> HIDE DEF m
  <2>4. Len(s) % ByteBits = 0 => m = 0
    BY <1>1, <2>1, <2>2, <2>3
  <2> QED BY <2>2, <2>3, <2>4
<1>3. PadBits(s) = s \o [i \in 1..m |-> 0]
  BY DEF PadBits
<1> HIDE DEF m
<1>4. [i \in 1..m |-> 0] \in BitSeq /\ Len([i \in 1..m |-> 0]) = m /\ (m = 0 => [i \in 1..m |-> 0] = <<>>)
  BY <1>2 DEF BitSeq
<1> HIDE DEF z
<1>5. s \o <<>> = s
  BY DEF BitSeq
<1>6. \A t \in BitSeq : s \o t \in BitSeq /\ Len(s \o t) = Len(s) + Len(t)
                          /\ \A i \in 1..Len(s) : (s \o t)[i] = s[i]
  BY DEF BitSeq
<1> DEFINE t == [i \in 1..m |-> 0]
<1> HIDE DEF t
<1>7. PadBits(s) = s \o t /\ t \in BitSeq /\ Len(t) = m /\ (m = 0 => t = <<>>)
  BY <1>3, <1>4 DEF t
<1>8. PadBits(s) \in BitSeq /\ Len(PadBits(s)) = Aligned(Len(s)) /\ \A i \in 1..Len(s) : PadBits(s)[i] = s[i]
  BY <1>2, <1>6, <1>7
<1>9. Len(s) % ByteBits = 0 => PadBits(s) = s
  BY <1>2, <1>5, <1>7
<1> QED BY <1>8, <1>9

(* A prefix and the next member.                                             *)
LEMMA PrefixNext ==
  ASSUME NEW T, NEW s \in Seq(T), NEW k \in 1..Len(s)
  PROVE  SubSeq(s, 1, k) = SubSeq(s, 1, k - 1) \o <<s[k]>> /\ s[k] \in T /\ SubSeq(s, 1, k - 1) \in Seq(T)
         /\ Len(SubSeq(s, 1, k - 1)) = k - 1
OBVIOUS

(* The whole and the empty prefix.                                           *)
LEMMA PrefixAll ==
  ASSUME NEW T, NEW s \in Seq(T)
  PROVE  SubSeq(s, 1, Len(s)) = s /\ SubSeq(s, 1, 0) = <<>> /\ Len(s) \in Nat
OBVIOUS

(* The stream of calls is as long as they say.                                *)
IsLaid(c) == Size(c) \in Nat /\ Laid(c) \in BitSeq /\ Len(Laid(c)) = Size(c)

(* One call more keeps the bits and their number in agreement.               *)
LEMMA LaidMore ==
  ASSUME NEW c \in Seq(CallSet), NEW d \in CallSet, IsLaid(c)
  PROVE  IsLaid(c \o <<d>>)
<1>1. Size(c \o <<d>>) = PlaceAfter(Size(c), d) /\ Laid(c \o <<d>>) = BitsAfter(Laid(c), d)
  BY StartNext, LaidNext, Zenon
<1>2. d.w \in 0..WordBits /\ d.n \in Int
  BY DEF CallSet
<1>3. Size(c) \in Nat /\ Laid(c) \in BitSeq /\ Len(Laid(c)) = Size(c)
  BY DEF IsLaid
<1> DEFINE s == Laid(c)
           a == Size(c)
<1>4. CASE d.w = 0
  <2>1. PadBits(s) \in BitSeq /\ Len(PadBits(s)) = Aligned(Len(s))
    BY <1>3, PaddedIs
  <2>2. Aligned(a) \in Nat
    BY <1>3, Rounded
  <2> QED BY <1>1, <1>3, <1>4, <2>1, <2>2 DEF IsLaid, PlaceAfter, BitsAfter
<1>5. CASE d.w # 0
  <2>1. Bits(d.n, d.w) \in BitSeq /\ Len(Bits(d.n, d.w)) = d.w
    BY <1>2, BitsAre
  <2>2. s \o Bits(d.n, d.w) \in BitSeq /\ Len(s \o Bits(d.n, d.w)) = a + d.w
    <3> DEFINE t == Bits(d.n, d.w)
    <3> HIDE DEF t, s, a
    <3>1. s \in BitSeq /\ t \in BitSeq /\ Len(s) = a /\ Len(t) = d.w
      BY <1>3, <2>1 DEF s, t, a
    <3>2. s \o t \in BitSeq /\ Len(s \o t) = a + d.w
      BY <3>1, SMTT(40) DEF BitSeq
    <3> QED BY <3>2 DEF t
  <2>3. Laid(c \o <<d>>) = s \o Bits(d.n, d.w) /\ Size(c \o <<d>>) = a + d.w
    BY <1>1, <1>5, Zenon DEF PlaceAfter, BitsAfter
  <2>4. a + d.w \in Nat
    BY <1>2, <1>3
  <2> HIDE DEF s, a
  <2> QED BY <2>2, <2>3, <2>4, Zenon DEF IsLaid
<1> QED BY <1>4, <1>5

(* The bits of any calls, and their number.                                  *)
LEMMA LaidTyped ==
  ASSUME NEW c \in Seq(CallSet)
  PROVE  IsLaid(c)
<1> DEFINE p(k) == SubSeq(c, 1, k)
           H == {k \in 0..Len(c) : IsLaid(p(k))}
<1>1. Len(c) \in Nat /\ p(0) = <<>> /\ p(Len(c)) = c
  BY PrefixAll
<1>2. 0 \in H
  <2>1. <<>> \in BitSeq /\ Len(<<>>) = 0
    BY DEF BitSeq
  <2>2. IsLaid(<<>>)
    BY <2>1, NothingCalled DEF IsLaid
  <2> HIDE DEF p
  <2>3. 0 \in 0..Len(c) /\ IsLaid(p(0))
    BY <1>1, <2>2
  <2> QED BY <2>3
<1>3. ASSUME NEW k \in 1..Len(c), k - 1 \in H PROVE k \in H
  <2>1. p(k) = p(k - 1) \o <<c[k]>> /\ c[k] \in CallSet /\ p(k - 1) \in Seq(CallSet)
    BY PrefixNext
  <2>2. IsLaid(p(k - 1))
    BY <1>3
  <2> HIDE DEF p
  <2>3. IsLaid(p(k))
    BY <2>1, <2>2, LaidMore, Zenon
  <2> QED BY <2>3
<1>4. Len(c) \in H
  <2>1. Len(c) \in 0..Len(c)
    BY <1>1
  <2> HIDE DEF H
  <2> QED BY <1>1, <1>2, <1>3, <2>1, CountUp, Zenon
<1> QED BY <1>1, <1>4

(* Calls d after calls c: if those end on a byte, or d fills none up, the     *)
(* stream is that of c and then that of d.                                   *)
Plain(d) == \A k \in 1..Len(d) : d[k].w # 0
Joins(c, d) ==
  /\ Laid(c \o d) = Laid(c) \o Laid(d)
  /\ Size(c \o d) = Size(c) + Size(d)
  /\ \A k \in 1..Len(c) : Start(c \o d, k) = Start(c, k)
  /\ \A k \in 1..(Len(d) + 1) : Start(c \o d, Len(c) + k) = Size(c) + Start(d, k)

(* Calls, and no call after them.                                            *)
LEMMA JoinNone ==
  ASSUME NEW c \in Seq(CallSet)
  PROVE  Joins(c, <<>>)
<1>1. c \o <<>> = c /\ Len(<<>>) = 0 /\ Len(c) \in Nat
  OBVIOUS
<1>2. IsLaid(c)
  BY LaidTyped
<1>3. Laid(c) \o <<>> = Laid(c)
  BY <1>2 DEF IsLaid, BitSeq
<1>4. \A k \in 1..(0 + 1) : k = 1
  OBVIOUS
<1>5. Start(<<>>, 1) = 0 /\ Start(c, Len(c) + 1) = Size(c)
  BY NothingCalled, <1>1 DEF Size
<1>6. Size(c) + 0 = Size(c) /\ Laid(c) \o Laid(<<>>) = Laid(c) /\ Size(<<>>) = 0
  <2>1. Size(<<>>) = 0 /\ Laid(<<>>) = <<>>
    BY NothingCalled, Zenon
  <2>2. Size(c) + 0 = Size(c)
    BY <1>2 DEF IsLaid
  <2> QED BY <1>3, <2>1, <2>2, Zenon
<1>7. \A k \in 1..(Len(<<>>) + 1) : Start(c \o <<>>, Len(c) + k) = Size(c) + Start(<<>>, k)
  BY <1>1, <1>5, <1>6
<1> QED BY <1>1, <1>6, <1>7, Zenon DEF Joins

(* Calls, and one more call after those.                                     *)
LEMMA JoinOne ==
  ASSUME NEW c \in Seq(CallSet), NEW d \in Seq(CallSet), NEW x \in CallSet, Joins(c, d),
         Size(c) % ByteBits = 0 \/ x.w # 0
  PROVE  Joins(c, d \o <<x>>)
<1> DEFINE e == d \o <<x>>
           b == c \o d
<1>1. c \o e = b \o <<x>> /\ e \in Seq(CallSet) /\ b \in Seq(CallSet)
  <2>1. <<x>> \in Seq(CallSet)
    OBVIOUS
  <2> DEFINE y == <<x>>
  <2>4. y \in Seq(CallSet)
    BY <2>1
  <2> HIDE DEF y
  <2>2. (c \o d) \o y = c \o (d \o y)
    BY <2>4, ConcatAssociative
  <2>3. d \o y \in Seq(CallSet) /\ c \o d \in Seq(CallSet)
    BY <2>4, ConcatProperties, Zenon
  <2> QED BY <2>2, <2>3 DEF y
<1>2. Len(e) = Len(d) + 1 /\ Len(b) = Len(c) + Len(d) /\ Len(c) \in Nat /\ Len(d) \in Nat
  OBVIOUS
<1>3. IsLaid(c) /\ IsLaid(d)
  BY LaidTyped
<1>4. /\ \A k \in 1..(Len(b) + 1) : Start(b \o <<x>>, k) = Start(b, k)
      /\ Size(b \o <<x>>) = PlaceAfter(Size(b), x)
      /\ Laid(b \o <<x>>) = BitsAfter(Laid(b), x)
  BY <1>1, StartNext, LaidNext, Zenon
<1>5. /\ \A k \in 1..(Len(d) + 1) : Start(e, k) = Start(d, k)
      /\ Size(e) = PlaceAfter(Size(d), x)
      /\ Laid(e) = BitsAfter(Laid(d), x)
  BY StartNext, LaidNext, Zenon
<1>6. Size(b) = Size(c) + Size(d) /\ Laid(b) = Laid(c) \o Laid(d)
  BY DEF Joins
<1>7. PlaceAfter(Size(c) + Size(d), x) = Size(c) + PlaceAfter(Size(d), x)
  <2>1. CASE x.w = 0
    BY <1>3, <2>1, RoundedAfter DEF PlaceAfter, IsLaid
  <2>2. CASE x.w # 0
    <3>1. x.w \in Nat
      BY DEF CallSet
    <3> QED BY <1>3, <2>2, <3>1 DEF PlaceAfter, IsLaid
  <2> QED BY <2>1, <2>2
<1>8. BitsAfter(Laid(c) \o Laid(d), x) = Laid(c) \o BitsAfter(Laid(d), x)
  <2> DEFINE s == Laid(c)
             t == Laid(d)
  <2>1. s \in BitSeq /\ t \in BitSeq /\ Len(s) = Size(c) /\ Len(t) = Size(d) /\ Size(c) \in Nat /\ Size(d) \in Nat
    BY <1>3 DEF IsLaid
  <2>2. CASE x.w = 0
    <3> DEFINE z(n) == [i \in 1..((-n) % ByteBits) |-> 0]
    <3>1. z(Len(t)) \in BitSeq
      <4> DEFINE m == (-Len(t)) % ByteBits
      <4>1. m \in 0..(ByteBits - 1)
        BY <2>1, Rounded, Zenon
      <4> HIDE DEF m
      <4>2. [i \in 1..m |-> 0] \in BitSeq
        BY <4>1, ByteIs DEF BitSeq
      <4> QED BY <4>2 DEF m
    <3>2. Len(s \o t) = Size(c) + Size(d)
      <4> HIDE DEF s, t
      <4>1. Len(s \o t) = Len(s) + Len(t)
        BY <2>1, ConcatProperties, Zenon DEF BitSeq
      <4> QED BY <2>1, <4>1
    <3>3. (-(Size(c) + Size(d))) % ByteBits = (-Size(d)) % ByteBits
      <4>1. Aligned(Size(c) + Size(d)) = Size(c) + Aligned(Size(d))
        BY <2>1, <2>2, RoundedAfter
      <4>2. (-(Size(c) + Size(d))) % ByteBits \in Int /\ (-Size(d)) % ByteBits \in Int
        BY <2>1, ByteIs
      <4> QED BY <2>1, <4>1, <4>2 DEF Aligned
    <3>4. PadBits(s \o t) = (s \o t) \o z(Len(s \o t)) /\ PadBits(t) = t \o z(Len(t))
      BY DEF PadBits
    <3>5. z(Len(s \o t)) = z(Len(t))
      BY <2>1, <3>2, <3>3
    <3>6. (s \o t) \o z(Len(t)) = s \o (t \o z(Len(t)))
      <4> HIDE DEF s, t, z
      <4> QED BY <2>1, <3>1, BitsAssociate, Zenon
    <3>7. PadBits(s \o t) = s \o PadBits(t)
      <4> HIDE DEF s, t, z
      <4> QED BY <3>4, <3>5, <3>6, Zenon
    <3> QED BY <2>2, <3>7 DEF BitsAfter
  <2>3. CASE x.w # 0
    <3>1. Bits(x.n, x.w) \in BitSeq
      BY BitsAre DEF CallSet
    <3>2. (s \o t) \o Bits(x.n, x.w) = s \o (t \o Bits(x.n, x.w))
      <4> HIDE DEF s, t
      <4> QED BY <2>1, <3>1, BitsAssociate, Zenon
    <3> QED BY <2>3, <3>2 DEF BitsAfter
  <2> QED BY <2>2, <2>3
<1>9. Laid(c \o e) = Laid(c) \o Laid(e) /\ Size(c \o e) = Size(c) + Size(e)
  BY <1>1, <1>4, <1>5, <1>6, <1>7, <1>8, Zenon
<1>10. ASSUME NEW k \in 1..Len(c) PROVE Start(c \o e, k) = Start(c, k)
  <2>1. k \in 1..(Len(b) + 1)
    BY <1>2
  <2>2. Start(b, k) = Start(c, k)
    BY DEF Joins
  <2> QED BY <1>1, <1>4, <2>1, <2>2, Zenon
<1>11. ASSUME NEW k \in 1..(Len(e) + 1) PROVE Start(c \o e, Len(c) + k) = Size(c) + Start(e, k)
  <2>1. CASE k \in 1..(Len(d) + 1)
    <3>1. Len(c) + k \in 1..(Len(b) + 1)
      BY <1>2, <2>1
    <3>2. Start(b, Len(c) + k) = Size(c) + Start(d, k)
      BY <2>1 DEF Joins
    <3> QED BY <1>1, <1>4, <1>5, <2>1, <3>1, <3>2, Zenon
  <2>2. CASE k = Len(e) + 1
    <3>1. Len(c \o e) = Len(c) + Len(e)
      BY <1>1, ConcatProperties, Zenon
    <3>2. Len(c) + k = Len(c \o e) + 1
      BY <1>2, <2>2, <3>1
    <3> QED BY <1>9, <2>2, <3>2, Zenon DEF Size
  <2> QED BY <1>2, <2>1, <2>2
<1> QED BY <1>9, <1>10, <1>11, Zenon DEF Joins

(* What calls add to a stream is what they make alone, when it ends at a     *)
(* byte boundary or they mark nothing.                                       *)
LEMMA StreamsJoin ==
  ASSUME NEW c \in Seq(CallSet), NEW d \in Seq(CallSet), Size(c) % ByteBits = 0 \/ Plain(d)
  PROVE  Joins(c, d)
<1> DEFINE p(k) == SubSeq(d, 1, k)
           H == {k \in 0..Len(d) : Joins(c, p(k))}
<1>1. Len(d) \in Nat /\ p(0) = <<>> /\ p(Len(d)) = d
  BY PrefixAll
<1>2. 0 \in H
  <2> HIDE DEF p
  <2>1. Joins(c, p(0)) /\ 0 \in 0..Len(d)
    BY <1>1, JoinNone
  <2> QED BY <2>1
<1>3. ASSUME NEW k \in 1..Len(d), k - 1 \in H PROVE k \in H
  <2>1. p(k) = p(k - 1) \o <<d[k]>> /\ d[k] \in CallSet /\ p(k - 1) \in Seq(CallSet)
    BY PrefixNext
  <2>2. Joins(c, p(k - 1))
    BY <1>3
  <2>3. Size(c) % ByteBits = 0 \/ d[k].w # 0
    BY Zenon DEF Plain
  <2> HIDE DEF p
  <2>4. Joins(c, p(k))
    BY <2>1, <2>2, <2>3, JoinOne, Zenon
  <2> QED BY <2>4
<1>4. Len(d) \in H
  <2>1. Len(d) \in 0..Len(d)
    BY <1>1
  <2> HIDE DEF H
  <2> QED BY <1>1, <1>2, <1>3, <2>1, CountUp, Zenon
<1> QED BY <1>1, <1>4

(* A call starts at a natural place.                                         *)
LEMMA StartNatural ==
  ASSUME NEW c \in Seq(CallSet), NEW k \in 1..(Len(c) + 1)
  PROVE  Start(c, k) \in Nat
<1>1. Len(c) \in Nat
  OBVIOUS
<1> DEFINE p == k - 1
<1>2. p \in Nat /\ k - 1 = p /\ p \in 0..Len(c)
  BY <1>1
<1> HIDE DEF p
<1>3. StartBy(c, k, p)
  BY <1>2, StartIs, Zenon
<1>4. PICK f : /\ Start(c, k) = f[p] /\ f[0] = 0
               /\ \A i \in 1..p : f[i] = PlaceAfter(f[i - 1], c[i])
  BY <1>3 DEF StartBy
<1> DEFINE H == {i \in 0..p : f[i] \in Nat}
<1>5. 0 \in H
  BY <1>2, <1>4
<1>6. ASSUME NEW i \in 1..p, i - 1 \in H PROVE i \in H
  <2>1. f[i - 1] \in Nat /\ c[i] \in CallSet
    BY <1>2, <1>6
  <2>2. PlaceAfter(f[i - 1], c[i]) \in Nat
    <3>1. c[i].w \in Nat
      BY <2>1, ByteIs DEF CallSet
    <3>2. f[i - 1] + c[i].w \in Nat
      BY <2>1, <3>1
    <3>3. Aligned(f[i - 1]) \in Nat
      BY <2>1, Rounded
    <3> QED BY <3>2, <3>3, Zenon DEF PlaceAfter
  <2> QED BY <1>4, <2>2
<1>7. p \in H
  <2>1. p \in 0..p
    BY <1>2
  <2> HIDE DEF H
  <2> QED BY <1>2, <1>5, <1>6, <2>1, CountUp, Zenon
<1> QED BY <1>4, <1>7

(***************************************************************************)
(* Pieces of a stream: calls that begin and end on a byte, fit the         *)
(* register, and make some bits                                            *)
(***************************************************************************)
Piece(c, s) ==
  c \in Seq(CallSet) /\ Size(c) % ByteBits = 0 /\ RegisterHolds(c) /\ Laid(c) = s

(* A piece is a stream of whole bytes.                                       *)
LEMMA PieceTyped ==
  ASSUME NEW c, NEW s, Piece(c, s)
  PROVE  s \in BitSeq /\ Len(s) = Size(c) /\ Len(s) \in Nat /\ Len(s) % ByteBits = 0
<1>1. c \in Seq(CallSet) /\ Laid(c) = s /\ Size(c) % ByteBits = 0
  BY DEF Piece
<1>2. IsLaid(c)
  BY <1>1, LaidTyped, Zenon
<1> QED BY <1>1, <1>2 DEF IsLaid

(* No call makes the empty piece.                                            *)
LEMMA PieceNone == Piece(<<>>, <<>>)
<1>1. <<>> \in Seq(CallSet) /\ DOMAIN <<>> = {}
  OBVIOUS
<1>2. RegisterHolds(<<>>)
  BY <1>1 DEF RegisterHolds
<1>3. Size(<<>>) % ByteBits = 0
  BY NothingCalled, ByteIs
<1> QED BY <1>1, <1>2, <1>3, NothingCalled, Zenon DEF Piece

(* No wider than fits from any bit of a byte on.                              *)
Narrow(d) == \A k \in 1..Len(d) : d[k].w <= (3 * ByteBits) + 1

(* Fields that fit in the register one part at a time all fit in it.         *)
LEMMA HoldsJoined ==
  ASSUME NEW c \in Seq(CallSet), NEW d \in Seq(CallSet), Joins(c, d), RegisterHolds(c),
         (Size(c) % ByteBits = 0 /\ RegisterHolds(d)) \/ Narrow(d)
  PROVE  RegisterHolds(c \o d)
<1> DEFINE e == c \o d
<1>1. /\ e \in Seq(CallSet) /\ Len(e) = Len(c) + Len(d) /\ Len(c) \in Nat /\ Len(d) \in Nat
      /\ \A k \in 1..Len(c) : e[k] = c[k]
      /\ \A k \in 1..Len(d) : e[Len(c) + k] = d[k]
  OBVIOUS
<1>2. DOMAIN e = 1..Len(e) /\ DOMAIN c = 1..Len(c) /\ DOMAIN d = 1..Len(d)
  OBVIOUS
<1> HIDE DEF e
<1>3. ASSUME NEW k \in 1..Len(e) PROVE (Start(e, k) % ByteBits) + e[k].w <= WordBits
  <2>1. CASE k \in 1..Len(c)
    <3>1. Start(e, k) = Start(c, k) /\ e[k] = c[k]
      BY <1>1, <2>1, Zenon DEF Joins, e
    <3>2. (Start(c, k) % ByteBits) + c[k].w <= WordBits
      BY <1>2, <2>1 DEF RegisterHolds
    <3> QED BY <3>1, <3>2
  <2>2. CASE k \notin 1..Len(c)
    <3>1. PICK j \in 1..Len(d) : k = Len(c) + j
      <4>1. k - Len(c) \in 1..Len(d) /\ k = Len(c) + (k - Len(c))
        BY <1>1, <2>2
      <4> QED BY <4>1
    <3>2. e[k] = d[j]
      BY <1>1, <3>1
    <3>3. Start(e, k) = Size(c) + Start(d, j)
      <4>1. j \in 1..(Len(d) + 1)
        BY <1>1
      <4> QED BY <3>1, <4>1, Zenon DEF Joins, e
    <3>4. Size(c) \in Nat /\ Start(d, j) \in Nat
      <4>1. IsLaid(c) /\ j \in 1..(Len(d) + 1)
        BY <1>1, LaidTyped
      <4> QED BY <4>1, StartNatural DEF IsLaid
    <3>5. CASE Narrow(d)
      <4>1. d[j].w <= (3 * ByteBits) + 1 /\ d[j].w \in Nat
        <5>1. d[j] \in CallSet
          BY <1>1
        <5> QED BY <3>5, <5>1 DEF Narrow, CallSet
      <4> DEFINE x == Start(e, k)
      <4>2. x \in Nat
        BY <3>3, <3>4
      <4> HIDE DEF x
      <4>3. x % ByteBits \in 0..(ByteBits - 1)
        BY <4>2, ByteIs
      <4>4. e[k].w = d[j].w /\ e[k].w \in Nat
        BY <3>2, <4>1
      <4> DEFINE y == x % ByteBits
                 v == e[k].w
      <4>5. y \in 0..(ByteBits - 1) /\ v \in Nat /\ v <= (3 * ByteBits) + 1
        BY <4>1, <4>3, <4>4
      <4> HIDE DEF y, v
      <4>6. y + v <= WordBits
        BY <4>5, ByteIs
      <4> QED BY <4>6 DEF y, v, x
    <3>6. CASE Size(c) % ByteBits = 0 /\ RegisterHolds(d)
      <4>1. (Size(c) + Start(d, j)) % ByteBits = Start(d, j) % ByteBits
        BY <3>4, <3>6, RoundedAfter
      <4>2. (Start(d, j) % ByteBits) + d[j].w <= WordBits
        BY <1>2, <3>6 DEF RegisterHolds
      <4> QED BY <3>2, <3>3, <4>1, <4>2
    <3> QED BY <3>5, <3>6
  <2> QED BY <2>1, <2>2
<1>4. RegisterHolds(e)
  BY <1>2, <1>3, Zenon DEF RegisterHolds
<1> QED BY <1>4 DEF e

(* Two pieces, one after the other, make a piece.                            *)
LEMMA PieceJoin ==
  ASSUME NEW c, NEW s, NEW d, NEW t, Piece(c, s), Piece(d, t)
  PROVE  Piece(c \o d, s \o t)
<1>1. /\ c \in Seq(CallSet) /\ Size(c) % ByteBits = 0 /\ RegisterHolds(c) /\ Laid(c) = s
      /\ d \in Seq(CallSet) /\ Size(d) % ByteBits = 0 /\ RegisterHolds(d) /\ Laid(d) = t
  BY DEF Piece
<1>2. Joins(c, d)
  BY <1>1, StreamsJoin, Zenon
<1>3. RegisterHolds(c \o d)
  BY <1>1, <1>2, HoldsJoined, Zenon
<1>4. c \o d \in Seq(CallSet)
  BY <1>1, ConcatProperties, Zenon
<1>5. Size(c \o d) = Size(c) + Size(d) /\ Laid(c \o d) = s \o t
  BY <1>1, <1>2, Zenon DEF Joins
<1>6. (Size(c) + Size(d)) % ByteBits = Size(d) % ByteBits
  <2>1. Size(c) \in Nat /\ Size(d) \in Nat
    BY <1>1, LaidTyped DEF IsLaid
  <2> QED BY <1>1, <2>1, RoundedAfter, Zenon
<1> QED BY <1>1, <1>3, <1>4, <1>5, <1>6, Zenon DEF Piece

(* Pieces put together are a piece.                                           *)
LEMMA PiecesFlat ==
  ASSUME NEW C \in Seq(Seq(CallSet)), NEW P \in Seq(BitSeq), Len(P) = Len(C),
         \A i \in 1..Len(C) : Piece(C[i], P[i])
  PROVE  Piece(FlattenSeq(C), FlattenSeq(P))
<1>1. Len(C) \in Nat /\ Flats(C, CallSet) /\ Flats(P, {0, 1})
  BY FlatsAre DEF BitSeq
<1> DEFINE H == {k \in 0..Len(C) : Piece(FlatTo(C, k), FlatTo(P, k))}
<1>2. 0 \in H
  <2>1. 0 \in 0..Len(C)
    BY <1>1
  <2> QED BY <1>1, <2>1, PieceNone, Zenon DEF Flats
<1>3. ASSUME NEW k \in 1..Len(C), k - 1 \in H PROVE k \in H
  <2>1. Piece(FlatTo(C, k - 1), FlatTo(P, k - 1)) /\ Piece(C[k], P[k])
    BY <1>3
  <2>2. FlatTo(C, k) = FlatTo(C, k - 1) \o C[k] /\ FlatTo(P, k) = FlatTo(P, k - 1) \o P[k]
    BY <1>1, Zenon DEF Flats
  <2>3. Piece(FlatTo(C, k), FlatTo(P, k))
    BY <2>1, <2>2, PieceJoin, Zenon
  <2>4. k \in 0..Len(C)
    BY <1>1
  <2> QED BY <2>3, <2>4
<1>4. Len(C) \in H
  <2>1. Len(C) \in 0..Len(C)
    BY <1>1
  <2> HIDE DEF H
  <2> QED BY <1>1, <1>2, <1>3, <2>1, CountUp, Zenon
<1> QED BY <1>1, <1>4, Zenon DEF Flats

(* Values put one after the other with one width.                             *)
AllBits(ns, w) == [i \in 1..Len(ns) |-> Bits(ns[i], w)]

(* The numbers of a list written in w bits each: the calls, their bits and   *)
(* how many they are.                                                        *)
LEMMA AllPut ==
  ASSUME NEW ns \in Seq(Int), NEW w \in 1..WordBits
  PROVE  /\ PutAll(ns, w) \in Seq(CallSet) /\ Plain(PutAll(ns, w)) /\ Len(PutAll(ns, w)) = Len(ns)
         /\ Laid(PutAll(ns, w)) = FlattenSeq(AllBits(ns, w))
         /\ Size(PutAll(ns, w)) = Len(ns) * w
         /\ AllBits(ns, w) \in Seq(BitSeq) /\ Len(AllBits(ns, w)) = Len(ns)
         /\ \A k \in 1..Len(ns) : PutAll(ns, w)[k] = [n |-> ns[k], w |-> w]
<1> DEFINE C == PutAll(ns, w)
           F == AllBits(ns, w)
           n == Len(ns)
<1>1. n \in Nat /\ w \in Nat \ {0} /\ w \in 0..WordBits
  BY ByteIs
<1>2. /\ C \in Seq(CallSet) /\ Len(C) = n
      /\ \A k \in 1..n : C[k] = [n |-> ns[k], w |-> w] /\ C[k] \in CallSet /\ C[k].w = w /\ C[k].n = ns[k]
  <2>1. \A k \in 1..n : [n |-> ns[k], w |-> w] \in CallSet
    BY <1>1 DEF CallSet
  <2>2. C = [k \in 1..n |-> [n |-> ns[k], w |-> w]]
    BY DEF PutAll
  <2> HIDE DEF C, n
  <2> QED BY <1>1, <2>1, <2>2
<1>3. F \in Seq(BitSeq) /\ Len(F) = n /\ \A k \in 1..n : F[k] = Bits(ns[k], w)
  <2>1. \A k \in 1..n : Bits(ns[k], w) \in BitSeq
    BY <1>1, BitsAre
  <2>2. F = [k \in 1..n |-> Bits(ns[k], w)]
    BY DEF AllBits
  <2> HIDE DEF F, n
  <2> QED BY <1>1, <2>1, <2>2
<1> HIDE DEF C, F
<1>4. Flats(F, {0, 1})
  BY <1>3, FlatsAre DEF BitSeq
<1> DEFINE p(k) == SubSeq(C, 1, k)
           H == {k \in 0..n : Laid(p(k)) = FlatTo(F, k) /\ Size(p(k)) = k * w}
<1>5. 0 \in H
  <2>1. p(0) = <<>>
    BY <1>2, PrefixAll
  <2>2. Laid(p(0)) = FlatTo(F, 0) /\ Size(p(0)) = 0
    BY <1>4, <2>1, NothingCalled, Zenon DEF Flats
  <2>3. 0 * w = 0 /\ 0 \in 0..n
    BY <1>1
  <2> HIDE DEF p
  <2> QED BY <2>2, <2>3
<1>6. ASSUME NEW k \in 1..n, k - 1 \in H PROVE k \in H
  <2>1. p(k) = p(k - 1) \o <<C[k]>> /\ C[k] \in CallSet /\ p(k - 1) \in Seq(CallSet)
    BY <1>2, PrefixNext
  <2>2. Laid(p(k - 1)) = FlatTo(F, k - 1) /\ Size(p(k - 1)) = (k - 1) * w
    BY <1>6
  <2> HIDE DEF p
  <2>3. Laid(p(k)) = BitsAfter(Laid(p(k - 1)), C[k]) /\ Size(p(k)) = PlaceAfter(Size(p(k - 1)), C[k])
    BY <2>1, LaidNext, StartNext, Zenon
  <2>4. C[k].w = w /\ C[k].n = ns[k] /\ w # 0 /\ F[k] = Bits(ns[k], w)
    BY <1>1, <1>2, <1>3
  <2>5. Laid(p(k)) = FlatTo(F, k - 1) \o F[k]
    BY <2>2, <2>3, <2>4, Zenon DEF BitsAfter
  <2>6. FlatTo(F, k) = FlatTo(F, k - 1) \o F[k]
    BY <1>3, <1>4, Zenon DEF Flats
  <2>7. Size(p(k)) = ((k - 1) * w) + w
    BY <2>2, <2>3, <2>4, Zenon DEF PlaceAfter
  <2>8. ((k - 1) * w) + w = k * w
    BY <1>1
  <2>9. k \in 0..n
    BY <1>1
  <2>10. Size(p(k)) = k * w
    BY <2>7, <2>8, Zenon
  <2> QED BY <2>5, <2>6, <2>9, <2>10, Zenon
<1>7. n \in H
  <2>1. n \in 0..n
    BY <1>1
  <2> HIDE DEF H, n
  <2> QED BY <1>1, <1>5, <1>6, <2>1, CountUp, Zenon
<1>8. Laid(C) = FlattenSeq(F) /\ Size(C) = n * w
  <2>1. p(n) = C
    BY <1>2, PrefixAll
  <2>2. Laid(p(n)) = FlatTo(F, n) /\ Size(p(n)) = n * w
    BY <1>7
  <2> HIDE DEF p
  <2> QED BY <1>3, <1>4, <2>1, <2>2, Zenon DEF Flats
<1>9. Plain(C)
  BY <1>1, <1>2 DEF Plain
<1> QED BY <1>2, <1>3, <1>8, <1>9 DEF C, F

(* Narrow fields fit in the register wherever they start.                    *)
LEMMA AllNarrow ==
  ASSUME NEW ns \in Seq(Int), NEW w \in 1..WordBits, w <= (3 * ByteBits) + 1
  PROVE  Narrow(PutAll(ns, w))
<1> DEFINE C == PutAll(ns, w)
<1>1. Len(C) = Len(ns) /\ \A k \in 1..Len(ns) : C[k] = [n |-> ns[k], w |-> w]
  BY AllPut
<1> HIDE DEF C
<1>2. \A k \in 1..Len(C) : C[k].w = w
  <2>1. \A k \in 1..Len(ns) : C[k].w = w
    <3> SUFFICES ASSUME NEW k \in 1..Len(ns) PROVE C[k].w = w
      OBVIOUS
    <3>1. C[k] = [n |-> ns[k], w |-> w]
      BY <1>1, Zenon
    <3> QED BY <3>1
  <2> QED BY <1>1, <2>1, Zenon
<1> DEFINE most == (3 * ByteBits) + 1
<1>3. w <= most
  OBVIOUS
<1> HIDE DEF most
<1>4. \A k \in 1..Len(C) : C[k].w <= most
  BY <1>2, <1>3, Zenon
<1>5. Narrow(C)
  BY <1>4, Zenon DEF Narrow, most
<1> QED BY <1>5 DEF C

(* With a width no wider than that, and to whole bytes, they are a piece.     *)
LEMMA PieceAll ==
  ASSUME NEW ns \in Seq(Int), NEW w \in 1..WordBits, w <= (3 * ByteBits) + 1,
         (Len(ns) * w) % ByteBits = 0
  PROVE  Piece(PutAll(ns, w), FlattenSeq(AllBits(ns, w)))
<1> DEFINE C == PutAll(ns, w)
<1>1. C \in Seq(CallSet) /\ Laid(C) = FlattenSeq(AllBits(ns, w)) /\ Size(C) = Len(ns) * w
  BY AllPut
<1>2. Narrow(C)
  BY AllNarrow
<1> HIDE DEF C
<1>3. Joins(<<>>, C)
  BY <1>1, PieceNone, StreamsJoin, Zenon DEF Piece
<1>4. RegisterHolds(<<>> \o C)
  BY <1>1, <1>2, <1>3, PieceNone, HoldsJoined, Zenon DEF Piece
<1>5. <<>> \o C = C
  BY <1>1
<1> QED BY <1>1, <1>4, <1>5 DEF Piece, C

(* One value in whole bytes.                                                  *)
LEMMA OnePut ==
  ASSUME NEW n \in Int, NEW w \in 1..WordBits
  PROVE  /\ Put(n, w) \in Seq(CallSet) /\ Plain(Put(n, w)) /\ Len(Put(n, w)) = 1 /\ Start(Put(n, w), 1) = 0
         /\ Laid(Put(n, w)) = Bits(n, w) /\ Size(Put(n, w)) = w /\ Put(n, w)[1].w = w
         /\ RegisterHolds(Put(n, w))
<1> DEFINE x == [n |-> n, w |-> w]
<1>1. x \in CallSet /\ x.w = w /\ x.n = n /\ w # 0
  BY ByteIs DEF CallSet
<1> HIDE DEF x
<1>2. <<>> \in Seq(CallSet) /\ <<>> \o <<x>> = <<x>> /\ Len(<<>>) = 0
  BY <1>1
<1>3. Put(n, w) = <<x>>
  BY DEF Put, x
<1>4. /\ Start(<<x>>, 1) = Start(<<>>, 1)
      /\ Size(<<x>>) = PlaceAfter(Size(<<>>), x)
      /\ Laid(<<x>>) = BitsAfter(Laid(<<>>), x)
  <2>1. 1 \in 1..(Len(<<>>) + 1)
    BY <1>2
  <2> QED BY <1>1, <1>2, <2>1, StartNext, LaidNext, Zenon
<1>5. Start(<<>>, 1) = 0
  BY NothingCalled DEF Size
<1>6. Bits(n, w) \in BitSeq
  BY BitsAre, ByteIs
<1>7. <<>> \o Bits(n, w) = Bits(n, w)
  BY <1>6 DEF BitSeq
<1>8. Laid(<<x>>) = Bits(n, w) /\ Size(<<x>>) = w
  <2>1. Laid(<<x>>) = Laid(<<>>) \o Bits(n, w) /\ Size(<<x>>) = Size(<<>>) + w
    BY <1>1, <1>4, Zenon DEF BitsAfter, PlaceAfter
  <2>2. Size(<<>>) + w = w
    BY NothingCalled, ByteIs
  <2> QED BY <1>7, <2>1, <2>2, NothingCalled, Zenon
<1>9. <<x>> \in Seq(CallSet) /\ Len(<<x>>) = 1 /\ <<x>>[1] = x /\ DOMAIN <<x>> = {1}
  BY <1>1
<1>10. Plain(<<x>>)
  BY <1>1, <1>9 DEF Plain
<1>11. RegisterHolds(<<x>>)
  <2>1. (Start(<<x>>, 1) % ByteBits) + w <= WordBits
    BY <1>4, <1>5, ByteIs
  <2> QED BY <1>1, <1>9, <2>1 DEF RegisterHolds
<1> QED BY <1>1, <1>3, <1>4, <1>5, <1>8, <1>9, <1>10, <1>11

(* One number of whole bytes is a piece.                                     *)
LEMMA PieceOne ==
  ASSUME NEW n \in Int, NEW w \in 1..WordBits, w % ByteBits = 0
  PROVE  Piece(Put(n, w), Bits(n, w))
BY OnePut DEF Piece

(***************************************************************************)
(* What a reader finds: a stream that holds some bits from a place on      *)
(***************************************************************************)
Finds(s, at, bits) ==
  at \in Nat /\ at + Len(bits) <= Len(s) /\ \A i \in 1..Len(bits) : s[at + i] = bits[i]

(* Bits found at a place are the field there.                                *)
LEMMA FindsField ==
  ASSUME NEW s \in BitSeq, NEW at, NEW bits \in BitSeq, NEW w, w = Len(bits), Finds(s, at, bits)
  PROVE  Has(s, at, w) /\ Field(s, at, w) = bits
<1>1. at \in Nat /\ w \in Nat /\ at + w <= Len(s) /\ \A i \in 1..w : s[at + i] = bits[i]
  BY DEF Finds, BitSeq
<1>2. Len(Field(s, at, w)) = w /\ \A k \in 1..w : Field(s, at, w)[k] = s[at + k]
  BY <1>1, FieldIs, Zenon
<1>3. Field(s, at, w) \in BitSeq
  <2>1. Len(s) \in Nat /\ Len(s) = Len(s)
    BY DEF BitSeq
  <2>2. \A k \in (at + 1)..(at + w) : s[k] \in {0, 1}
    BY <1>1, <2>1 DEF BitSeq
  <2> QED BY <1>1, <2>1, <2>2 DEF Field, BitSeq
<1>4. \A k \in 1..w : Field(s, at, w)[k] = bits[k]
  BY <1>1, <1>2, Zenon
<1>5. Field(s, at, w) = bits
  BY <1>1, <1>2, <1>3, <1>4, SameBits, Zenon
<1>6. Has(s, at, w)
  BY <1>1 DEF Has
<1> QED BY <1>5, <1>6

FindsBoth(s, at, a, b) == Finds(s, at, a) /\ Finds(s, at + Len(a), b)

(* Of two parts found together each is found.                                *)
LEMMA FindsSplit ==
  ASSUME NEW T, NEW s \in Seq(T), NEW at, NEW a \in Seq(T), NEW b \in Seq(T), Finds(s, at, a \o b)
  PROVE  FindsBoth(s, at, a, b)
<1> DEFINE m == Len(a)
           n == Len(b)
           c == a \o b
<1>1. m \in Nat /\ n \in Nat /\ Len(c) = m + n /\ Len(s) \in Nat
  OBVIOUS
<1>2. (\A i \in 1..m : c[i] = a[i]) /\ (\A i \in 1..n : c[m + i] = b[i])
  OBVIOUS
<1>3. at \in Nat /\ at + (m + n) <= Len(s) /\ \A i \in 1..(m + n) : s[at + i] = c[i]
  BY <1>1 DEF Finds
<1> HIDE DEF c, m, n
<1>4. at + m \in Nat /\ at + m <= Len(s) /\ (at + m) + n <= Len(s)
  BY <1>1, <1>3
<1>5. \A i \in 1..m : s[at + i] = a[i]
  BY <1>1, <1>2, <1>3
<1>6. \A i \in 1..n : s[(at + m) + i] = b[i]
  <2> SUFFICES ASSUME NEW i \in 1..n PROVE s[(at + m) + i] = b[i]
    OBVIOUS
  <2>1. m + i \in 1..(m + n) /\ at + (m + i) = (at + m) + i
    BY <1>1, <1>3
  <2>2. s[at + (m + i)] = c[m + i]
    BY <1>3, <2>1, Zenon
  <2> QED BY <1>2, <2>1, <2>2
<1> QED BY <1>3, <1>4, <1>5, <1>6 DEF Finds, FindsBoth, m, n

FindsEach(s, at, P) ==
  /\ \A k \in 0..Len(P) : at + Len(FlatTo(P, k)) \in Nat /\ Finds(s, at, FlatTo(P, k))
  /\ \A k \in 1..Len(P) : /\ Finds(s, at + Len(FlatTo(P, k - 1)), P[k])
                          /\ Len(FlatTo(P, k)) = Len(FlatTo(P, k - 1)) + Len(P[k])

(* Sequences one after the other are found where those before them end.       *)
LEMMA FindsInFlat ==
  ASSUME NEW T, NEW s \in Seq(T), NEW at, NEW P \in Seq(Seq(T)), Finds(s, at, FlattenSeq(P))
  PROVE  FindsEach(s, at, P)
<1> DEFINE n == Len(P)
<1>1. n \in Nat /\ at \in Nat
  BY DEF Finds
<1>2. Flats(P, T)
  BY FlatsAre
<1>3. /\ \A k \in 0..n : FlatTo(P, k) \in Seq(T)
      /\ \A k \in 1..n : FlatTo(P, k) = FlatTo(P, k - 1) \o P[k] /\ P[k] \in Seq(T)
      /\ FlatTo(P, n) = FlattenSeq(P)
  <2>1. \A k \in 1..n : P[k] \in Seq(T)
    OBVIOUS
  <2> QED BY <1>2, <2>1, Zenon DEF Flats
<1> HIDE DEF n
<1> DEFINE H == {k \in 0..n : Finds(s, at, FlatTo(P, n - k))}
<1>4. 0 \in H
  <2>1. n - 0 = n /\ 0 \in 0..n
    BY <1>1
  <2> QED BY <1>3, <2>1
<1>5. ASSUME NEW k \in 1..n, k - 1 \in H PROVE k \in H
  <2> DEFINE j == n - (k - 1)
  <2>1. j \in 1..n /\ j - 1 = n - k /\ j - 1 \in 0..n /\ k \in 0..n
    BY <1>1
  <2>2. Finds(s, at, FlatTo(P, j))
    BY <1>5
  <2> HIDE DEF j
  <2>3. FlatTo(P, j) = FlatTo(P, j - 1) \o P[j] /\ FlatTo(P, j - 1) \in Seq(T) /\ P[j] \in Seq(T)
    BY <1>3, <2>1, Zenon
  <2>4. FindsBoth(s, at, FlatTo(P, j - 1), P[j])
    BY <2>2, <2>3, FindsSplit, Zenon
  <2>5. Finds(s, at, FlatTo(P, n - k))
    BY <2>1, <2>4, Zenon DEF FindsBoth
  <2> QED BY <2>1, <2>5
<1>6. \A k \in 0..n : k \in H
  <2> HIDE DEF H
  <2> QED BY <1>1, <1>4, <1>5, CountUp, Zenon
<1>7. \A k \in 0..n : Finds(s, at, FlatTo(P, k))
  <2> SUFFICES ASSUME NEW k \in 0..n PROVE Finds(s, at, FlatTo(P, k))
    OBVIOUS
  <2>1. n - k \in 0..n /\ n - (n - k) = k
    BY <1>1
  <2>2. n - k \in H
    BY <1>6, <2>1, Zenon
  <2>3. Finds(s, at, FlatTo(P, n - (n - k)))
    BY <2>2
  <2> QED BY <2>1, <2>3
<1>8. \A k \in 1..n : FindsBoth(s, at, FlatTo(P, k - 1), P[k])
  <2> SUFFICES ASSUME NEW k \in 1..n PROVE FindsBoth(s, at, FlatTo(P, k - 1), P[k])
    OBVIOUS
  <2>1. k \in 0..n /\ k - 1 \in 0..n
    BY <1>1
  <2>2. Finds(s, at, FlatTo(P, k - 1) \o P[k])
    BY <1>3, <1>7, <2>1, Zenon
  <2> QED BY <1>3, <2>1, <2>2, FindsSplit, Zenon
<1>9. \A k \in 1..n : Len(FlatTo(P, k)) = Len(FlatTo(P, k - 1)) + Len(P[k])
  <2> SUFFICES ASSUME NEW k \in 1..n PROVE Len(FlatTo(P, k)) = Len(FlatTo(P, k - 1)) + Len(P[k])
    OBVIOUS
  <2>1. k - 1 \in 0..n
    BY <1>1
  <2>2. FlatTo(P, k - 1) \in Seq(T) /\ P[k] \in Seq(T)
    BY <1>3, <2>1, Zenon
  <2> QED BY <1>3, <2>2, ConcatProperties, Zenon
<1>10. \A k \in 0..n : at + Len(FlatTo(P, k)) \in Nat
  <2> SUFFICES ASSUME NEW k \in 0..n PROVE at + Len(FlatTo(P, k)) \in Nat
    OBVIOUS
  <2>1. Len(FlatTo(P, k)) \in Nat
    <3>1. FlatTo(P, k) \in Seq(T)
      BY <1>3, Zenon
    <3> QED BY <3>1
  <2> QED BY <1>1, <2>1
<1> QED BY <1>7, <1>8, <1>9, <1>10, Zenon DEF FindsEach, FindsBoth, n

(* Of parts found one after the other each is found where those before it    *)
(* end.                                                                      *)
LEMMA FindsFlat ==
  ASSUME NEW s \in BitSeq, NEW at, NEW P \in Seq(BitSeq), Finds(s, at, FlattenSeq(P))
  PROVE  FindsEach(s, at, P)
BY FindsInFlat, Zenon DEF BitSeq

SameWidth(P, w) == \A k \in 0..Len(P) : Len(FlatTo(P, k)) = k * w

(* Parts of one width start at its multiples.                                *)
LEMMA FlatOfOneWidth ==
  ASSUME NEW P \in Seq(BitSeq), NEW w \in Nat, \A k \in 1..Len(P) : Len(P[k]) = w
  PROVE  SameWidth(P, w)
<1> DEFINE n == Len(P)
<1>1. n \in Nat
  OBVIOUS
<1>2. Flats(P, {0, 1})
  BY FlatsAre DEF BitSeq
<1>3. /\ \A k \in 0..n : FlatTo(P, k) \in BitSeq
      /\ \A k \in 1..n : FlatTo(P, k) = FlatTo(P, k - 1) \o P[k] /\ P[k] \in BitSeq
      /\ FlatTo(P, 0) = <<>>
  <2>1. \A k \in 1..n : P[k] \in BitSeq
    OBVIOUS
  <2> QED BY <1>2, <2>1, Zenon DEF Flats, BitSeq
<1>4. \A k \in 1..n : Len(P[k]) = w
  OBVIOUS
<1> DEFINE H == {k \in 0..n : Len(FlatTo(P, k)) = k * w}
<1> HIDE DEF n
<1>5. 0 \in H
  <2>1. 0 * w = 0 /\ 0 \in 0..n /\ Len(<<>>) = 0
    BY <1>1
  <2> QED BY <1>3, <2>1
<1>6. ASSUME NEW k \in 1..n, k - 1 \in H PROVE k \in H
  <2>1. k \in 0..n /\ k - 1 \in 0..n /\ k \in Nat /\ ((k - 1) * w) + w = k * w
    BY <1>1
  <2>2. Len(FlatTo(P, k - 1)) = (k - 1) * w
    BY <1>6
  <2>3. FlatTo(P, k - 1) \in BitSeq /\ P[k] \in BitSeq /\ FlatTo(P, k) = FlatTo(P, k - 1) \o P[k]
    BY <1>3, <2>1, Zenon
  <2>4. Len(FlatTo(P, k)) = Len(FlatTo(P, k - 1)) + Len(P[k])
    BY <2>3, ConcatProperties, Zenon DEF BitSeq
  <2>5. Len(P[k]) = w
    BY <1>4
  <2>6. Len(FlatTo(P, k)) = k * w
    BY <2>1, <2>2, <2>4, <2>5, Zenon
  <2> QED BY <2>1, <2>6
<1>7. \A k \in 0..n : k \in H
  <2> HIDE DEF H
  <2> QED BY <1>1, <1>5, <1>6, CountUp, Zenon
<1> QED BY <1>7 DEF SameWidth, n

(* Numbers put with one width are found as many bits apart.                   *)
FindsNumbers(s, at, ns, w) ==
  \A k \in 1..Len(ns) : Finds(s, at + ((k - 1) * w), Bits(ns[k], w))

(* Of numbers found in w bits each, every one is found.                      *)
LEMMA FindsAll ==
  ASSUME NEW s \in BitSeq, NEW at, NEW ns \in Seq(Int), NEW w \in 0..WordBits,
         Finds(s, at, FlattenSeq(AllBits(ns, w)))
  PROVE  FindsNumbers(s, at, ns, w)
<1> DEFINE P == AllBits(ns, w)
           n == Len(ns)
<1>1. P \in Seq(BitSeq) /\ Len(P) = n /\ n \in Nat /\ \A k \in 1..n : P[k] = Bits(ns[k], w) /\ Len(P[k]) = w
  <2>1. \A k \in 1..n : Bits(ns[k], w) \in BitSeq /\ Len(Bits(ns[k], w)) = w
    BY BitsAre
  <2>2. P = [k \in 1..n |-> Bits(ns[k], w)] /\ n \in Nat
    BY DEF AllBits
  <2> HIDE DEF P, n
  <2> QED BY <2>1, <2>2
<1> HIDE DEF P
<1>2. w \in Nat
  BY ByteIs
<1>3. FindsEach(s, at, P)
  BY <1>1, FindsFlat DEF P
<1>4. SameWidth(P, w)
  BY <1>1, <1>2, FlatOfOneWidth, Zenon
<1>5. ASSUME NEW k \in 1..n PROVE Finds(s, at + ((k - 1) * w), Bits(ns[k], w))
  <2>1. k - 1 \in 0..Len(P)
    BY <1>1
  <2>2. Len(FlatTo(P, k - 1)) = (k - 1) * w
    BY <1>4, <2>1, Zenon DEF SameWidth
  <2>3. Finds(s, at + Len(FlatTo(P, k - 1)), P[k])
    BY <1>1, <1>3, Zenon DEF FindsEach
  <2> QED BY <1>1, <2>2, <2>3, Zenon
<1> QED BY <1>5 DEF FindsNumbers

(* Bits written one at a time.                                               *)
LEMMA AllSingles ==
  ASSUME NEW bits \in BitSeq
  PROVE  FlattenSeq(AllBits(bits, 1)) = bits
<1> DEFINE P == AllBits(bits, 1)
           n == Len(bits)
<1>1. 1 \in 0..WordBits /\ bits \in Seq(Int) /\ n \in Nat
  BY ByteIs DEF BitSeq
<1>2. \A k \in 1..n : Bits(bits[k], 1) = <<bits[k]>>
  <2> SUFFICES ASSUME NEW k \in 1..n PROVE Bits(bits[k], 1) = <<bits[k]>>
    OBVIOUS
  <2>1. bits[k] \in {0, 1}
    BY DEF BitSeq
  <2>2. Power[0] = 1 /\ bits[k] \div 1 = bits[k] /\ bits[k] % 2 = bits[k]
    BY <2>1, PowerIs
  <2>3. Bits(bits[k], 1) = [i \in 1..1 |-> (bits[k] \div Power[1 - i]) % 2]
    BY DEF Bits
  <2>4. \A i \in 1..1 : (bits[k] \div Power[1 - i]) % 2 = bits[k]
    <3>1. \A i \in 1..1 : 1 - i = 0
      OBVIOUS
    <3> QED BY <2>2, <3>1
  <2> DEFINE b == bits[k]
  <2>5. Bits(bits[k], 1) = [i \in 1..1 |-> b]
    BY <2>3, <2>4
  <2> HIDE DEF b
  <2>6. [i \in 1..1 |-> b] = <<b>>
    OBVIOUS
  <2> QED BY <2>5, <2>6 DEF b
<1>3. P \in Seq(BitSeq) /\ Len(P) = n /\ \A k \in 1..n : P[k] = <<bits[k]>>
  <2>1. \A k \in 1..n : Bits(bits[k], 1) \in BitSeq
    BY <1>1, BitsAre
  <2>2. P = [k \in 1..n |-> Bits(bits[k], 1)]
    BY DEF AllBits
  <2> HIDE DEF P, n
  <2> QED BY <1>1, <1>2, <2>1, <2>2
<1> HIDE DEF P
<1>4. Flats(P, {0, 1})
  BY <1>3, FlatsAre DEF BitSeq
<1> DEFINE H == {k \in 0..n : FlatTo(P, k) = SubSeq(bits, 1, k)}
<1>5. 0 \in H
  <2>1. 0 \in 0..n /\ SubSeq(bits, 1, 0) = <<>>
    BY <1>1, PrefixAll
  <2> QED BY <1>4, <2>1 DEF Flats
<1>6. ASSUME NEW k \in 1..n, k - 1 \in H PROVE k \in H
  <2>1. k \in 0..n
    BY <1>1
  <2>2. FlatTo(P, k - 1) = SubSeq(bits, 1, k - 1)
    BY <1>6
  <2>3. FlatTo(P, k) = FlatTo(P, k - 1) \o P[k] /\ P[k] = <<bits[k]>>
    BY <1>3, <1>4, Zenon DEF Flats
  <2>4. SubSeq(bits, 1, k) = SubSeq(bits, 1, k - 1) \o <<bits[k]>>
    BY PrefixNext DEF BitSeq
  <2>5. FlatTo(P, k) = SubSeq(bits, 1, k)
    BY <2>2, <2>3, <2>4, Zenon
  <2> QED BY <2>1, <2>5
<1>7. n \in H
  <2>1. n \in 0..n
    BY <1>1
  <2> HIDE DEF H, n
  <2> QED BY <1>1, <1>5, <1>6, <2>1, CountUp, Zenon
<1>8. SubSeq(bits, 1, n) = bits
  BY PrefixAll DEF BitSeq
<1> QED BY <1>3, <1>4, <1>7, <1>8 DEF Flats, P

(* An int, and a number, are read back.                                       *)
LEMMA SameInt ==
  ASSUME NEW n \in (-Power[WordBits - 1])..(Power[WordBits - 1] - 1)
  PROVE  Int32(Bits(n, WordBits)) = n
<1> DEFINE W == WordBits
           h == Power[W - 1]
           b == Bits(n, W)
<1>1. W \in Nat /\ W >= 8 /\ W - 1 \in 0..W /\ W \in 1..W /\ W \in 0..W
  BY ByteIs
<1>2. h \in Nat \ {0} /\ Power[W] = 2 * h
  BY <1>1, PowerIs, Zenon
<1>3. n \in Int /\ -h <= n /\ n < h
  BY <1>2
<1>4. b \in BitSeq /\ Len(b) = W /\ \A j \in 1..W : b[j] = Bit(n, W - j)
  BY <1>1, <1>3, BitsAre, Zenon
<1>5. b[1] = (n \div h) % 2
  <2>1. 1 \in 1..W
    BY <1>1
  <2> QED BY <1>4, <2>1, Zenon DEF Bit
<1>6. Power[Len(b)] = 2 * h
  BY <1>2, <1>4, Zenon
<1> HIDE DEF h, W
<1>7. CASE n >= 0
  <2>1. n \div h = 0
    <3>1. (0 * h + n) \div h = 0
      <4>1. n \in 0..(h - 1)
        BY <1>2, <1>3, <1>7
      <4> QED BY <1>2, <4>1, Quotients
    <3> QED BY <1>3, <3>1, <1>2
  <2>2. b[1] = 0
    BY <1>5, <2>1
  <2>3. n < Power[W] /\ n \in Nat
    BY <1>2, <1>3, <1>7
  <2>4. Num(b) = n
    BY <1>1, <2>3, SameNum DEF W
  <2> QED BY <2>2, <2>4, Zenon DEF Int32, b, W
<1>8. CASE n < 0
  <2> DEFINE m == n + (2 * h)
             c == Bits(m, W)
  <2>1. n \div h = -1
    <3>1. (((-1) * h) + (n + h)) \div h = -1
      <4>1. n + h \in 0..(h - 1)
        BY <1>2, <1>3, <1>8
      <4> QED BY <1>2, <4>1, Quotients
    <3>2. ((-1) * h) + (n + h) = n
      BY <1>2, <1>3
    <3> QED BY <3>1, <3>2
  <2>2. b[1] = 1
    BY <1>5, <2>1
  <2>3. m < Power[W] /\ m \in Nat
    BY <1>2, <1>3, <1>8
  <2>4. n % Power[W] = m
    <3>1. (((-1) * (2 * h)) + m) % (2 * h) = m
      <4>1. m \in 0..((2 * h) - 1) /\ 2 * h \in Nat \ {0}
        BY <1>2, <2>3
      <4> HIDE DEF m
      <4> QED BY <4>1, Quotients
    <3>2. ((-1) * (2 * h)) + m = n
      BY <1>2, <1>3
    <3> QED BY <1>2, <3>1, <3>2
  <2> HIDE DEF m
  <2>5. c \in BitSeq /\ Len(c) = W /\ \A j \in 1..W : c[j] = Bit(m, W - j)
    <3>1. m \in Int
      BY <2>3
    <3> QED BY <1>1, <3>1, BitsAre DEF W
  <2>6. \A j \in 1..W : b[j] = c[j]
    <3> SUFFICES ASSUME NEW j \in 1..W PROVE b[j] = c[j]
      OBVIOUS
    <3>1. W - j \in 0..(W - 1)
      BY <1>1
    <3>2. Bit(n % Power[W], W - j) = Bit(n, W - j)
      BY <1>1, <1>3, <3>1, BitLow DEF W
    <3> QED BY <1>4, <2>4, <2>5, <3>2, Zenon
  <2>7. b = c
    <3> HIDE DEF b, c
    <3> QED BY <1>1, <1>4, <2>5, <2>6, SameBits, Zenon
  <2>8. Num(c) = m
    BY <1>1, <2>3, SameNum DEF W
  <2>9. Int32(b) = Num(b) - Power[Len(b)]
    <3>1. b[1] # 0
      BY <2>2
    <3> QED BY <3>1, Zenon DEF Int32
  <2>10. Num(b) - Power[Len(b)] = n
    BY <1>2, <1>3, <1>6, <2>7, <2>8 DEF m
  <2> QED BY <2>9, <2>10, Zenon DEF b, W
<1> QED BY <1>3, <1>7, <1>8
====================================================================================
