------------------------------ MODULE Lz4Hc_proofs ------------------------------
(***************************************************************************)
(* For every source, and whatever the searches find: the parse the         *)
(* compressor arrives at keeps the rules of the format, the block fits the *)
(* buffer it is given, the decoder stays within its buffers, and what it   *)
(* accepts is the source, or of a cut block a beginning of it.             *)
(***************************************************************************)
EXTENDS Lz4Hc, SequenceTheorems, WellFoundedInduction, TLAPS

Byte == 0..ByteMax
Triple == [at : Nat, ref : Nat, len : Nat]

(* l bytes of s from a on repeat those from r on, as the format can say it.   *)
Matching(s, a, r, l) ==
  /\ a \in Nat /\ r \in Nat /\ l \in Nat /\ l >= 4
  /\ a - r \in 1..DistanceMax
  /\ \A i \in 1..l : s[a + i] = s[r + i]
  /\ a + MFLimit <= Len(s) /\ a + l + LastLiterals <= Len(s)
IsMatch(s, m) == m \in Triple /\ Matching(s, m.at, m.ref, m.len)

--------------------------------------------------------------------------------
(* The sizes.                                                                *)
LEMMA Squares ==
  /\ NibbleRange \in Nat /\ NibbleRange >= 2
  /\ ByteRange = NibbleRange * NibbleRange /\ ByteRange \in Nat /\ ByteRange >= 4
  /\ DistanceMax \in Nat /\ DistanceMax >= 1 /\ DistanceMax < ByteRange * ByteRange
<1>1. NibbleRange \in Nat /\ NibbleRange >= 2
  BY Lz4Assumption
<1>2. NibbleRange * NibbleRange \in Nat /\ NibbleRange * NibbleRange >= 2 * NibbleRange
  BY <1>1
<1>3. ByteRange * ByteRange \in Nat
  BY <1>2 DEF ByteRange
<1>4. DistanceMax \in 1..(ByteRange * ByteRange - 1)
  BY Lz4Assumption
<1>5. DistanceMax \in Nat /\ DistanceMax >= 1 /\ DistanceMax < ByteRange * ByteRange
  BY <1>3, <1>4
<1> QED
  BY <1>1, <1>2, <1>5 DEF ByteRange

LEMMA Sizes ==
  /\ NibbleRange \in Nat /\ NibbleRange >= 2
  /\ ByteRange \in Nat /\ ByteRange >= 4
  /\ ByteMax \in Nat /\ ByteMax = ByteRange - 1
  /\ RunMask \in Nat /\ RunMask = NibbleRange - 1 /\ MlMask = RunMask
  /\ MinMatch = 4 /\ OptimalMl \in Nat /\ OptimalMl = RunMask + 3
  /\ LastLiterals \in Nat /\ LastLiterals >= 1 /\ MFLimit \in Nat
  /\ MFLimit >= LastLiterals + 4
  /\ DistanceMax \in Nat /\ DistanceMax >= 1
<1>1. LastLiterals \in Nat /\ LastLiterals >= 1 /\ MFLimit \in Nat /\ MFLimit >= LastLiterals + MinMatch
  BY Lz4Assumption
<1>2. /\ NibbleRange \in Nat /\ NibbleRange >= 2 /\ ByteRange \in Nat /\ ByteRange >= 4
      /\ DistanceMax \in Nat /\ DistanceMax >= 1
  BY Squares
<1> QED
  BY <1>1, <1>2 DEF ByteMax, RunMask, MlMask, MinMatch, OptimalMl

LEMMA SmallerIs ==
  ASSUME NEW a \in Int, NEW b \in Int
  PROVE  Smaller(a, b) \in Int /\ Smaller(a, b) <= a /\ Smaller(a, b) <= b
         /\ (Smaller(a, b) = a \/ Smaller(a, b) = b)
BY DEF Smaller

(* A set of numbers has a least element, and a greatest if it is bounded.    *)
LEMMA LeastNatural ==
  ASSUME NEW S \in SUBSET Nat, S # {}
  PROVE  \E m \in S : \A k \in S : m <= k
<1> DEFINE lessThan == {p \in Nat \X Nat : p[1] < p[2]}
<1>1. IsWellFoundedOn(lessThan, Nat)
  BY NatLessThanWellFounded, Zenon DEF OpToRel
<1>2. PICK m \in S : \A k \in S : ~(<<k, m>> \in lessThan)
  BY <1>1, WFMin, Zenon
<1>3. \A k \in S : ~(k < m)
  BY <1>2
<1> QED
  BY <1>3

LEMMA LeastIs ==
  ASSUME NEW S \in SUBSET Nat, S # {}
  PROVE  Least(S) \in S /\ \A k \in S : Least(S) <= k
BY LeastNatural, Zenon DEF Least

LEMMA GreatestIs ==
  ASSUME NEW b \in Nat, NEW S \in SUBSET (0..b), S # {}
  PROVE  Greatest(S) \in S /\ \A k \in S : Greatest(S) >= k
<1> DEFINE T == {b - x : x \in S}
<1>1. T \in SUBSET Nat /\ T # {}
  <2>1. \A x \in S : b - x \in Nat
    OBVIOUS
  <2> QED BY <2>1
<1>2. PICK t \in T : \A k \in T : t <= k
  BY <1>1, LeastNatural
<1>3. PICK g \in S : t = b - g
  BY <1>2
<1>4. \A x \in S : b - g <= b - x
  BY <1>2, <1>3
<1>5. \A x \in S : g >= x
  BY <1>3, <1>4
<1> QED
  BY <1>3, <1>5, Zenon DEF Greatest

--------------------------------------------------------------------------------
(* Matches.                                                                  *)
LEMMA MatchIs ==
  ASSUME NEW s, NEW a, NEW r, NEW l, Matching(s, a, r, l)
  PROVE  /\ IsMatch(s, Match(a, r, l))
         /\ Match(a, r, l).at = a /\ Match(a, r, l).ref = r /\ Match(a, r, l).len = l
         /\ End(Match(a, r, l)) = a + l
<1>1. a \in Nat /\ r \in Nat /\ l \in Nat
  BY Zenon DEF Matching
<1>2. /\ Match(a, r, l) \in Triple
      /\ Match(a, r, l).at = a /\ Match(a, r, l).ref = r /\ Match(a, r, l).len = l
  BY <1>1 DEF Match, Triple
<1>3. Matching(s, Match(a, r, l).at, Match(a, r, l).ref, Match(a, r, l).len)
  BY <1>2
<1> QED
  BY <1>2, <1>3 DEF IsMatch, End

LEMMA MatchNumbers ==
  ASSUME NEW s, NEW m, IsMatch(s, m)
  PROVE  /\ m.at \in Nat /\ m.ref \in Nat /\ m.len \in Nat /\ m.len >= 4
         /\ m.ref < m.at /\ m.at - m.ref <= DistanceMax
         /\ End(m) = m.at + m.len /\ End(m) \in Nat
         /\ m.at + MFLimit <= Len(s) /\ End(m) + LastLiterals <= Len(s)
<1>1. Matching(s, m.at, m.ref, m.len)
  BY Zenon DEF IsMatch
<1>2. \A a, r, l : Matching(s, a, r, l) =>
        /\ a \in Nat /\ r \in Nat /\ l \in Nat /\ l >= 4
        /\ r < a /\ a - r <= DistanceMax /\ a + l \in Nat
        /\ a + MFLimit <= Len(s) /\ a + l + LastLiterals <= Len(s)
  BY Sizes DEF Matching
<1> QED
  BY <1>1, <1>2, Zenon DEF End

(* The beginning of a match is one, if it is long enough.                    *)
LEMMA PrefixMatching ==
  ASSUME NEW s, Len(s) \in Nat, NEW a, NEW r, NEW l, Matching(s, a, r, l),
         NEW k \in Nat, 4 <= k, k <= l
  PROVE  Matching(s, a, r, k)
<1>1. /\ a \in Nat /\ r \in Nat /\ l \in Nat /\ a - r \in 1..DistanceMax
      /\ a + MFLimit <= Len(s) /\ a + l + LastLiterals <= Len(s)
      /\ \A i \in 1..l : s[a + i] = s[r + i]
  BY Zenon DEF Matching
<1>2. \A i \in 1..k : i \in 1..l
  BY <1>1
<1>3. \A i \in 1..k : s[a + i] = s[r + i]
  BY <1>1, <1>2, Zenon
<1>4. a + k + LastLiterals <= Len(s)
  BY <1>1, Sizes
<1>5. k >= 4
  OBVIOUS
<1> QED
  BY <1>1, <1>3, <1>4, <1>5, Zenon DEF Matching

(* So is the rest of one, if it begins early enough.                         *)
LEMMA LaterMatching ==
  ASSUME NEW s, Len(s) \in Nat, NEW a, NEW r, NEW l, Matching(s, a, r, l),
         NEW k \in Nat, k + 4 <= l, a + k + MFLimit <= Len(s)
  PROVE  Matching(s, a + k, r + k, l - k)
<1>1. /\ a \in Nat /\ r \in Nat /\ l \in Nat /\ a - r \in 1..DistanceMax
      /\ a + MFLimit <= Len(s) /\ a + l + LastLiterals <= Len(s)
  BY Zenon DEF Matching
<1>2. \A i \in 1..(l - k) : s[a + k + i] = s[r + k + i]
  <2> SUFFICES ASSUME NEW i \in 1..(l - k) PROVE s[a + k + i] = s[r + k + i]
    OBVIOUS
  <2>1. k + i \in 1..l
    BY <1>1
  <2>2. s[a + (k + i)] = s[r + (k + i)]
    BY <2>1 DEF Matching
  <2>3. a + (k + i) = a + k + i /\ r + (k + i) = r + k + i
    BY <1>1
  <2> QED BY <2>2, <2>3, Zenon
<1>3. /\ a + k \in Nat /\ r + k \in Nat /\ l - k \in Nat /\ l - k >= 4
      /\ (a + k) - (r + k) = a - r /\ (a + k) + (l - k) = a + l
  BY <1>1
<1>4. (a + k) + MFLimit <= Len(s) /\ (a + k) + (l - k) + LastLiterals <= Len(s)
  BY <1>1, <1>3
<1> QED
  BY <1>1, <1>2, <1>3, <1>4 DEF Matching

LEMMA LaterMatches ==
  ASSUME NEW s, Len(s) \in Nat, NEW m, IsMatch(s, m), NEW k \in Nat, k + 4 <= m.len,
         m.at + k + MFLimit <= Len(s)
  PROVE  /\ IsMatch(s, Later(m, k)) /\ End(Later(m, k)) = End(m)
         /\ Later(m, k).at = m.at + k /\ Later(m, k).len = m.len - k
<1>1. Matching(s, m.at, m.ref, m.len)
  BY Zenon DEF IsMatch
<1>2. Matching(s, m.at + k, m.ref + k, m.len - k)
  BY <1>1, LaterMatching, Zenon
<1>3. m.at \in Nat /\ m.len \in Nat
  BY <1>1, Zenon DEF Matching
<1>4. (m.at + k) + (m.len - k) = m.at + m.len
  BY <1>3
<1> DEFINE l == Match(m.at + k, m.ref + k, m.len - k)
<1>5. Later(m, k) = l
  BY Zenon DEF Later
<1>6. IsMatch(s, l) /\ l.at = m.at + k /\ l.len = m.len - k /\ End(l) = (m.at + k) + (m.len - k)
  BY <1>2, MatchIs
<1>7. End(l) = End(m)
  BY <1>4, <1>6, Zenon DEF End
<1> HIDE DEF l
<1> QED
  BY <1>5, <1>6, <1>7, Zenon

(* What a search yields is a match, within its bounds and longer than asked. *)
LEMMA WiderMatches ==
  ASSUME n \in Nat, NEW p \in Nat, NEW low \in Nat, low <= p, p + MFLimit <= n,
         NEW longest \in Nat, longest >= 3, NEW m \in Wider(p, low, longest)
  PROVE  IsMatch(src, m) /\ low <= m.at /\ m.at <= p /\ m.len > longest
<1>1. PICK q \in {q \in 0..(p - 1) : p - q <= DistanceMax /\ Same(p, q, MinMatch)} :
        m = Match(p - Back(p, q, low), q - Back(p, q, low), Forward(p, q) + Back(p, q, low))
        /\ m.len > longest
  BY DEF Wider
<1>2. q \in Nat /\ q < p /\ p - q <= DistanceMax
  BY <1>1
<1> DEFINE F == {k \in 0..(matchlimit - p) : Same(p, q, k)}
           B == {k \in 0..Smaller(p - low, q) : Same(p - k, q - k, k)}
           f == Forward(p, q)
           b == Back(p, q, low)
<1>3. matchlimit - p \in Nat /\ matchlimit = n - LastLiterals
  BY Sizes DEF matchlimit
<1>4. f \in 0..(matchlimit - p) /\ Same(p, q, f)
  <2>1. 0 \in F
    BY <1>3 DEF Same
  <2>2. Greatest(F) \in F
    BY <1>3, <2>1, GreatestIs
  <2> QED BY <2>2 DEF Forward
<1>5. Smaller(p - low, q) \in Nat /\ Smaller(p - low, q) <= p - low /\ Smaller(p - low, q) <= q
  BY <1>2 DEF Smaller
<1>6. b \in 0..Smaller(p - low, q) /\ Same(p - b, q - b, b)
  <2>1. 0 \in B
    BY <1>5 DEF Same
  <2>2. Greatest(B) \in B
    BY <1>5, <2>1, GreatestIs
  <2> QED BY <2>2 DEF Back
<1> HIDE DEF f, b
<1>7. /\ f \in Nat /\ b \in Nat /\ p - b \in Nat /\ q - b \in Nat /\ f + b \in Nat
      /\ low <= p - b /\ p + f <= n - LastLiterals
  BY <1>2, <1>3, <1>4, <1>5, <1>6
<1>8. \A i \in 1..(f + b) : src[p - b + i] = src[q - b + i]
  <2> SUFFICES ASSUME NEW i \in 1..(f + b) PROVE src[p - b + i] = src[q - b + i]
    OBVIOUS
  <2>1. CASE i <= b
    <3>1. i \in 1..b
      BY <1>7, <2>1
    <3> QED BY <1>6, <3>1 DEF Same
  <2>2. CASE i > b
    <3>1. i - b \in 1..f
      BY <1>7, <2>2
    <3>2. src[p + (i - b)] = src[q + (i - b)]
      BY <1>4, <3>1 DEF Same
    <3>3. p + (i - b) = p - b + i /\ q + (i - b) = q - b + i
      BY <1>2, <1>7
    <3> QED BY <3>2, <3>3
  <2> QED BY <1>7, <2>1, <2>2
<1>9. m = Match(p - b, q - b, f + b)
  BY <1>1, Zenon DEF f, b
<1>10. f + b > longest
  BY <1>1, <1>7, <1>9 DEF Match
<1>11. Matching(src, p - b, q - b, f + b)
  <2>1. f + b >= 4 /\ (p - b) - (q - b) \in 1..DistanceMax
    BY <1>2, <1>7, <1>10, Sizes
  <2>2. (p - b) + MFLimit <= Len(src) /\ (p - b) + (f + b) + LastLiterals <= Len(src)
    BY <1>7, Sizes DEF n
  <2> QED BY <1>7, <1>8, <2>1, <2>2, Zenon DEF Matching
<1>12. p - b <= p
  BY <1>7
<1> DEFINE w == Match(p - b, q - b, f + b)
<1>13. IsMatch(src, w) /\ w.at = p - b /\ w.len = f + b
  BY <1>11, MatchIs
<1>14. m = w
  BY <1>9
<1> HIDE DEF w
<1>15. low <= w.at /\ w.at <= p /\ w.len > longest
  BY <1>7, <1>10, <1>12, <1>13
<1> QED
  BY <1>13, <1>14, <1>15, Zenon

--------------------------------------------------------------------------------
(* The corrections of overlapping matches.                                   *)
LEMMA MatchTrimmed ==
  ASSUME NEW s, Len(s) \in Nat, NEW a, IsMatch(s, a), NEW k \in Nat, 4 <= k, k <= a.len
  PROVE  /\ IsMatch(s, Match(a.at, a.ref, k)) /\ Match(a.at, a.ref, k).at = a.at
         /\ End(Match(a.at, a.ref, k)) = a.at + k
<1>1. Matching(s, a.at, a.ref, a.len)
  BY Zenon DEF IsMatch
<1>2. Matching(s, a.at, a.ref, k)
  BY <1>1, PrefixMatching, Zenon
<1> DEFINE w == Match(a.at, a.ref, k)
<1>3. IsMatch(s, w) /\ w.at = a.at /\ End(w) = a.at + k
  BY <1>2, MatchIs
<1> HIDE DEF w
<1> QED
  BY <1>3 DEF w

LEMMA FirstLengthIs ==
  ASSUME NEW s, NEW a, NEW b, IsMatch(s, a), IsMatch(s, b), a.at <= b.at, End(b) >= a.at + 8
  PROVE  /\ FirstLength(a, b) \in Nat /\ 4 <= FirstLength(a, b) /\ FirstLength(a, b) <= a.len
         /\ FirstLength(a, b) <= OptimalMl /\ FirstLength(a, b) <= b.at - a.at + b.len - 4
<1>1. /\ a.at \in Nat /\ a.len \in Nat /\ a.len >= 4 /\ b.at \in Nat /\ b.len \in Nat
      /\ End(b) = b.at + b.len
  BY MatchNumbers, Zenon
<1>2. OptimalMl \in Nat /\ OptimalMl >= 4 /\ MinMatch = 4
  BY Sizes
<1>3. \A p, q, l, k, o \in Nat : p <= q /\ q + k >= p + 8 /\ l >= 4 /\ o >= 4 =>
        /\ Smaller(Smaller(l, o), q - p + k - 4) \in Nat
        /\ 4 <= Smaller(Smaller(l, o), q - p + k - 4)
        /\ Smaller(Smaller(l, o), q - p + k - 4) <= l
        /\ Smaller(Smaller(l, o), q - p + k - 4) <= o
        /\ Smaller(Smaller(l, o), q - p + k - 4) <= q - p + k - 4
  BY DEF Smaller
<1>4. FirstLength(a, b) = Smaller(Smaller(a.len, OptimalMl), b.at - a.at + b.len - 4)
  BY Zenon DEF FirstLength, MinMatch
<1>5. b.at + b.len >= a.at + 8
  BY <1>1, Zenon
<1> DEFINE g == Smaller(Smaller(a.len, OptimalMl), b.at - a.at + b.len - 4)
<1>6. g \in Nat /\ 4 <= g /\ g <= a.len /\ g <= OptimalMl /\ g <= b.at - a.at + b.len - 4
  BY <1>1, <1>2, <1>3, <1>5, Zenon
<1> HIDE DEF g
<1>7. FirstLength(a, b) = g
  BY <1>4 DEF g
<1> QED
  BY <1>6, <1>7, Zenon

(* What the second match is after it gave up bytes to the first.             *)
LEMMA CorrectedIs ==
  ASSUME NEW s, Len(s) \in Nat, NEW a, NEW b, IsMatch(s, a), IsMatch(s, b),
         a.at <= b.at, End(b) >= a.at + 8, End(a) + MFLimit <= Len(s)
  PROVE  LET c == Corrected(a, b)
         IN  /\ IsMatch(s, c) /\ End(c) = End(b) /\ c.at >= b.at /\ c.at >= a.at + 4
             /\ c.at <= b.at \/ c.at <= End(a)
             /\ b.at > End(a) => c = b
             /\ b.at - a.at < OptimalMl => c.at >= a.at + FirstLength(a, b)
<1> DEFINE f == FirstLength(a, b)
           k == f - (b.at - a.at)
<1>1. /\ f \in Nat /\ 4 <= f /\ f <= a.len /\ f <= OptimalMl /\ f <= b.at - a.at + b.len - 4
  BY FirstLengthIs, Zenon
<1> HIDE DEF f
<1>2. /\ a.at \in Nat /\ a.len \in Nat /\ a.len >= 4 /\ b.at \in Nat /\ b.len \in Nat
      /\ End(b) = b.at + b.len /\ End(a) = a.at + a.len
  BY MatchNumbers, Zenon
<1>3. OptimalMl \in Nat /\ OptimalMl >= 4 /\ MFLimit \in Nat
  BY Sizes
<1>4. CASE b.at - a.at < OptimalMl /\ f > b.at - a.at
  <2>1. Corrected(a, b) = Later(b, k)
    BY <1>4, Zenon DEF Corrected, f
  <2>2. /\ k \in Nat /\ k + 4 <= b.len /\ b.at + k = a.at + f /\ a.at + f <= End(a)
        /\ b.at + k + MFLimit <= Len(s)
    <3>1. \A p, l, q, j, g \in Nat : g <= l /\ g <= q - p + j - 4 /\ g > q - p
            => /\ g - (q - p) \in Nat /\ g - (q - p) + 4 <= j /\ q + (g - (q - p)) = p + g
               /\ p + g <= p + l
      OBVIOUS
    <3>2. /\ k \in Nat /\ k + 4 <= b.len /\ b.at + k = a.at + f /\ a.at + f <= a.at + a.len
      BY <1>1, <1>2, <1>4, <3>1, Zenon
    <3>3. a.at + f <= End(a)
      BY <1>2, <3>2, Zenon
    <3>4. \A x, e, z \in Nat : x <= e /\ e + z <= Len(s) => x + z <= Len(s)
      OBVIOUS
    <3>5. a.at + f \in Nat /\ End(a) \in Nat
      <4>1. \A p, l \in Nat : p + l \in Nat
        OBVIOUS
      <4> QED BY <1>1, <1>2, <4>1, Zenon
    <3>6. (a.at + f) + MFLimit <= Len(s)
      BY <1>3, <3>3, <3>4, <3>5, Zenon
    <3> HIDE DEF k
    <3> QED BY <3>2, <3>3, <3>6, Zenon
  <2> HIDE DEF k
  <2>3. /\ IsMatch(s, Later(b, k)) /\ End(Later(b, k)) = End(b) /\ Later(b, k).at = b.at + k
    BY <2>2, LaterMatches
  <2> DEFINE c == Later(b, k)
  <2> HIDE DEF c
  <2>4. IsMatch(s, c) /\ End(c) = End(b) /\ c.at = b.at + k
    BY <2>3 DEF c
  <2>5. /\ c.at >= b.at /\ c.at >= a.at + 4 /\ c.at <= End(a) /\ c.at >= a.at + f
    <3>1. \A p, q, j, g, e, z : p \in Nat /\ q \in Nat /\ j \in Nat /\ g \in Nat /\ 4 <= g /\ q + j = p + g /\ p + g <= e
                             /\ z = q + j
            => z >= q /\ z >= p + 4 /\ z <= e /\ z >= p + g
      OBVIOUS
    <3> QED BY <1>1, <1>2, <2>2, <2>4, <3>1, Zenon
  <2>6. ~(b.at > End(a))
    BY <1>1, <1>2, <1>4
  <2> QED
    BY <2>1, <2>4, <2>5, <2>6, Zenon DEF c, f
<1>5. CASE ~(b.at - a.at < OptimalMl /\ f > b.at - a.at)
  <2>1. Corrected(a, b) = b
    BY <1>5, Zenon DEF Corrected, f
  <2>2. b.at >= b.at /\ b.at >= a.at + 4 /\ b.at <= b.at
    <3>1. \A p, q, g, o \in Nat : o >= 4 /\ 4 <= g /\ ~(q - p < o /\ g > q - p) => q >= q /\ q >= p + 4 /\ q <= q
      OBVIOUS
    <3> QED BY <1>1, <1>2, <1>3, <1>5, <3>1, Zenon
  <2>3. b.at - a.at < OptimalMl => b.at >= a.at + f
    BY <1>1, <1>2, <1>3, <1>5
  <2> QED
    BY <2>1, <2>2, <2>3, Zenon DEF f
<1> QED
  BY <1>4, <1>5, Zenon

LEMMA TrimmedIs ==
  ASSUME NEW s, Len(s) \in Nat, NEW a, NEW b, IsMatch(s, a), IsMatch(s, b), b.at >= a.at + 4
  PROVE  /\ IsMatch(s, Trimmed(a, b)) /\ Trimmed(a, b).at = a.at
         /\ End(Trimmed(a, b)) <= b.at /\ End(Trimmed(a, b)) <= End(a)
<1>1. /\ a.at \in Nat /\ a.len \in Nat /\ b.at \in Nat /\ End(a) = a.at + a.len
  BY MatchNumbers, Zenon
<1>2. CASE b.at < End(a)
  <2> DEFINE k == b.at - a.at
  <2>1. k \in Nat /\ 4 <= k /\ k <= a.len /\ a.at + k = b.at /\ a.at + k <= b.at /\ a.at + k <= End(a)
    BY <1>1, <1>2
  <2>2. Trimmed(a, b) = Match(a.at, a.ref, k)
    BY <1>2, Zenon DEF Trimmed
  <2> HIDE DEF k
  <2> QED
    BY <2>1, <2>2, MatchTrimmed, Zenon
<1>3. CASE ~(b.at < End(a))
  <2>1. Trimmed(a, b) = a
    BY <1>3, Zenon DEF Trimmed
  <2>2. End(a) <= b.at /\ End(a) <= End(a)
    BY <1>1, <1>3
  <2> QED
    BY <2>1, <2>2, Zenon
<1> QED
  BY <1>2, <1>3, Zenon

--------------------------------------------------------------------------------
(* The parse so far.                                                         *)
Following(s, q) ==
  /\ q \in Seq(Triple)
  /\ \A i \in 1..Len(q) : IsMatch(s, q[i])
  /\ \A i \in 2..Len(q) : End(q[i - 1]) <= q[i].at
EndOf(q) == IF q = <<>> THEN 0 ELSE End(Last(q))

LEMMA EndOfIs ==
  ASSUME NEW s, NEW q, Following(s, q)
  PROVE  EndOf(q) \in Nat /\ (q # <<>> => Len(q) \in 1..Len(q) /\ EndOf(q) = End(q[Len(q)]))
<1>1. CASE q = <<>>
  BY <1>1 DEF EndOf
<1>2. CASE q # <<>>
  <2>1. q \in Seq(Triple) /\ Len(q) \in Nat
    BY DEF Following
  <2>2. Len(q) \in 1..Len(q)
    BY <1>2, <2>1, EmptySeq
  <2>3. EndOf(q) = End(q[Len(q)])
    BY <1>2, Zenon DEF EndOf, Last
  <2>4. IsMatch(s, q[Len(q)])
    BY <2>2, Zenon DEF Following
  <2>5. End(q[Len(q)]) \in Nat
    BY <2>4, MatchNumbers, Zenon
  <2> QED
    BY <1>2, <2>2, <2>3, <2>5, Zenon
<1> QED
  BY <1>1, <1>2, Zenon

LEMMA OneMore ==
  ASSUME NEW s, NEW q, Following(s, q), NEW m, IsMatch(s, m), EndOf(q) <= m.at
  PROVE  Following(s, Append(q, m)) /\ EndOf(Append(q, m)) = End(m)
<1>1. q \in Seq(Triple) /\ m \in Triple /\ Len(q) \in Nat
  BY DEF Following, IsMatch
<1> DEFINE p == Append(q, m)
<1>2. /\ p \in Seq(Triple) /\ Len(p) = Len(q) + 1 /\ p[Len(q) + 1] = m
      /\ \A i \in 1..Len(q) : p[i] = q[i]
  BY <1>1
<1>3. p # <<>>
  BY <1>1, <1>2
<1> HIDE DEF p
<1>4. \A i \in 1..Len(p) : IsMatch(s, p[i])
  <2> SUFFICES ASSUME NEW i \in 1..Len(p) PROVE IsMatch(s, p[i])
    OBVIOUS
  <2>1. CASE i = Len(q) + 1
    BY <1>2, <2>1, Zenon
  <2>2. CASE i # Len(q) + 1
    <3>1. i \in 1..Len(q)
      BY <1>1, <1>2, <2>2
    <3> QED BY <1>2, <3>1, Zenon DEF Following
  <2> QED BY <2>1, <2>2, Zenon
<1>5. \A i \in 2..Len(p) : End(p[i - 1]) <= p[i].at
  <2> SUFFICES ASSUME NEW i \in 2..Len(p) PROVE End(p[i - 1]) <= p[i].at
    OBVIOUS
  <2>0. i - 1 \in 1..Len(q)
    BY <1>1, <1>2
  <2>1. CASE i = Len(q) + 1
    <3>1. q # <<>> /\ i - 1 = Len(q)
      BY <1>1, <2>0, <2>1
    <3>2. EndOf(q) = End(q[Len(q)])
      BY <3>1, EndOfIs, Zenon
    <3>3. p[i] = m /\ p[i - 1] = q[Len(q)]
      BY <1>2, <2>0, <2>1, <3>1, Zenon
    <3> QED BY <3>2, <3>3, Zenon
  <2>2. CASE i # Len(q) + 1
    <3>1. i \in 2..Len(q) /\ i \in 1..Len(q)
      BY <1>1, <1>2, <2>2
    <3>2. End(q[i - 1]) <= q[i].at
      BY <3>1, Zenon DEF Following
    <3>3. p[i] = q[i] /\ p[i - 1] = q[i - 1]
      BY <1>2, <2>0, <3>1, Zenon
    <3> QED BY <3>2, <3>3, Zenon
  <2> QED BY <2>1, <2>2, Zenon
<1>6. Following(s, p)
  BY <1>2, <1>4, <1>5, Zenon DEF Following
<1>7. EndOf(p) = End(m)
  BY <1>2, <1>3, Zenon DEF EndOf, Last
<1> QED
  BY <1>6, <1>7, Zenon DEF p

--------------------------------------------------------------------------------
(* The compressor's matches where it starts a search (e is where the last     *)
(* match written ends): no match; one, and the one first found; two.         *)
Main(s, e, a) == a = Cursor(a.at) /\ a.at \in Nat /\ e <= a.at /\ a.at <= Len(s)
Two(s, e, z, a) ==
  /\ IsMatch(s, z) /\ IsMatch(s, a)
  /\ e <= z.at /\ z.at <= a.at /\ a.at <= z.at + 2
  /\ z = a \/ (End(z) + MFLimit <= Len(s) /\ a.len > 4)
Three(s, e, a, b) ==
  /\ IsMatch(s, a) /\ IsMatch(s, b)
  /\ e <= a.at /\ End(a) + MFLimit <= Len(s) /\ a.at <= b.at /\ End(b) >= a.at + 8
  /\ b.at <= End(a) \/ (b.at = End(a) + 1 /\ b.len >= 6)

Steering ==
  /\ src \in Sources /\ Following(src, parse)
  /\ stage = "main" => Main(src, EndOf(parse), m1)
  /\ stage = "search2" => Two(src, EndOf(parse), m0, m1)
  /\ stage = "search3" => Three(src, EndOf(parse), m1, m2)

LEMMA SourceIs ==
  ASSUME src \in Sources
  PROVE  src \in Seq(Byte) /\ n \in Nat /\ n = Len(src) /\ mflimit = n - MFLimit
BY Lz4Assumption DEF n, mflimit, Byte

LEMMA AnchorIs == anchor = EndOf(parse)
BY Zenon DEF anchor, EndOf

(* What _Search2 finds.                                                      *)
LEMMA SecondIs ==
  ASSUME src \in Sources, IsMatch(src, m1), NEW m \in Second
  PROVE  /\ IsMatch(src, m) /\ m1.at <= m.at /\ m.at <= End(m1) - 2 /\ m.len > m1.len
         /\ End(m1) + MFLimit <= n
<1>1. n \in Nat /\ n = Len(src) /\ mflimit = n - MFLimit
  BY SourceIs
<1>2. /\ m1.at \in Nat /\ m1.len \in Nat /\ m1.len >= 4 /\ End(m1) = m1.at + m1.len
      /\ End(m1) \in Nat
  BY MatchNumbers, Zenon
<1>3. End(m1) <= mflimit /\ m \in Wider(End(m1) - 2, m1.at, m1.len)
  BY DEF Second
<1>4. \A a, l, e, z, k, f \in Nat : e = a + l /\ l >= 4 /\ e <= k - f =>
        e - 2 \in Nat /\ a <= e - 2 /\ e - 2 + f <= k /\ e + f <= k /\ l >= 3
  OBVIOUS
<1>5. MFLimit \in Nat
  BY Sizes
<1>6. /\ End(m1) - 2 \in Nat /\ m1.at <= End(m1) - 2 /\ End(m1) - 2 + MFLimit <= n
      /\ End(m1) + MFLimit <= n /\ m1.len >= 3
  BY <1>1, <1>2, <1>3, <1>4, <1>5, Zenon
<1> QED
  BY <1>1, <1>2, <1>3, <1>6, WiderMatches, Zenon

(* What _Search3 works with, and what it finds.                              *)
LEMMA CorrectedSecond ==
  ASSUME src \in Sources, NEW e, Three(src, e, m1, m2)
  PROVE  /\ IsMatch(src, second) /\ End(second) = End(m2)
         /\ second.at >= m2.at /\ second.at >= m1.at + 4 /\ second.at <= End(m1) + 1
         /\ second.at > End(m1) => second.len >= 6
<1>1. /\ IsMatch(src, m1) /\ IsMatch(src, m2) /\ m1.at <= m2.at /\ End(m2) >= m1.at + 8
      /\ End(m1) + MFLimit <= Len(src)
      /\ m2.at <= End(m1) \/ (m2.at = End(m1) + 1 /\ m2.len >= 6)
  BY Zenon DEF Three
<1>2. Len(src) \in Nat
  BY SourceIs
<1>3. /\ IsMatch(src, second) /\ End(second) = End(m2) /\ second.at >= m2.at
      /\ second.at >= m1.at + 4
      /\ second.at <= m2.at \/ second.at <= End(m1)
      /\ m2.at > End(m1) => second = m2
  BY <1>1, <1>2, CorrectedIs, Zenon DEF second
<1>4. /\ second.at \in Nat /\ m2.at \in Nat /\ End(m1) \in Nat
  BY <1>1, <1>3, MatchNumbers, Zenon
<1>5. second.at <= End(m1) + 1
  BY <1>1, <1>3, <1>4
<1>6. second.at > End(m1) => m2.at > End(m1)
  BY <1>3, <1>4
<1>7. m2.at > End(m1) => m2.len >= 6
  BY <1>1, <1>4
<1>8. ASSUME second.at > End(m1) PROVE second.len >= 6
  <2>1. second = m2 /\ m2.len >= 6
    BY <1>3, <1>6, <1>7, <1>8, Zenon
  <2> QED BY <2>1
<1> QED
  BY <1>3, <1>5, <1>8, Zenon

LEMMA ThirdIs ==
  ASSUME src \in Sources, IsMatch(src, second), NEW m \in Third
  PROVE  /\ IsMatch(src, m) /\ second.at <= m.at /\ m.at <= End(second) - 3 /\ m.len > second.len
         /\ End(second) + MFLimit <= n
<1>1. n \in Nat /\ n = Len(src) /\ mflimit = n - MFLimit
  BY SourceIs
<1>2. /\ second.at \in Nat /\ second.len \in Nat /\ second.len >= 4
      /\ End(second) = second.at + second.len /\ End(second) \in Nat
  BY MatchNumbers, Zenon
<1>3. End(second) <= mflimit /\ m \in Wider(End(second) - 3, second.at, second.len)
  BY DEF Third
<1>4. \A a, l, e, k, f \in Nat : e = a + l /\ l >= 4 /\ e <= k - f =>
        e - 3 \in Nat /\ a <= e - 3 /\ e - 3 + f <= k /\ e + f <= k /\ l >= 3
  OBVIOUS
<1>5. MFLimit \in Nat
  BY Sizes
<1>6. /\ End(second) - 3 \in Nat /\ second.at <= End(second) - 3 /\ End(second) - 3 + MFLimit <= n
      /\ End(second) + MFLimit <= n /\ second.len >= 3
  BY <1>1, <1>2, <1>3, <1>4, <1>5, Zenon
<1> QED
  BY <1>1, <1>2, <1>3, <1>6, WiderMatches, Zenon

--------------------------------------------------------------------------------
(* The numbers of each step.                                                 *)
LEMMA SecondNear ==
  ASSUME src \in Sources, NEW e \in Nat, Two(src, e, m0, m1), NEW m \in Second,
         m.at - Kept(m).at < 3
  PROVE  Two(src, e, m0, m)
<1>1. /\ IsMatch(src, m0) /\ IsMatch(src, m1) /\ e <= m0.at /\ m0.at <= m1.at /\ m1.at <= m0.at + 2
      /\ m0 = m1 \/ (End(m0) + MFLimit <= Len(src) /\ m1.len > 4)
  BY Zenon DEF Two
<1>2. /\ IsMatch(src, m) /\ m1.at <= m.at /\ m.len > m1.len /\ End(m1) + MFLimit <= Len(src)
  BY <1>1, SecondIs, SourceIs, Zenon
<1>3. /\ m0.at \in Nat /\ m1.at \in Nat /\ m.at \in Nat /\ m0.len \in Nat /\ m0.len >= 4
      /\ m1.len \in Nat /\ m1.len >= 4 /\ m.len \in Nat
  BY <1>1, <1>2, MatchNumbers, Zenon
<1>4. m0.at <= m.at
  BY <1>1, <1>2, <1>3
<1>5. m.len > 4
  BY <1>2, <1>3
<1>6. End(m0) + MFLimit <= Len(src)
  BY <1>1, <1>2, Zenon
<1>7. m.at <= m0.at + 2
  <2>1. CASE m0.at < m1.at /\ m.at < m1.at + m0.len
    <3>1. Kept(m) = m0
      BY <2>1, Zenon DEF Kept
    <3>2. m.at - m0.at < 3
      BY <3>1, Zenon
    <3> QED BY <1>3, <3>2
  <2>2. CASE ~(m0.at < m1.at /\ m.at < m1.at + m0.len)
    <3>1. Kept(m) = m1
      BY <2>2, Zenon DEF Kept
    <3>2. m.at - m1.at < 3
      BY <3>1, Zenon
    <3>3. \A x, y, z, l \in Nat : x <= y /\ ~(x < y /\ z < y + l) /\ z - y < 3 /\ l >= 4 => z <= x + 2
      OBVIOUS
    <3> QED BY <1>1, <1>3, <2>2, <3>2, <3>3, Zenon
  <2> QED BY <2>1, <2>2, Zenon
<1> QED
  BY <1>1, <1>2, <1>4, <1>5, <1>6, <1>7, Zenon DEF Two

LEMMA SecondFar ==
  ASSUME src \in Sources, NEW e \in Nat, Two(src, e, m0, m1), NEW m \in Second,
         m.at - Kept(m).at >= 3
  PROVE  Three(src, e, Kept(m), m)
<1>1. /\ IsMatch(src, m0) /\ IsMatch(src, m1) /\ e <= m0.at /\ m0.at <= m1.at /\ m1.at <= m0.at + 2
      /\ m0 = m1 \/ (End(m0) + MFLimit <= Len(src) /\ m1.len > 4)
  BY Zenon DEF Two
<1>2. /\ IsMatch(src, m) /\ m1.at <= m.at /\ m.at <= End(m1) - 2 /\ m.len > m1.len
      /\ End(m1) + MFLimit <= Len(src)
  BY <1>1, SecondIs, SourceIs, Zenon
<1>3. /\ m0.at \in Nat /\ m1.at \in Nat /\ m.at \in Nat /\ m0.len \in Nat /\ m0.len >= 4
      /\ m1.len \in Nat /\ m1.len >= 4 /\ m.len \in Nat
      /\ End(m0) = m0.at + m0.len /\ End(m) = m.at + m.len /\ End(m1) \in Nat /\ End(m0) \in Nat
  BY <1>1, <1>2, MatchNumbers, Zenon
<1>4. CASE m0.at < m1.at /\ m.at < m1.at + m0.len
  <2>1. Kept(m) = m0
    BY <1>4, Zenon DEF Kept
  <2>2. m.at - m0.at >= 3
    BY <2>1, Zenon
  <2>3. m0 # m1
    BY <1>3, <1>4
  <2>4. End(m0) + MFLimit <= Len(src) /\ m1.len > 4
    BY <1>1, <2>3, Zenon
  <2>5. m0.at <= m.at /\ m.len >= 6
    <3>1. \A x, y, z \in Nat : x <= y /\ y <= z => x <= z
      OBVIOUS
    <3>2. \A l, k \in Nat : l > 4 /\ k > l => k >= 6
      OBVIOUS
    <3>3. m0.at <= m.at
      BY <1>1, <1>2, <1>3, <3>1, Zenon
    <3>4. m.len >= 6
      BY <1>2, <1>3, <2>4, <3>2, Zenon
    <3> QED BY <3>3, <3>4, Zenon
  <2>6. \A x, y, z, l, k \in Nat : y <= x + 2 /\ z < y + l /\ z - x >= 3 /\ k >= 6 =>
           /\ z + k >= x + 8
           /\ z <= x + l \/ z = (x + l) + 1
    OBVIOUS
  <2>7. m.at + m.len >= m0.at + 8 /\ (m.at <= m0.at + m0.len \/ m.at = (m0.at + m0.len) + 1)
    BY <1>1, <1>3, <1>4, <2>2, <2>5, <2>6, Zenon
  <2>8. End(m) >= m0.at + 8 /\ (m.at <= End(m0) \/ m.at = End(m0) + 1)
    BY <1>3, <2>7, Zenon
  <2> QED
    BY <1>1, <1>2, <2>1, <2>4, <2>5, <2>8, Zenon DEF Three
<1>5. CASE ~(m0.at < m1.at /\ m.at < m1.at + m0.len)
  <2>1. Kept(m) = m1
    BY <1>5, Zenon DEF Kept
  <2>2. m.at - m1.at >= 3
    BY <2>1, Zenon
  <2>3. e <= m1.at
    BY <1>1, <1>3
  <2>4. \A x, z, l, k, d \in Nat : z - x >= 3 /\ l >= 4 /\ k > l /\ z <= d - 2 => z + k >= x + 8 /\ z <= d
    OBVIOUS
  <2>5. m.at + m.len >= m1.at + 8 /\ m.at <= End(m1)
    BY <1>2, <1>3, <2>2, <2>4, Zenon
  <2>6. End(m) >= m1.at + 8
    BY <1>3, <2>5, Zenon
  <2> QED
    BY <1>1, <1>2, <2>1, <2>3, <2>5, <2>6, Zenon DEF Three
<1> QED
  BY <1>4, <1>5, Zenon

(* The third match takes the place of the second.                            *)
LEMMA ThirdInFirst ==
  ASSUME src \in Sources, NEW e \in Nat, Three(src, e, m1, m2), NEW m \in Third, m.at < End(m1)
  PROVE  Three(src, e, m1, m)
<1>1. /\ IsMatch(src, m1) /\ e <= m1.at /\ End(m1) + MFLimit <= Len(src)
  BY Zenon DEF Three
<1>2. IsMatch(src, second) /\ second.at >= m1.at + 4
  BY CorrectedSecond, Zenon
<1>3. IsMatch(src, m) /\ second.at <= m.at /\ m.len > second.len
  BY <1>2, ThirdIs, Zenon
<1>4. /\ m1.at \in Nat /\ m.at \in Nat /\ m.len \in Nat /\ second.at \in Nat /\ m.len >= 4
      /\ End(m) = m.at + m.len /\ End(m1) \in Nat
  BY <1>1, <1>2, <1>3, MatchNumbers, Zenon
<1>5. \A x, y, z, k \in Nat : y >= x + 4 /\ y <= z /\ k >= 4 => x <= z /\ z + k >= x + 8
  OBVIOUS
<1>6. m1.at <= m.at /\ m.at + m.len >= m1.at + 8
  BY <1>2, <1>3, <1>4, <1>5, Zenon
<1>7. m.at <= End(m1)
  BY <1>4
<1>8. End(m) >= m1.at + 8
  BY <1>4, <1>6, Zenon
<1> QED
  BY <1>1, <1>3, <1>6, <1>7, <1>8, Zenon DEF Three

(* The first is written; what it leaves of the second is m0.                  *)
LEMMA ThirdNext ==
  ASSUME src \in Sources, NEW e \in Nat, Three(src, e, m1, m2), NEW m \in Third,
         m.at >= End(m1), m.at < End(m1) + 3, NEW z,
         NEW cut, cut = Smaller(0, second.at - End(m1)),
         z = IF cut < 0 /\ second.len + cut < MinMatch THEN m ELSE Later(second, -cut)
  PROVE  Two(src, End(m1), z, m)
<1>1. /\ IsMatch(src, m1) /\ End(m1) + MFLimit <= Len(src)
  BY Zenon DEF Three
<1>2. IsMatch(src, second) /\ second.at >= m1.at + 4
  BY CorrectedSecond, Zenon
<1>3. /\ IsMatch(src, m) /\ second.at <= m.at /\ m.len > second.len /\ End(second) + MFLimit <= Len(src)
  BY <1>2, ThirdIs, SourceIs, Zenon
<1>4. /\ m.at \in Nat /\ m.len \in Nat /\ second.at \in Nat /\ second.len \in Nat /\ second.len >= 4
      /\ End(m1) \in Nat /\ MFLimit \in Nat /\ Len(src) \in Nat /\ second.at + MFLimit <= Len(src)
      /\ End(m) = m.at + m.len
  BY <1>1, <1>2, <1>3, MatchNumbers, SourceIs, Sizes, Zenon
<1>5. m.len > 4
  BY <1>3, <1>4
<1>6. CASE cut < 0 /\ second.len + cut < MinMatch
  <2>1. z = m
    BY <1>6, Zenon
  <2>2. m.at <= m.at /\ m.at <= m.at + 2
    BY <1>4
  <2> QED BY <1>3, <2>1, <2>2, Zenon DEF Two
<1>7. CASE ~(cut < 0 /\ second.len + cut < MinMatch)
  <2>1. z = Later(second, -cut)
    BY <1>7, Zenon
  <2>2. \A x, l, d \in Nat : l >= 4 /\ cut = Smaller(0, x - d) /\ ~(cut < 0 /\ l + cut < 4) =>
           /\ -cut \in Nat /\ -cut + 4 <= l /\ d <= x + (-cut) /\ (x + (-cut) = d \/ x + (-cut) = x)
    BY DEF Smaller
  <2> DEFINE k == -cut
  <2>3. /\ k \in Nat /\ k + 4 <= second.len /\ End(m1) <= second.at + k
        /\ second.at + k = End(m1) \/ second.at + k = second.at
    BY <1>4, <1>7, <2>2, Zenon DEF MinMatch
  <2> HIDE DEF k
  <2>4. second.at + k + MFLimit <= Len(src)
    BY <1>1, <1>4, <2>3, Zenon
  <2>5. /\ IsMatch(src, Later(second, k)) /\ End(Later(second, k)) = End(second)
        /\ Later(second, k).at = second.at + k
    BY <1>2, <1>4, <2>3, <2>4, LaterMatches
  <2>6. z = Later(second, k)
    BY <2>1, Zenon DEF k
  <2> DEFINE w == Later(second, k)
  <2>7. IsMatch(src, w) /\ End(w) = End(second) /\ w.at = second.at + k /\ z = w
    BY <2>5, <2>6
  <2> HIDE DEF w
  <2>8. \A x, d, y, k0 \in Nat : d <= x + k0 /\ (x + k0 = d \/ x + k0 = x) /\ x <= y /\ d <= y /\ y < d + 3
           => x + k0 <= y /\ y <= (x + k0) + 2
    OBVIOUS
  <2>9. second.at + k <= m.at /\ m.at <= (second.at + k) + 2
    BY <1>3, <1>4, <2>3, <2>8
  <2>10. End(m1) <= w.at /\ w.at <= m.at /\ m.at <= w.at + 2
    BY <2>3, <2>7, <2>9, Zenon
  <2> QED
    BY <1>3, <1>5, <2>7, <2>10, Zenon DEF Two
<1> QED
  BY <1>6, <1>7, Zenon

(* The three ascend: the first is written to where the second begins, or the  *)
(* second is corrected once more.                                            *)
LEMMA ThirdAfterSecond ==
  ASSUME src \in Sources, NEW e \in Nat, Three(src, e, m1, m2), NEW m \in Third, m.at >= End(m1) + 3,
         NEW c, IsMatch(src, c), End(c) = End(second), c.at <= End(m1) \/ c = second,
         NEW d, d <= c.at
  PROVE  Three(src, d, c, m)
<1>1. /\ IsMatch(src, second) /\ second.at <= End(m1) + 1
      /\ second.at > End(m1) => second.len >= 6
  BY CorrectedSecond, Zenon
<1>2. /\ IsMatch(src, m) /\ second.at <= m.at /\ m.at <= End(second) - 3 /\ m.len > second.len
      /\ End(second) + MFLimit <= Len(src)
  BY <1>1, ThirdIs, SourceIs, Zenon
<1>3. IsMatch(src, m1)
  BY Zenon DEF Three
<1>4. /\ m.at \in Nat /\ m.len \in Nat /\ second.at \in Nat /\ second.len \in Nat /\ second.len >= 4
      /\ End(m1) \in Nat /\ c.at \in Nat /\ End(m) = m.at + m.len /\ End(second) \in Nat
  BY <1>1, <1>2, <1>3, MatchNumbers, Zenon
<1>5. m.at <= End(c)
  BY <1>2, <1>4
<1>6. \A x, y, f, k, l \in Nat : y >= f + 3 /\ k > l /\ l >= 4 /\ (x <= f \/ (x <= f + 1 /\ l >= 6)) =>
        x <= y /\ y + k >= x + 8
  OBVIOUS
<1>7. c.at <= End(m1) \/ (c.at <= End(m1) + 1 /\ second.len >= 6)
  <2>1. CASE c.at <= End(m1)
    BY <2>1, Zenon
  <2>2. CASE ~(c.at <= End(m1))
    <3>1. c = second
      BY <2>2, Zenon
    <3>2. second.at > End(m1)
      BY <1>4, <2>2, <3>1
    <3> QED BY <1>1, <3>1, <3>2, Zenon
  <2> QED BY <2>1, <2>2, Zenon
<1>8. c.at <= m.at /\ m.at + m.len >= c.at + 8
  BY <1>2, <1>4, <1>6, <1>7, Zenon
<1>9. End(m) >= c.at + 8 /\ End(c) + MFLimit <= Len(src)
  BY <1>2, <1>4, <1>8, Zenon
<1> QED
  BY <1>2, <1>5, <1>8, <1>9, Zenon DEF Three

--------------------------------------------------------------------------------
(* One step of the compressor.                                               *)
LEMMA SteeringFirst ==
  ASSUME Steering, FindFirst \/ FindNone
  PROVE  Steering'
<1>1. /\ src \in Sources /\ Following(src, parse) /\ stage = "main" /\ m1.at <= mflimit
      /\ Main(src, EndOf(parse), m1)
  BY Zenon DEF Steering, FindFirst, FindNone, Searching
<1>2. src' = src /\ parse' = parse
  BY Zenon DEF FindFirst, FindNone
<1>3. /\ EndOf(parse) \in Nat /\ n \in Nat /\ n = Len(src) /\ mflimit = n - MFLimit
      /\ MFLimit \in Nat /\ MFLimit >= 1 /\ m1.at \in Nat /\ EndOf(parse) <= m1.at
  <2>1. MFLimit \in Nat /\ MFLimit >= 1
    BY Sizes
  <2> QED BY <1>1, <2>1, EndOfIs, SourceIs, Zenon DEF Main
<1>4. \A a, k, f \in Nat : f >= 1 /\ a <= k - f =>
        a <= a /\ a + f <= k /\ a + 1 \in Nat /\ a + 1 <= k
  OBVIOUS
<1>5. m1.at <= m1.at /\ m1.at + MFLimit <= n /\ m1.at + 1 <= n /\ m1.at + 1 \in Nat
  BY <1>1, <1>3, <1>4, Zenon
<1>6. CASE FindFirst
  <2>1. PICK m \in First : m1' = m /\ m0' = m
    BY <1>6, Zenon DEF FindFirst
  <2>2. stage' = "search2"
    BY <1>6, Zenon DEF FindFirst
  <2>3. m \in Wider(m1.at, m1.at, 3)
    BY <2>1 DEF First, MinMatch
  <2>4. IsMatch(src, m) /\ m1.at <= m.at /\ m.at <= m1.at
    <3>1. 3 \in Nat /\ 3 >= 3
      OBVIOUS
    <3> QED BY <1>3, <1>5, <2>3, <3>1, WiderMatches, Zenon
  <2>5. m.at \in Nat
    BY <2>4, MatchNumbers, Zenon
  <2>6. \A e, a, b \in Nat : e <= a /\ a <= b => e <= b /\ b <= b /\ b <= b + 2
    OBVIOUS
  <2>7. EndOf(parse) <= m.at /\ m.at <= m.at /\ m.at <= m.at + 2
    BY <1>3, <2>4, <2>5, <2>6, Zenon
  <2>8. Two(src, EndOf(parse), m, m)
    BY <2>4, <2>7, Zenon DEF Two
  <2> QED BY <1>1, <1>2, <2>1, <2>2, <2>8, Zenon DEF Steering
<1>7. CASE FindNone
  <2>1. m1' = Cursor(m1.at + 1) /\ stage' = "main"
    BY <1>1, <1>7, Zenon DEF FindNone
  <2> DEFINE c == Cursor(m1.at + 1)
  <2>2. c.at = m1.at + 1
    BY DEF Cursor, Match
  <2>3. m1' = c
    BY <2>1
  <2>4. c = Cursor(c.at)
    BY <2>2
  <2> HIDE DEF c
  <2>5. \A e, a \in Nat : e <= a => e <= a + 1
    OBVIOUS
  <2>6. EndOf(parse) <= m1.at + 1
    BY <1>3, <2>5, Zenon
  <2>7. Main(src, EndOf(parse), c)
    BY <1>3, <1>5, <2>2, <2>4, <2>6, Zenon DEF Main
  <2> QED BY <1>1, <1>2, <2>1, <2>3, <2>7, Zenon DEF Steering
<1> QED
  BY <1>6, <1>7, Zenon

(* Where the compressor goes on when a match is written.                     *)
LEMMA MainAfter ==
  ASSUME NEW s, Len(s) \in Nat, NEW q, Following(s, q), NEW m, IsMatch(s, m), EndOf(q) <= m.at
  PROVE  Following(s, Append(q, m)) /\ Main(s, EndOf(Append(q, m)), Cursor(End(m)))
<1>1. Following(s, Append(q, m)) /\ EndOf(Append(q, m)) = End(m)
  BY OneMore, Zenon
<1>2. End(m) \in Nat /\ End(m) + LastLiterals <= Len(s) /\ LastLiterals \in Nat
  BY MatchNumbers, Sizes, Zenon
<1>3. End(m) <= End(m) /\ End(m) <= Len(s)
  BY <1>2
<1> DEFINE c == Cursor(End(m))
<1>4. c.at = End(m)
  BY DEF Cursor, Match
<1>5. c = Cursor(c.at)
  BY <1>4
<1> HIDE DEF c
<1>6. Main(s, EndOf(Append(q, m)), c)
  BY <1>1, <1>2, <1>3, <1>4, <1>5, Zenon DEF Main
<1> QED
  BY <1>1, <1>6, Zenon DEF c

LEMMA SteeringSecond ==
  ASSUME Steering, EncodeFirst \/ SecondReplaces \/ SecondFollows
  PROVE  Steering'
<1>1. /\ src \in Sources /\ Following(src, parse) /\ stage = "search2"
      /\ Two(src, EndOf(parse), m0, m1)
  BY Zenon DEF Steering, EncodeFirst, SecondReplaces, SecondFollows
<1>2. src' = src
  BY Zenon DEF EncodeFirst, SecondReplaces, SecondFollows
<1>3. EndOf(parse) \in Nat /\ Len(src) \in Nat
  BY <1>1, EndOfIs, SourceIs, Zenon
<1>4. CASE EncodeFirst
  <2>1. m1' = Cursor(End(m1)) /\ stage' = "main" /\ parse' = Append(parse, m1)
    BY <1>4, Zenon DEF EncodeFirst, Encode
  <2>2. /\ IsMatch(src, m0) /\ IsMatch(src, m1) /\ EndOf(parse) <= m0.at /\ m0.at <= m1.at
    BY <1>1, Zenon DEF Two
  <2>3. m0.at \in Nat /\ m1.at \in Nat
    BY <2>2, MatchNumbers, Zenon
  <2>4. EndOf(parse) <= m1.at
    BY <1>3, <2>2, <2>3
  <2>5. Following(src, Append(parse, m1)) /\ Main(src, EndOf(Append(parse, m1)), Cursor(End(m1)))
    BY <1>1, <1>3, <2>2, <2>4, MainAfter, Zenon
  <2> QED BY <1>1, <1>2, <2>1, <2>5, Zenon DEF Steering
<1>5. CASE SecondReplaces
  <2>1. PICK m \in Second : m.at - Kept(m).at < 3 /\ m1' = m
    BY <1>5, Zenon DEF SecondReplaces
  <2>2. stage' = stage /\ m0' = m0 /\ parse' = parse
    BY <1>5, Zenon DEF SecondReplaces
  <2>3. Two(src, EndOf(parse), m0, m)
    BY <1>1, <1>3, <2>1, SecondNear, Zenon
  <2> QED BY <1>1, <1>2, <2>1, <2>2, <2>3, Zenon DEF Steering
<1>6. CASE SecondFollows
  <2>1. PICK m \in Second : m.at - Kept(m).at >= 3 /\ m1' = Kept(m) /\ m2' = m
    BY <1>6, Zenon DEF SecondFollows
  <2>2. stage' = "search3" /\ parse' = parse
    BY <1>6, Zenon DEF SecondFollows
  <2>3. Three(src, EndOf(parse), Kept(m), m)
    BY <1>1, <1>3, <2>1, SecondFar, Zenon
  <2> QED BY <1>1, <1>2, <2>1, <2>2, <2>3, Zenon DEF Steering
<1> QED
  BY <1>4, <1>5, <1>6, Zenon

(* The first match, cut to where the second begins, can be written.          *)
LEMMA TrimmedFirst ==
  ASSUME src \in Sources, NEW e \in Nat, Three(src, e, m1, m2)
  PROVE  /\ IsMatch(src, Trimmed(m1, second)) /\ e <= Trimmed(m1, second).at
         /\ End(Trimmed(m1, second)) <= second.at
<1>1. IsMatch(src, m1) /\ e <= m1.at /\ IsMatch(src, second) /\ second.at >= m1.at + 4
  BY CorrectedSecond, Zenon DEF Three
<1>2. Len(src) \in Nat
  BY SourceIs, Zenon
<1>3. /\ IsMatch(src, Trimmed(m1, second)) /\ Trimmed(m1, second).at = m1.at
      /\ End(Trimmed(m1, second)) <= second.at
  BY <1>1, <1>2, TrimmedIs, Zenon
<1>4. e <= Trimmed(m1, second).at
  BY <1>1, <1>3
<1> QED
  BY <1>3, <1>4, Zenon

LEMMA SteeringThird ==
  ASSUME Steering, EncodeBoth \/ ThirdReplaces \/ ThirdAfterFirst \/ ThirdAscends
  PROVE  Steering'
<1>1. /\ src \in Sources /\ Following(src, parse) /\ stage = "search3"
      /\ Three(src, EndOf(parse), m1, m2)
  BY Zenon DEF Steering, EncodeBoth, ThirdReplaces, ThirdAfterFirst, ThirdAscends
<1>2. src' = src
  BY Zenon DEF EncodeBoth, ThirdReplaces, ThirdAfterFirst, ThirdAscends
<1>3. EndOf(parse) \in Nat /\ Len(src) \in Nat
  BY <1>1, EndOfIs, SourceIs, Zenon
<1>4. /\ IsMatch(src, m1) /\ EndOf(parse) <= m1.at /\ End(m1) + MFLimit <= Len(src)
  BY <1>1, Zenon DEF Three
<1>5. /\ IsMatch(src, second) /\ second.at >= m1.at + 4 /\ End(second) = End(m2)
      /\ second.at <= End(m1) + 1
  BY <1>1, CorrectedSecond, Zenon
<1>6. /\ IsMatch(src, Trimmed(m1, second)) /\ EndOf(parse) <= Trimmed(m1, second).at
      /\ End(Trimmed(m1, second)) <= second.at
  BY <1>1, <1>3, TrimmedFirst, Zenon
<1>7. CASE EncodeBoth
  <2> DEFINE first == Trimmed(m1, second)
  <2>1. m1' = Cursor(End(second)) /\ stage' = "main" /\ parse' = parse \o <<first, second>>
    BY <1>7, Zenon DEF EncodeBoth
  <2>2. IsMatch(src, first) /\ EndOf(parse) <= first.at /\ End(first) <= second.at
    BY <1>6
  <2> HIDE DEF first
  <2>3. Following(src, Append(parse, first)) /\ EndOf(Append(parse, first)) = End(first)
    BY <1>1, <2>2, OneMore, Zenon
  <2> DEFINE both == Append(Append(parse, first), second)
  <2>4. Following(src, both) /\ Main(src, EndOf(both), Cursor(End(second)))
    BY <1>3, <1>5, <2>2, <2>3, MainAfter, Zenon
  <2>5. parse \o <<first, second>> = both
    <3>1. parse \in Seq(Triple) /\ first \in Triple /\ second \in Triple
      BY <1>1, <1>5, <2>2, Zenon DEF Following, IsMatch
    <3> DEFINE x == second
    <3>2. x \in Triple
      BY <3>1, Zenon
    <3> HIDE DEF x
    <3>3. parse \o <<first, x>> = Append(Append(parse, first), x)
      BY <3>1, <3>2
    <3> QED BY <3>3, Zenon DEF x
  <2> HIDE DEF both
  <2> QED BY <1>1, <1>2, <2>1, <2>4, <2>5, Zenon DEF Steering
<1>8. CASE ThirdReplaces
  <2>1. PICK m \in Third : m.at < End(m1) /\ m2' = m
    BY <1>8, Zenon DEF ThirdReplaces
  <2>2. stage' = stage /\ m1' = m1 /\ parse' = parse
    BY <1>8, Zenon DEF ThirdReplaces
  <2>3. Three(src, EndOf(parse), m1, m)
    BY <1>1, <1>3, <2>1, ThirdInFirst, Zenon
  <2> QED BY <1>1, <1>2, <2>1, <2>2, <2>3, Zenon DEF Steering
<1>9. CASE ThirdAfterFirst
  <2>1. PICK m \in Third :
           /\ m.at >= End(m1) /\ m.at < End(m1) + 3
           /\ m0' = IF Smaller(0, second.at - End(m1)) < 0
                       /\ second.len + Smaller(0, second.at - End(m1)) < MinMatch
                    THEN m ELSE Later(second, -Smaller(0, second.at - End(m1)))
           /\ m1' = m
    BY <1>9, Zenon DEF ThirdAfterFirst
  <2>2. stage' = "search2" /\ parse' = Append(parse, m1)
    BY <1>9, Zenon DEF ThirdAfterFirst, Encode
  <2>3. Two(src, End(m1), m0', m)
    BY <1>1, <1>3, <2>1, ThirdNext, Zenon
  <2>4. Following(src, Append(parse, m1)) /\ EndOf(Append(parse, m1)) = End(m1)
    BY <1>1, <1>4, OneMore, Zenon
  <2> QED BY <1>1, <1>2, <2>1, <2>2, <2>3, <2>4, Zenon DEF Steering
<1>10. CASE ThirdAscends
  <2>1. PICK m \in Third :
           /\ m.at >= End(m1) + 3
           /\ IF second.at >= End(m1) \/ second.at - m1.at >= OptimalMl
              THEN Encode(Trimmed(m1, second)) /\ m1' = second
              ELSE /\ Encode(Match(m1.at, m1.ref, FirstLength(m1, second)))
                   /\ m1' = Corrected(m1, second)
           /\ m2' = m
    BY <1>10, Zenon DEF ThirdAscends
  <2>2. stage' = stage
    BY <1>10, Zenon DEF ThirdAscends
  <2>3. CASE second.at >= End(m1) \/ second.at - m1.at >= OptimalMl
    <3> DEFINE first == Trimmed(m1, second)
    <3>1. parse' = Append(parse, first) /\ m1' = second
      BY <2>1, <2>3, Zenon DEF Encode
    <3>2. IsMatch(src, first) /\ EndOf(parse) <= first.at /\ End(first) <= second.at
      BY <1>6
    <3> HIDE DEF first
    <3>3. Following(src, Append(parse, first)) /\ EndOf(Append(parse, first)) = End(first)
      BY <1>1, <3>2, OneMore, Zenon
    <3>4. Three(src, End(first), second, m)
      BY <1>1, <1>3, <1>5, <2>1, <3>2, ThirdAfterSecond, Zenon
    <3> QED BY <1>1, <1>2, <2>1, <2>2, <3>1, <3>3, <3>4, Zenon DEF Steering
  <2>4. CASE ~(second.at >= End(m1) \/ second.at - m1.at >= OptimalMl)
    <3> DEFINE first == Match(m1.at, m1.ref, FirstLength(m1, second))
               c == Corrected(m1, second)
    <3>1. parse' = Append(parse, first) /\ m1' = c
      BY <2>1, <2>4, Zenon DEF Encode
    <3>2. /\ m1.at \in Nat /\ second.at \in Nat /\ End(m1) \in Nat /\ End(second) \in Nat
          /\ second.len \in Nat /\ second.len >= 4 /\ End(second) = second.at + second.len
          /\ OptimalMl \in Nat
      BY <1>4, <1>5, MatchNumbers, Sizes, Zenon
    <3>3. /\ m1.at <= second.at /\ End(second) >= m1.at + 8 /\ second.at - m1.at < OptimalMl
          /\ second.at <= End(m1)
      <4>1. \A x, y, l, d, o \in Nat : y >= x + 4 /\ l >= 4 /\ ~(y >= d) /\ ~(y - x >= o) =>
               x <= y /\ y + l >= x + 8 /\ y - x < o /\ y <= d
        OBVIOUS
      <4>3. ~(second.at >= End(m1)) /\ ~(second.at - m1.at >= OptimalMl)
        BY <2>4, Zenon
      <4>2. /\ m1.at <= second.at /\ second.at + second.len >= m1.at + 8
            /\ second.at - m1.at < OptimalMl /\ second.at <= End(m1)
        BY <1>5, <4>3, <3>2, <4>1, Zenon
      <4> QED BY <3>2, <4>2, Zenon
    <3>4. /\ IsMatch(src, c) /\ End(c) = End(second)
          /\ c.at <= second.at \/ c.at <= End(m1)
          /\ c.at >= m1.at + FirstLength(m1, second)
      <4>1. Len(src) \in Nat /\ IsMatch(src, m1) /\ IsMatch(src, second)
        BY <1>3, <1>4, <1>5, Zenon
      <4>2. m1.at <= second.at /\ End(second) >= m1.at + 8 /\ End(m1) + MFLimit <= Len(src)
        BY <1>4, <3>3, Zenon
      <4>3. /\ IsMatch(src, Corrected(m1, second)) /\ End(Corrected(m1, second)) = End(second)
            /\ Corrected(m1, second).at <= second.at \/ Corrected(m1, second).at <= End(m1)
            /\ second.at - m1.at < OptimalMl => Corrected(m1, second).at >= m1.at + FirstLength(m1, second)
        BY <4>1, <4>2, CorrectedIs, Zenon
      <4>4. Corrected(m1, second).at >= m1.at + FirstLength(m1, second)
        BY <3>3, <4>3, Zenon
      <4> QED BY <4>3, <4>4, Zenon
    <3>5. FirstLength(m1, second) \in Nat /\ 4 <= FirstLength(m1, second) /\ FirstLength(m1, second) <= m1.len
      BY <1>4, <1>5, <3>3, FirstLengthIs, Zenon
    <3>6. IsMatch(src, first) /\ first.at = m1.at /\ End(first) = m1.at + FirstLength(m1, second)
      BY <1>3, <1>4, <3>5, MatchTrimmed, Zenon
    <3> HIDE DEF first, c
    <3>7. c.at \in Nat /\ m1.at + FirstLength(m1, second) \in Nat
      BY <3>2, <3>4, <3>5, MatchNumbers
    <3>8. c.at <= End(m1) /\ End(first) <= c.at
      BY <3>2, <3>3, <3>4, <3>6, <3>7
    <3>9. EndOf(parse) <= first.at
      BY <1>4, <3>6
    <3>10. Following(src, Append(parse, first)) /\ EndOf(Append(parse, first)) = End(first)
      BY <1>1, <3>6, <3>9, OneMore, Zenon
    <3>11. Three(src, End(first), c, m)
      BY <1>1, <1>3, <2>1, <3>4, <3>8, ThirdAfterSecond, Zenon
    <3> QED BY <1>1, <1>2, <2>1, <2>2, <3>1, <3>10, <3>11, Zenon DEF Steering
  <2> QED BY <2>3, <2>4, Zenon
<1> QED
  BY <1>7, <1>8, <1>9, <1>10, Zenon

LEMMA SteeringInit ==
  ASSUME Init
  PROVE  Steering
<1>1. src \in Sources /\ stage = "main" /\ m1 = Cursor(0) /\ parse = <<>>
  BY Zenon DEF Init
<1>2. Following(src, parse) /\ EndOf(parse) = 0
  BY <1>1 DEF Following, EndOf
<1>3. Len(src) \in Nat
  BY <1>1, SourceIs, Zenon
<1> DEFINE c == Cursor(0)
<1>4. c.at = 0
  BY DEF Cursor, Match
<1>5. c = Cursor(c.at)
  BY <1>4
<1> HIDE DEF c
<1>6. 0 \in Nat /\ 0 <= 0 /\ 0 <= Len(src)
  BY <1>3
<1>7. Main(src, EndOf(parse), c)
  BY <1>2, <1>4, <1>5, <1>6, Zenon DEF Main
<1> QED
  BY <1>1, <1>2, <1>7, Zenon DEF Steering, c

LEMMA SteeringNext ==
  ASSUME Steering, [Next]_vars
  PROVE  Steering'
<1>1. CASE FindFirst \/ FindNone
  BY <1>1, SteeringFirst, Zenon
<1>2. CASE EncodeFirst \/ SecondReplaces \/ SecondFollows
  BY <1>2, SteeringSecond, Zenon
<1>3. CASE EncodeBoth \/ ThirdReplaces \/ ThirdAfterFirst \/ ThirdAscends
  BY <1>3, SteeringThird, Zenon
<1>4. CASE Finish \/ Call \/ Decompress
  <2>1. src' = src /\ parse' = parse
    BY <1>4, Zenon DEF Finish, Call, Decompress, DecodeEmpty, DecodeSequence, DecodeLast, DecodeNoLength,
                       Answer, coding
  <2>2. stage' = "packed" \/ stage' = "decode" \/ stage' = "ok" \/ stage' = "error"
    BY <1>4, Zenon DEF Finish, Call, Decompress, DecodeEmpty, DecodeSequence, DecodeLast, DecodeNoLength,
                       Answer, Decoding
  <2> QED BY <2>1, <2>2, Zenon DEF Steering
<1>5. CASE UNCHANGED vars
  <2>1. src' = src /\ parse' = parse /\ stage' = stage /\ m0' = m0 /\ m1' = m1 /\ m2' = m2
    BY <1>5 DEF vars, coding
  <2> QED BY <2>1, Zenon DEF Steering
<1> QED
  BY <1>1, <1>2, <1>3, <1>4, <1>5, Zenon DEF Next, Compress, Ended

--------------------------------------------------------------------------------
(* The rules of the format hold of what is written.                          *)
LEMMA FollowingRules ==
  ASSUME Steering
  PROVE  ParseRules
<1>1. src \in Sources /\ Following(src, parse)
  BY Zenon DEF Steering
<1>2. /\ n \in Nat /\ n = Len(src) /\ mflimit = n - MFLimit /\ matchlimit = n - LastLiterals
      /\ MFLimit \in Nat /\ LastLiterals \in Nat
  BY <1>1, SourceIs, Sizes DEF matchlimit
<1>3. DOMAIN parse = 1..Len(parse) /\ Len(parse) \in Nat
  BY <1>1 DEF Following
<1> SUFFICES ASSUME NEW i \in 1..Len(parse)
             PROVE  /\ parse[i].at >= IF i = 1 THEN 0 ELSE End(parse[i - 1])
                    /\ parse[i].len >= MinMatch
                    /\ parse[i].at - parse[i].ref \in 1..DistanceMax
                    /\ Same(parse[i].at, parse[i].ref, parse[i].len)
                    /\ parse[i].at <= mflimit /\ End(parse[i]) <= matchlimit
  BY <1>3, Zenon DEF ParseRules
<1> DEFINE m == parse[i]
<1>4. IsMatch(src, m)
  BY <1>1, Zenon DEF Following
<1> HIDE DEF m
<1>5. /\ m.at \in Nat /\ m.len \in Nat /\ m.len >= 4 /\ End(m) \in Nat
      /\ m.at + MFLimit <= Len(src) /\ End(m) + LastLiterals <= Len(src)
  BY <1>4, MatchNumbers, Zenon
<1>6. m.at - m.ref \in 1..DistanceMax /\ Same(m.at, m.ref, m.len)
  BY <1>4, Zenon DEF IsMatch, Matching, Same
<1>7. m.at <= mflimit /\ End(m) <= matchlimit /\ m.len >= MinMatch /\ m.at >= 0
  BY <1>2, <1>5 DEF MinMatch
<1>8. ASSUME i # 1 PROVE m.at >= End(parse[i - 1])
  <2>1. i \in 2..Len(parse) /\ i - 1 \in 1..Len(parse)
    BY <1>3, <1>8
  <2>2. End(parse[i - 1]) <= m.at
    BY <1>1, <2>1, Zenon DEF Following, m
  <2>3. IsMatch(src, parse[i - 1])
    BY <1>1, <2>1, Zenon DEF Following
  <2>4. End(parse[i - 1]) \in Nat
    BY <2>3, MatchNumbers, Zenon
  <2> QED BY <1>5, <2>2, <2>4
<1> QED
  BY <1>6, <1>7, <1>8, Zenon DEF m

(* The search may replace a match by a longer one, drop it, restore it and    *)
(* cut it: whatever it does, what it writes can be read.                      *)
THEOREM ParseAlwaysFollowsRules == Spec => []ParseRules
<1>1. Init => Steering
  BY SteeringInit, Zenon
<1>2. Steering /\ [Next]_vars => Steering'
  BY SteeringNext, Zenon
<1>3. Steering => ParseRules
  BY FollowingRules, Zenon
<1> QED
  BY <1>1, <1>2, <1>3, PTL DEF Spec

--------------------------------------------------------------------------------
(* Numbers written in a base, and sequences.                                 *)
LEMMA DivMod ==
  ASSUME NEW x \in Nat, NEW d \in Nat, d >= 1
  PROVE  x \div d \in Nat /\ x % d \in 0..(d - 1) /\ x = d * (x \div d) + (x % d)
<1>1. PICK q \in Nat : d * q <= x /\ x < d * q + d /\ q = x \div d
  <2>1. x \div d \in Nat
    OBVIOUS
  <2>2. d * (x \div d) <= x
    OBVIOUS
  <2>3. x < d * (x \div d) + d
    OBVIOUS
  <2> QED BY <2>1, <2>2, <2>3, Zenon
<1>2. d * q \in Nat
  BY <1>1
<1>3. PICK r \in 0..(d - 1) : x = d * q + r
  <2>1. x - d * q \in 0..(d - 1) /\ x = d * q + (x - d * q)
    BY <1>1, <1>2
  <2> QED BY <2>1
<1>4. x % d = r
  BY <1>3
<1> QED BY <1>1, <1>3, <1>4, Zenon

LEMMA TwoDigits ==
  ASSUME NEW d \in Nat, d >= 1, NEW x \in 0..(d - 1), NEW y \in 0..(d - 1)
  PROVE  /\ x * d + y \in 0..(d * d - 1)
         /\ (x * d + y) \div d = x /\ (x * d + y) % d = y
OBVIOUS

LEMMA HighDigit ==
  ASSUME NEW d \in Nat, d >= 1, NEW x \in Nat, x < d * d
  PROVE  x \div d \in 0..(d - 1)
<1>1. x \div d \in Nat
  OBVIOUS
<1>2. x \div d < d
  OBVIOUS
<1> QED BY <1>1, <1>2

LEMMA Joined ==
  ASSUME NEW S, NEW u \in Seq(S), NEW v \in Seq(S)
  PROVE  /\ u \o v \in Seq(S) /\ Len(u \o v) = Len(u) + Len(v)
         /\ \A i \in 1..Len(u) : (u \o v)[i] = u[i]
         /\ \A i \in 1..Len(v) : (u \o v)[Len(u) + i] = v[i]
OBVIOUS

LEMMA Slice ==
  ASSUME NEW S, NEW s \in Seq(S), NEW i \in Nat, NEW j \in Nat, i <= j, j <= Len(s)
  PROVE  /\ SubSeq(s, i + 1, j) \in Seq(S) /\ Len(SubSeq(s, i + 1, j)) = j - i
         /\ \A k \in 1..(j - i) : SubSeq(s, i + 1, j)[k] = s[i + k]
OBVIOUS

LEMMA Repeated ==
  ASSUME NEW S, NEW v \in S, NEW k \in Nat
  PROVE  /\ [i \in 1..k |-> v] \in Seq(S) /\ Len([i \in 1..k |-> v]) = k
         /\ \A i \in 1..k : [j \in 1..k |-> v][i] = v
OBVIOUS

--------------------------------------------------------------------------------
(* The bytes of a sequence.                                                  *)
LEMMA ExtraNone ==
  ASSUME NEW x \in Nat, x < RunMask
  PROVE  Extra(x) = <<>> /\ Extra(x) \in Seq(Byte) /\ Len(Extra(x)) = 0
BY DEF Extra

LEMMA ExtraSome ==
  ASSUME NEW x \in Nat, x >= RunMask
  PROVE  /\ Extra(x) \in Seq(Byte)
         /\ \E q \in Nat, r \in 0..(ByteMax - 1) :
              /\ Len(Extra(x)) = q + 1 /\ x - RunMask = ByteMax * q + r
              /\ \A i \in 1..q : Extra(x)[i] = ByteMax
              /\ Extra(x)[q + 1] = r
<1>1. ByteMax \in Nat /\ ByteMax >= 3 /\ RunMask \in Nat
  BY Sizes
<1> DEFINE y == x - RunMask
           q == y \div ByteMax
           r == y % ByteMax
           u == [i \in 1..q |-> ByteMax]
<1>2. y \in Nat
  BY <1>1
<1>3. Extra(x) = u \o <<r>>
  <2>1. ~(x < RunMask)
    BY <1>1
  <2> QED BY <2>1, Zenon DEF Extra
<1> HIDE DEF y
<1>4. q \in Nat /\ r \in 0..(ByteMax - 1) /\ y = ByteMax * q + r
  <2>1. ByteMax >= 1
    BY <1>1
  <2> QED BY <1>1, <1>2, <2>1, DivMod
<1> HIDE DEF q, r
<1>5. ByteMax \in Byte /\ r \in Byte
  BY <1>1, <1>4 DEF Byte
<1>6. u \in Seq(Byte) /\ Len(u) = q /\ \A i \in 1..q : u[i] = ByteMax
  BY <1>4, <1>5, Repeated
<1> HIDE DEF u
<1>7. <<r>> \in Seq(Byte) /\ Len(<<r>>) = 1 /\ <<r>>[1] = r
  BY <1>5
<1>8. u \o <<r>> \in Seq(Byte) /\ Len(u \o <<r>>) = q + 1
  BY <1>6, <1>7, Joined
<1>9. \A i \in 1..q : (u \o <<r>>)[i] = ByteMax
  BY <1>6, <1>7, Joined, Zenon
<1>10. (u \o <<r>>)[q + 1] = r
  BY <1>4, <1>6, <1>7
<1> QED
  BY <1>3, <1>4, <1>8, <1>9, <1>10, Zenon DEF y

LEMMA ExtraIs ==
  ASSUME NEW x \in Nat
  PROVE  Extra(x) \in Seq(Byte) /\ Len(Extra(x)) \in Nat
<1>1. CASE x < RunMask
  BY <1>1, ExtraNone
<1>2. CASE ~(x < RunMask)
  <2>1. x >= RunMask
    BY <1>2, Sizes
  <2> QED BY <2>1, ExtraSome
<1> QED BY <1>1, <1>2

(* The length bytes pay for what they say.                                   *)
LEMMA ExtraCost ==
  ASSUME NEW x \in Nat
  PROVE  /\ ByteMax * Len(Extra(x)) <= x + ByteMax - RunMask \/ Len(Extra(x)) = 0
         /\ x < RunMask => Len(Extra(x)) = 0
<1>1. ByteMax \in Nat /\ ByteMax >= 3 /\ RunMask \in Nat
  BY Sizes
<1>2. CASE x < RunMask
  BY <1>2, ExtraNone
<1>3. CASE ~(x < RunMask)
  <2>1. x >= RunMask
    BY <1>1, <1>3
  <2>2. PICK q \in Nat, r \in 0..(ByteMax - 1) :
          Len(Extra(x)) = q + 1 /\ x - RunMask = ByteMax * q + r
    BY <2>1, ExtraSome, Zenon
  <2>3. ByteMax * (q + 1) = ByteMax * q + ByteMax /\ ByteMax * q \in Nat
    BY <1>1
  <2>4. ByteMax * (q + 1) <= x + ByteMax - RunMask
    BY <1>1, <2>2, <2>3
  <2> QED BY <1>3, <2>2, <2>4, Zenon
<1> QED BY <1>2, <1>3, Zenon

(* The token, the length bytes and the literals, the part a sequence and the  *)
(* last run of literals share; then either whole.                            *)
HeadOf(s, e, to, y) == Token(to - e, y) \o (Extra(to - e) \o SubSeq(s, e + 1, to))
SequenceOf(s, e, m) ==
  HeadOf(s, e, m.at, m.len - MinMatch)
  \o <<(m.at - m.ref) % ByteRange, (m.at - m.ref) \div ByteRange>> \o Extra(m.len - MinMatch)
LastRunOf(s, e) == HeadOf(s, e, Len(s), 0)

LEMMA SequenceIs ==
  ASSUME NEW e, NEW m
  PROVE  Sequence(e, m) = SequenceOf(src, e, m) /\ LastRun(e) = LastRunOf(src, e)
BY Zenon DEF Sequence, SequenceOf, HeadOf, Literals, LastRun, LastRunOf, n

LEMMA TokenIs ==
  ASSUME NEW x \in Nat, NEW y \in Nat
  PROVE  /\ Token(x, y) \in Seq(Byte) /\ Len(Token(x, y)) = 1
         /\ Token(x, y)[1] \div NibbleRange = Smaller(x, RunMask)
         /\ Token(x, y)[1] % NibbleRange = Smaller(y, MlMask)
<1>1. /\ NibbleRange \in Nat /\ NibbleRange >= 1 /\ RunMask = NibbleRange - 1 /\ MlMask = NibbleRange - 1
      /\ NibbleRange \in Nat
  BY Sizes
<1> DEFINE a == Smaller(x, RunMask)
           b == Smaller(y, MlMask)
<1>2. a \in 0..(NibbleRange - 1) /\ b \in 0..(NibbleRange - 1)
  BY <1>1 DEF Smaller
<1> HIDE DEF a, b
<1> DEFINE t == a * NibbleRange + b
<1>3. /\ t \in 0..(NibbleRange * NibbleRange - 1)
      /\ t \div NibbleRange = a /\ t % NibbleRange = b
  BY <1>1, <1>2, TwoDigits
<1>4. t \in Byte
  BY <1>3 DEF Byte, ByteMax, ByteRange
<1>5. Token(x, y) = <<t>>
  BY Zenon DEF Token, a, b
<1> HIDE DEF t
<1>6. <<t>> \in Seq(Byte) /\ Len(<<t>>) = 1 /\ <<t>>[1] = t
  BY <1>4
<1> QED BY <1>3, <1>5, <1>6, Zenon DEF a, b

LEMMA HeadIs ==
  ASSUME NEW s \in Seq(Byte), NEW e \in Nat, NEW to \in Nat, e <= to, to <= Len(s), NEW y \in Nat
  PROVE  /\ Token(to - e, y) \in Seq(Byte) /\ Extra(to - e) \in Seq(Byte)
         /\ SubSeq(s, e + 1, to) \in Seq(Byte) /\ Len(SubSeq(s, e + 1, to)) = to - e
         /\ Extra(to - e) \o SubSeq(s, e + 1, to) \in Seq(Byte)
         /\ HeadOf(s, e, to, y) \in Seq(Byte)
         /\ Len(HeadOf(s, e, to, y)) = 1 + Len(Extra(to - e)) + (to - e)
<1>1. to - e \in Nat
  OBVIOUS
<1>2. Token(to - e, y) \in Seq(Byte) /\ Len(Token(to - e, y)) = 1
  BY <1>1, TokenIs, Zenon
<1>3. Extra(to - e) \in Seq(Byte) /\ Len(Extra(to - e)) \in Nat
  BY <1>1, ExtraIs, Zenon
<1>4. SubSeq(s, e + 1, to) \in Seq(Byte) /\ Len(SubSeq(s, e + 1, to)) = to - e
  BY Slice
<1> DEFINE t == Token(to - e, y)
           x == Extra(to - e)
           l == SubSeq(s, e + 1, to)
<1>5. /\ t \in Seq(Byte) /\ x \in Seq(Byte) /\ l \in Seq(Byte) /\ Len(t) = 1 /\ Len(x) \in Nat
      /\ Len(l) = to - e
  BY <1>2, <1>3, <1>4
<1>6. HeadOf(s, e, to, y) = t \o (x \o l)
  BY Zenon DEF HeadOf
<1> HIDE DEF t, x, l
<1>7. x \o l \in Seq(Byte) /\ Len(x \o l) = Len(x) + Len(l)
  BY <1>5, Joined, Zenon
<1> DEFINE v == x \o l
<1>7a. v \in Seq(Byte) /\ Len(v) = Len(x) + Len(l)
  BY <1>7
<1> HIDE DEF v
<1>8. t \o v \in Seq(Byte) /\ Len(t \o v) = Len(t) + Len(v)
  BY <1>5, <1>7a, Joined, Zenon
<1>9. Len(t \o v) = 1 + Len(x) + (to - e)
  BY <1>1, <1>5, <1>7a, <1>8
<1> QED BY <1>5, <1>6, <1>7, <1>8, <1>9, Zenon DEF t, x, l, v

(* The distance, in two bytes.                                               *)
LEMMA OffsetIs ==
  ASSUME NEW d \in 1..DistanceMax
  PROVE  /\ <<d % ByteRange, d \div ByteRange>> \in Seq(Byte)
         /\ Len(<<d % ByteRange, d \div ByteRange>>) = 2
         /\ (d % ByteRange) + ByteRange * (d \div ByteRange) = d
<1>1. /\ ByteRange \in Nat /\ ByteRange >= 1 /\ d \in Nat /\ d < ByteRange * ByteRange
      /\ Byte = 0..(ByteRange - 1)
  BY Squares DEF Byte, ByteMax
<1> DEFINE lo == d % ByteRange
           hi == d \div ByteRange
<1>2. lo \in Byte /\ hi \in Byte /\ hi \in Nat /\ d = ByteRange * hi + lo
  <2>1. lo \in 0..(ByteRange - 1) /\ d = ByteRange * hi + lo /\ hi \in Nat
    BY <1>1, DivMod, Zenon
  <2>2. hi \in 0..(ByteRange - 1)
    BY <1>1, HighDigit, Zenon
  <2> QED BY <1>1, <2>1, <2>2
<1> HIDE DEF lo, hi
<1>3. <<lo, hi>> \in Seq(Byte) /\ Len(<<lo, hi>>) = 2
  BY <1>2
<1>4. ByteRange * hi \in Nat /\ lo \in Nat
  BY <1>1, <1>2
<1>5. lo + ByteRange * hi = d
  BY <1>2, <1>4
<1> QED BY <1>3, <1>5 DEF lo, hi

LEMMA WholeIs ==
  ASSUME NEW s \in Seq(Byte), NEW e \in Nat, NEW m, IsMatch(s, m), e <= m.at
  PROVE  LET h == HeadOf(s, e, m.at, m.len - MinMatch)
             o == <<(m.at - m.ref) % ByteRange, (m.at - m.ref) \div ByteRange>>
             x == Extra(m.len - MinMatch)
         IN  /\ h \in Seq(Byte) /\ o \in Seq(Byte) /\ x \in Seq(Byte) /\ h \o o \in Seq(Byte)
             /\ Len(o) = 2 /\ Len(h) = 1 + Len(Extra(m.at - e)) + (m.at - e)
             /\ SequenceOf(s, e, m) = (h \o o) \o x
             /\ SequenceOf(s, e, m) \in Seq(Byte)
             /\ Len(SequenceOf(s, e, m)) = 3 + Len(Extra(m.at - e)) + (m.at - e) + Len(Extra(m.len - MinMatch))
<1> DEFINE h == HeadOf(s, e, m.at, m.len - MinMatch)
           o == <<(m.at - m.ref) % ByteRange, (m.at - m.ref) \div ByteRange>>
           x == Extra(m.len - MinMatch)
           k == Len(Extra(m.at - e))
<1>1. m.at \in Nat /\ m.len \in Nat /\ m.len >= 4 /\ m.at + MFLimit <= Len(s) /\ MFLimit \in Nat
  BY MatchNumbers, Sizes, Zenon
<1>2. m.at <= Len(s) /\ m.len - MinMatch \in Nat /\ m.at - e \in Nat
  BY <1>1 DEF MinMatch
<1>3. m.at - m.ref \in 1..DistanceMax
  BY Zenon DEF IsMatch, Matching
<1>4. h \in Seq(Byte) /\ Len(h) = 1 + k + (m.at - e)
  <2>1. /\ HeadOf(s, e, m.at, m.len - MinMatch) \in Seq(Byte)
        /\ Len(HeadOf(s, e, m.at, m.len - MinMatch)) = 1 + Len(Extra(m.at - e)) + (m.at - e)
    <3>1. m.at \in Nat /\ m.at <= Len(s) /\ m.len - MinMatch \in Nat
      BY <1>1, <1>2, Zenon
    <3> DEFINE to == m.at
               y == m.len - MinMatch
    <3> HIDE DEF to, y
    <3>2. HeadOf(s, e, to, y) \in Seq(Byte) /\ Len(HeadOf(s, e, to, y)) = 1 + Len(Extra(to - e)) + (to - e)
      BY <3>1, HeadIs DEF to, y
    <3> QED BY <3>2, Zenon DEF to, y
  <2> QED BY <2>1, Zenon
<1>5. o \in Seq(Byte) /\ Len(o) = 2
  BY <1>3, OffsetIs, Zenon
<1>6. x \in Seq(Byte) /\ Len(x) \in Nat /\ k \in Nat
  BY <1>2, ExtraIs, Zenon
<1>7. SequenceOf(s, e, m) = (h \o o) \o x
  BY Zenon DEF SequenceOf
<1> HIDE DEF h, o, x, k
<1>8. h \o o \in Seq(Byte) /\ Len(h \o o) = Len(h) + Len(o)
  BY <1>4, <1>5, Joined, Zenon
<1> DEFINE v == h \o o
<1> HIDE DEF v
<1>9. v \o x \in Seq(Byte) /\ Len(v \o x) = Len(v) + Len(x)
  BY <1>6, <1>8, Joined, Zenon DEF v
<1>10. Len(v) = 3 + k + (m.at - e)
  BY <1>2, <1>4, <1>5, <1>6, <1>8 DEF v
<1>11. Len(v \o x) = 3 + k + (m.at - e) + Len(x)
  BY <1>9, <1>10
<1> QED BY <1>4, <1>5, <1>6, <1>7, <1>8, <1>9, <1>11, Zenon DEF h, o, x, k, v

--------------------------------------------------------------------------------
LEMMA LastRunIs ==
  ASSUME NEW s \in Seq(Byte), NEW e \in Nat, e <= Len(s)
  PROVE  Len(LastRunOf(s, e)) = 1 + Len(Extra(Len(s) - e)) + (Len(s) - e)
<1>1. Len(s) \in Nat /\ 0 \in Nat /\ Len(s) <= Len(s)
  OBVIOUS
<1> QED BY <1>1, HeadIs, Zenon DEF LastRunOf

(* What a sequence costs.                                                    *)
LEMMA SequenceCost ==
  ASSUME NEW s \in Seq(Byte), NEW e \in Nat, NEW m, IsMatch(s, m), e <= m.at
  PROVE  ByteMax * Len(SequenceOf(s, e, m)) <= (ByteMax + 1) * (End(m) - e)
<1> DEFINE l == m.at - e
           j == m.len - MinMatch
           xl == Len(Extra(l))
           xm == Len(Extra(j))
<1>1. m.at \in Nat /\ m.len \in Nat /\ m.len >= 4 /\ End(m) = m.at + m.len
  BY MatchNumbers, Zenon
<1>2. l \in Nat /\ j \in Nat /\ End(m) - e = l + j + 4
  <2>1. \A a, k \in Nat : k >= 4 /\ e <= a =>
          a - e \in Nat /\ k - 4 \in Nat /\ (a + k) - e = (a - e) + (k - 4) + 4
    OBVIOUS
  <2>2. l \in Nat /\ m.len - 4 \in Nat /\ (m.at + m.len) - e = l + (m.len - 4) + 4
    BY <1>1, <2>1, Zenon
  <2> QED BY <1>1, <2>2, Zenon DEF MinMatch
<1>3. Len(SequenceOf(s, e, m)) = 3 + xl + l + xm
  BY WholeIs, Zenon
<1> HIDE DEF l, j
<1>4. xl \in Nat /\ xm \in Nat
  BY <1>2, ExtraIs, Zenon
<1>5. /\ ByteMax * xl <= l + ByteMax - RunMask \/ xl = 0
      /\ ByteMax * xm <= j + ByteMax - RunMask \/ xm = 0
      /\ j < RunMask => xm = 0
  BY <1>2, ExtraCost, Zenon
<1> HIDE DEF xl, xm
<1>6. ByteMax \in Nat /\ ByteMax >= 3 /\ RunMask \in Nat /\ RunMask >= 1
  BY Sizes
<1>7. \A B, R, x, y, a, b \in Nat :
        /\ B >= 3 /\ R >= 1 /\ (B * x <= a + B - R \/ x = 0) /\ (B * y <= b + B - R \/ y = 0)
        /\ (b < R => y = 0)
        => B * (3 + x + a + y) <= (B + 1) * (a + b + 4)
  <2> SUFFICES ASSUME NEW B \in Nat, NEW R \in Nat, NEW x \in Nat, NEW y \in Nat, NEW a \in Nat, NEW b \in Nat,
                      B >= 3, R >= 1, B * x <= a + B - R \/ x = 0, B * y <= b + B - R \/ y = 0, b < R => y = 0
               PROVE  B * (3 + x + a + y) <= (B + 1) * (a + b + 4)
    OBVIOUS
  <2>1. /\ B * (3 + x + a + y) = 3 * B + B * x + B * a + B * y
        /\ (B + 1) * (a + b + 4) = B * a + B * b + 4 * B + a + b + 4
        /\ B * x \in Nat /\ B * y \in Nat /\ B * a \in Nat /\ B * b \in Nat
    OBVIOUS
  <2>2. B * x <= a + B
    OBVIOUS
  <2>3. CASE b < R
    <3>1. B * y = 0
      BY <2>3
    <3> QED BY <2>1, <2>2, <3>1
  <2>4. CASE b >= R
    <3>1. B * b >= B
      BY <2>4
    <3>2. B * y <= b + B
      OBVIOUS
    <3> QED BY <2>1, <2>2, <3>1, <3>2
  <2> QED BY <2>3, <2>4
<1>8. ByteMax * (3 + xl + l + xm) <= (ByteMax + 1) * (l + j + 4)
  BY <1>2, <1>4, <1>5, <1>6, <1>7, Zenon
<1> QED BY <1>2, <1>3, <1>8, Zenon

LEMMA LastRunCost ==
  ASSUME NEW s \in Seq(Byte), NEW e \in Nat, e <= Len(s), NEW k \in Nat, ByteMax * k <= (ByteMax + 1) * e
  PROVE  k + Len(LastRunOf(s, e)) <= Len(s) + Len(s) \div ByteMax + 2
<1> DEFINE l == Len(s) - e
           x == Len(Extra(l))
<1>0. Len(s) \in Nat
  OBVIOUS
<1>1. l \in Nat /\ Len(s) = e + l
  BY <1>0
<1>2. Len(LastRunOf(s, e)) = 1 + x + l
  BY LastRunIs, Zenon
<1> HIDE DEF l
<1>3. x \in Nat
  BY <1>1, ExtraIs, Zenon
<1>4. ByteMax * x <= l + ByteMax - RunMask \/ x = 0
  BY <1>1, ExtraCost, Zenon
<1> HIDE DEF x
<1>5. ByteMax \in Nat /\ ByteMax >= 3 /\ RunMask \in Nat /\ RunMask >= 1
  BY Sizes
<1> DEFINE q == (e + l) \div ByteMax
<1>6. q \in Nat /\ e + l < ByteMax * q + ByteMax
  <2>1. e + l \in Nat
    BY <1>1
  <2>2. ByteMax >= 1
    BY <1>5
  <2>3. q \in Nat /\ (e + l) % ByteMax \in 0..(ByteMax - 1) /\ e + l = ByteMax * q + ((e + l) % ByteMax)
    BY <1>5, <2>1, <2>2, DivMod, Zenon
  <2> DEFINE r == (e + l) % ByteMax
  <2>4. r \in 0..(ByteMax - 1) /\ e + l = ByteMax * q + r
    BY <2>3, Zenon
  <2> HIDE DEF q, r
  <2>5. ByteMax * q \in Nat
    BY <1>5, <2>3
  <2>6. e + l < ByteMax * q + ByteMax
    BY <1>5, <2>4, <2>5
  <2> QED BY <2>3, <2>6, Zenon
<1> HIDE DEF q
<1>7. \A B, R, y, a, z, d, c \in Nat :
        /\ B >= 3 /\ R >= 1 /\ (B * y <= a + B - R \/ y = 0) /\ B * c <= (B + 1) * z
        /\ z + a < B * d + B
        => c + (1 + y + a) <= (z + a) + d + 2
  <2> SUFFICES ASSUME NEW B \in Nat, NEW R \in Nat, NEW y \in Nat, NEW a \in Nat, NEW z \in Nat, NEW d \in Nat,
                      NEW c \in Nat, B >= 3, R >= 1, B * y <= a + B - R \/ y = 0, B * c <= (B + 1) * z,
                      z + a < B * d + B
               PROVE  c + (1 + y + a) <= (z + a) + d + 2
    OBVIOUS
  <2>1. B * y <= a + B - 1 /\ B * y \in Nat
    OBVIOUS
  <2>2. /\ B * (c + (1 + y + a)) = B * c + B + B * y + B * a
        /\ B * ((z + a) + d + 3) = B * z + B * a + B * d + 3 * B
        /\ (B + 1) * z = B * z + z
        /\ B * c \in Nat /\ B * a \in Nat /\ B * z \in Nat /\ B * d \in Nat
    OBVIOUS
  <2>3. B * (c + (1 + y + a)) < B * ((z + a) + d + 3)
    BY <2>1, <2>2
  <2>4. \A u, v \in Nat : B * u < B * v => u < v
    OBVIOUS
  <2>5. c + (1 + y + a) < (z + a) + d + 3
    BY <2>3, <2>4
  <2> QED BY <2>5
<1>8. k + (1 + x + l) <= (e + l) + q + 2
  BY <1>1, <1>3, <1>4, <1>5, <1>6, <1>7, Zenon
<1> QED BY <1>1, <1>2, <1>8, Zenon DEF q

--------------------------------------------------------------------------------
(* Where the sequences lie in the block: the k-th from c[k - 1] to c[k].      *)
Holds(b, p, w) == p + Len(w) <= Len(b) /\ \A i \in 1..Len(w) : b[p + i] = w[i]
Upto(p, k) == IF k = 0 THEN 0 ELSE End(p[k])

Cuts(s, p, b, c) ==
  /\ c \in [0..Len(p) -> Nat] /\ c[0] = 0
  /\ \A k \in 1..Len(p) :
       /\ c[k] = c[k - 1] + Len(SequenceOf(s, Upto(p, k - 1), p[k]))
       /\ Holds(b, c[k - 1], SequenceOf(s, Upto(p, k - 1), p[k]))

(* The block while it is written, and when it is complete.                   *)
Written(s, p, b) ==
  /\ b \in Seq(Byte)
  /\ ByteMax * Len(b) <= (ByteMax + 1) * EndOf(p)
  /\ \E c \in [0..Len(p) -> Nat] : Cuts(s, p, b, c) /\ c[Len(p)] = Len(b)

Packed(s, p, b) ==
  /\ b \in Seq(Byte)
  /\ Len(b) <= Len(s) + Len(s) \div ByteMax + BoundSlack
  /\ \E c \in [0..Len(p) -> Nat] :
       /\ Cuts(s, p, b, c)
       /\ c[Len(p)] + Len(LastRunOf(s, EndOf(p))) = Len(b)
       /\ Holds(b, c[Len(p)], LastRunOf(s, EndOf(p)))

LEMMA UptoIs ==
  ASSUME NEW s, NEW p, Following(s, p)
  PROVE  /\ Len(p) \in Nat /\ Upto(p, Len(p)) = EndOf(p) /\ Upto(p, 0) = 0
         /\ \A k \in 0..Len(p) : Upto(p, k) \in Nat
         /\ \A k \in 1..Len(p) : IsMatch(s, p[k]) /\ Upto(p, k) = End(p[k]) /\ Upto(p, k - 1) <= p[k].at
<1>1. p \in Seq(Triple) /\ Len(p) \in Nat
  BY DEF Following
<1>2. \A k \in 1..Len(p) : k # 0 /\ (k = 1 \/ k \in 2..Len(p)) /\ k - 1 \in 0..Len(p)
  BY <1>1
<1>3. \A k \in 1..Len(p) : IsMatch(s, p[k]) /\ Upto(p, k) = End(p[k])
  BY <1>2, Zenon DEF Following, Upto
<1>4. \A k \in 0..Len(p) : Upto(p, k) \in Nat
  <2> SUFFICES ASSUME NEW k \in 0..Len(p) PROVE Upto(p, k) \in Nat
    OBVIOUS
  <2>1. CASE k = 0
    BY <2>1 DEF Upto
  <2>2. CASE k # 0
    <3>1. k \in 1..Len(p)
      BY <1>1, <2>2
    <3>2. IsMatch(s, p[k]) /\ Upto(p, k) = End(p[k])
      BY <1>3, <3>1, Zenon
    <3> QED BY <3>2, MatchNumbers, Zenon
  <2> QED BY <2>1, <2>2
<1>5. \A k \in 1..Len(p) : Upto(p, k - 1) <= p[k].at
  <2> SUFFICES ASSUME NEW k \in 1..Len(p) PROVE Upto(p, k - 1) <= p[k].at
    OBVIOUS
  <2>1. CASE k = 1
    <3>1. Upto(p, k - 1) = 0
      BY <2>1 DEF Upto
    <3>2. p[k].at \in Nat
      BY <1>3, MatchNumbers, Zenon
    <3> QED BY <3>1, <3>2
  <2>2. CASE k \in 2..Len(p)
    <3>1. End(p[k - 1]) <= p[k].at
      BY <2>2, Zenon DEF Following
    <3>2. k - 1 # 0
      BY <2>2
    <3> QED BY <3>1, <3>2, Zenon DEF Upto
  <2> QED BY <1>2, <2>1, <2>2, Zenon
<1>6. Upto(p, Len(p)) = EndOf(p)
  <2>1. CASE p = <<>>
    <3>1. Len(p) = 0
      BY <1>1, <2>1, EmptySeq
    <3>2. Upto(p, Len(p)) = 0
      BY <3>1, Zenon DEF Upto
    <3>3. EndOf(p) = 0
      BY <2>1, Zenon DEF EndOf
    <3> QED BY <3>2, <3>3, Zenon
  <2>2. CASE p # <<>>
    <3>1. Len(p) # 0
      BY <1>1, <2>2, EmptySeq
    <3> QED BY <2>2, <3>1, Zenon DEF Upto, EndOf, Last
  <2> QED BY <2>1, <2>2, Zenon
<1> QED
  BY <1>1, <1>3, <1>4, <1>5, <1>6, Zenon DEF Upto

LEMMA HoldsMore ==
  ASSUME NEW S, NEW b \in Seq(S), NEW v \in Seq(S), NEW p \in Nat, NEW w, Len(w) \in Nat, Holds(b, p, w)
  PROVE  Holds(b \o v, p, w)
<1>1. b \o v \in Seq(S) /\ Len(b \o v) = Len(b) + Len(v) /\ Len(b) \in Nat /\ Len(v) \in Nat
  BY Joined
<1>2. p + Len(w) <= Len(b) /\ \A i \in 1..Len(w) : b[p + i] = w[i]
  BY Zenon DEF Holds
<1>3. p + Len(w) <= Len(b \o v)
  BY <1>1, <1>2
<1>4. \A i \in 1..Len(w) : p + i \in 1..Len(b)
  BY <1>1, <1>2
<1>5. \A i \in 1..Len(w) : (b \o v)[p + i] = b[p + i]
  <2>1. \A i \in 1..Len(b) : (b \o v)[i] = b[i]
    OBVIOUS
  <2> QED BY <1>4, <2>1, Zenon
<1> QED BY <1>2, <1>3, <1>5, Zenon DEF Holds

LEMMA HoldsEnd ==
  ASSUME NEW S, NEW b \in Seq(S), NEW v \in Seq(S)
  PROVE  Holds(b \o v, Len(b), v)
<1>1. Len(b \o v) = Len(b) + Len(v) /\ Len(b) \in Nat /\ Len(v) \in Nat
  BY Joined
<1>2. Len(b) + Len(v) <= Len(b \o v)
  BY <1>1
<1>3. \A i \in 1..Len(v) : (b \o v)[Len(b) + i] = v[i]
  OBVIOUS
<1> QED BY <1>2, <1>3, Zenon DEF Holds

LEMMA SequenceBytes ==
  ASSUME NEW s \in Seq(Byte), NEW p, Following(s, p)
  PROVE  \A k \in 1..Len(p) : /\ SequenceOf(s, Upto(p, k - 1), p[k]) \in Seq(Byte)
                              /\ Len(SequenceOf(s, Upto(p, k - 1), p[k])) \in Nat
<1> SUFFICES ASSUME NEW k \in 1..Len(p)
             PROVE  /\ SequenceOf(s, Upto(p, k - 1), p[k]) \in Seq(Byte)
                    /\ Len(SequenceOf(s, Upto(p, k - 1), p[k])) \in Nat
  OBVIOUS
<1>1. IsMatch(s, p[k]) /\ Upto(p, k - 1) <= p[k].at
  BY UptoIs, Zenon
<1>2. k - 1 \in 0..Len(p)
  BY UptoIs
<1>3. Upto(p, k - 1) \in Nat
  BY <1>2, UptoIs, Zenon
<1>4. SequenceOf(s, Upto(p, k - 1), p[k]) \in Seq(Byte)
  BY <1>1, <1>3, WholeIs, Zenon
<1> QED BY <1>4

LEMMA CutsKept ==
  ASSUME NEW s \in Seq(Byte), NEW p, Following(s, p), NEW b \in Seq(Byte), NEW v \in Seq(Byte), NEW c,
         Cuts(s, p, b, c)
  PROVE  Cuts(s, p, b \o v, c)
<1>1. /\ c \in [0..Len(p) -> Nat] /\ c[0] = 0 /\ Len(p) \in Nat
  BY UptoIs, Zenon DEF Cuts
<1> SUFFICES ASSUME NEW k \in 1..Len(p)
             PROVE  Holds(b \o v, c[k - 1], SequenceOf(s, Upto(p, k - 1), p[k]))
  BY <1>1, Zenon DEF Cuts
<1>2. Holds(b, c[k - 1], SequenceOf(s, Upto(p, k - 1), p[k]))
  BY Zenon DEF Cuts
<1>3. k - 1 \in 0..Len(p)
  BY <1>1
<1>4. c[k - 1] \in Nat
  BY <1>1, <1>3
<1>5. Len(SequenceOf(s, Upto(p, k - 1), p[k])) \in Nat
  BY SequenceBytes, Zenon
<1> QED BY <1>2, <1>4, <1>5, HoldsMore, Zenon

(* A sequence is appended.                                                   *)
LEMMA WrittenMore ==
  ASSUME NEW s \in Seq(Byte), NEW p, Following(s, p), NEW b, Written(s, p, b),
         NEW m, IsMatch(s, m), EndOf(p) <= m.at
  PROVE  Written(s, Append(p, m), b \o SequenceOf(s, EndOf(p), m))
<1> DEFINE w == SequenceOf(s, EndOf(p), m)
           q == Append(p, m)
           l == Len(p)
<1>1. b \in Seq(Byte) /\ Len(b) \in Nat
  BY DEF Written
<1>2. EndOf(p) \in Nat
  BY EndOfIs, Zenon
<1>3. w \in Seq(Byte) /\ Len(w) \in Nat
  <2>1. SequenceOf(s, EndOf(p), m) \in Seq(Byte)
    BY <1>2, WholeIs, Zenon
  <2> QED BY <2>1
<1>4. ByteMax * Len(w) <= (ByteMax + 1) * (End(m) - EndOf(p))
  BY <1>2, SequenceCost, Zenon
<1>5. Following(s, q) /\ EndOf(q) = End(m) /\ End(m) \in Nat /\ EndOf(p) <= End(m)
  <2>1. Following(s, q) /\ EndOf(q) = End(m)
    BY OneMore, Zenon
  <2>2. m.at \in Nat /\ m.len \in Nat /\ End(m) = m.at + m.len /\ End(m) \in Nat
    BY MatchNumbers, Zenon
  <2>3. EndOf(p) <= End(m)
    BY <1>2, <2>2
  <2> QED BY <2>1, <2>2, <2>3, Zenon
<1>6. /\ l \in Nat /\ Len(q) = l + 1 /\ q[l + 1] = m
      /\ \A i \in 1..l : q[i] = p[i]
  <2>1. p \in Seq(Triple) /\ m \in Triple
    BY Zenon DEF Following, IsMatch
  <2> QED BY <2>1
<1>7. PICK c \in [0..l -> Nat] : Cuts(s, p, b, c) /\ c[l] = Len(b)
  BY Zenon DEF Written
<1>8. Upto(p, l) = EndOf(p)
  BY UptoIs, Zenon
<1> HIDE DEF w, q, l
<1>9. \A k \in 0..l : Upto(q, k) = Upto(p, k)
  <2> SUFFICES ASSUME NEW k \in 0..l PROVE Upto(q, k) = Upto(p, k)
    OBVIOUS
  <2>1. CASE k = 0
    BY <2>1, Zenon DEF Upto
  <2>2. CASE k # 0
    <3>1. k \in 1..l
      BY <1>6, <2>2
    <3> QED BY <1>6, <2>2, <3>1, Zenon DEF Upto
  <2> QED BY <2>1, <2>2, Zenon
<1> DEFINE d == [k \in 0..(l + 1) |-> IF k = l + 1 THEN Len(b) + Len(w) ELSE c[k]]
<1>10. d \in [0..(l + 1) -> Nat]
  <2>1. \A k \in 0..(l + 1) : k = l + 1 \/ k \in 0..l
    BY <1>6
  <2>2. Len(b) + Len(w) \in Nat
    BY <1>1, <1>3
  <2> QED BY <2>1, <2>2
<1>11. d[l + 1] = Len(b) + Len(w) /\ \A k \in 0..l : d[k] = c[k]
  BY <1>6
<1> HIDE DEF d
<1>12. Cuts(s, p, b \o w, c)
  BY <1>1, <1>3, <1>7, CutsKept, Zenon DEF l
<1>13. d[0] = 0
  <2>1. 0 \in 0..l
    BY <1>6
  <2>2. c[0] = 0
    BY <1>12, Zenon DEF Cuts
  <2> QED BY <1>11, <2>1, <2>2, Zenon
<1>14. ASSUME NEW k \in 1..(l + 1)
       PROVE  /\ d[k] = d[k - 1] + Len(SequenceOf(s, Upto(q, k - 1), q[k]))
              /\ Holds(b \o w, d[k - 1], SequenceOf(s, Upto(q, k - 1), q[k]))
  <2>1. k - 1 \in 0..l /\ (k = l + 1 \/ k \in 1..l) /\ (k \in 1..l => k \in 0..l)
    BY <1>6
  <2>2. d[k - 1] = c[k - 1] /\ Upto(q, k - 1) = Upto(p, k - 1)
    BY <1>9, <1>11, <2>1, Zenon
  <2>3. CASE k = l + 1
    <3>1. k - 1 = l
      BY <1>6, <2>3
    <3>2. SequenceOf(s, Upto(q, k - 1), q[k]) = w
      BY <1>6, <1>8, <2>2, <2>3, <3>1, Zenon DEF w
    <3>3. d[k - 1] = Len(b) /\ d[k] = Len(b) + Len(w)
      BY <1>7, <1>11, <2>2, <2>3, <3>1, Zenon
    <3>4. Holds(b \o w, Len(b), w)
      BY <1>1, <1>3, HoldsEnd, Zenon
    <3> QED BY <3>2, <3>3, <3>4, Zenon
  <2>4. CASE k \in 1..l
    <3>1. d[k] = c[k] /\ q[k] = p[k]
      BY <1>6, <1>11, <2>1, <2>4, Zenon
    <3>2. /\ c[k] = c[k - 1] + Len(SequenceOf(s, Upto(p, k - 1), p[k]))
          /\ Holds(b \o w, c[k - 1], SequenceOf(s, Upto(p, k - 1), p[k]))
      BY <1>12, <2>4, Zenon DEF Cuts, l
    <3> QED BY <2>2, <3>1, <3>2, Zenon
  <2> QED BY <2>1, <2>3, <2>4, Zenon
<1>15. Cuts(s, q, b \o w, d)
  BY <1>6, <1>10, <1>13, <1>14, Zenon DEF Cuts
<1>16. b \o w \in Seq(Byte) /\ Len(b \o w) = Len(b) + Len(w)
  BY <1>1, <1>3, Joined, Zenon
<1>17. ByteMax * Len(b) <= (ByteMax + 1) * EndOf(p)
  BY Zenon DEF Written
<1>18. ByteMax * (Len(b) + Len(w)) <= (ByteMax + 1) * End(m)
  <2>1. \A B, x, y, e, f \in Nat : B * x <= (B + 1) * e /\ B * y <= (B + 1) * (f - e) /\ e <= f
          => B * (x + y) <= (B + 1) * f
    <3> SUFFICES ASSUME NEW B \in Nat, NEW x \in Nat, NEW y \in Nat, NEW e \in Nat, NEW f \in Nat,
                        B * x <= (B + 1) * e, B * y <= (B + 1) * (f - e), e <= f
                 PROVE  B * (x + y) <= (B + 1) * f
      OBVIOUS
    <3>1. B * (x + y) = B * x + B * y /\ (B + 1) * (f - e) = (B + 1) * f - (B + 1) * e
      OBVIOUS
    <3>2. B * x \in Nat /\ B * y \in Nat /\ (B + 1) * f \in Nat /\ (B + 1) * e \in Nat
      OBVIOUS
    <3> QED BY <3>1, <3>2
  <2>2. ByteMax \in Nat
    BY Sizes
  <2> QED BY <1>1, <1>2, <1>3, <1>4, <1>5, <1>17, <2>1, <2>2, Zenon
<1>19. d \in [0..Len(q) -> Nat] /\ d[Len(q)] = Len(b \o w)
  BY <1>6, <1>10, <1>11, <1>16, Zenon
<1>20. ByteMax * Len(b \o w) <= (ByteMax + 1) * EndOf(q)
  BY <1>5, <1>16, <1>18, Zenon
<1> QED
  BY <1>15, <1>16, <1>19, <1>20, Zenon DEF Written, w, q

(* The last run is appended.                                                 *)
LEMMA PackedIs ==
  ASSUME NEW s \in Seq(Byte), NEW p, Following(s, p), NEW b, Written(s, p, b), EndOf(p) <= Len(s)
  PROVE  Packed(s, p, b \o LastRunOf(s, EndOf(p)))
<1> DEFINE w == LastRunOf(s, EndOf(p))
<1>1. b \in Seq(Byte) /\ Len(b) \in Nat /\ ByteMax * Len(b) <= (ByteMax + 1) * EndOf(p)
  BY DEF Written
<1>2. EndOf(p) \in Nat /\ Len(s) \in Nat
  BY EndOfIs
<1>3. w \in Seq(Byte)
  <2>1. 0 \in Nat /\ Len(s) <= Len(s)
    BY <1>2
  <2> QED BY <1>2, <2>1, HeadIs, Zenon DEF LastRunOf
<1>4. Len(b) + Len(w) <= Len(s) + Len(s) \div ByteMax + 2
  BY <1>1, <1>2, LastRunCost, Zenon
<1>5. PICK c \in [0..Len(p) -> Nat] : Cuts(s, p, b, c) /\ c[Len(p)] = Len(b)
  BY Zenon DEF Written
<1> HIDE DEF w
<1>6. b \o w \in Seq(Byte) /\ Len(b \o w) = Len(b) + Len(w)
  BY <1>1, <1>3, Joined, Zenon
<1>7. Cuts(s, p, b \o w, c) /\ Holds(b \o w, Len(b), w)
  BY <1>1, <1>3, <1>5, CutsKept, HoldsEnd, Zenon
<1>8. Len(s) \div ByteMax \in Nat
  <2>1. ByteMax \in Nat /\ ByteMax >= 1
    BY Sizes
  <2> QED BY <1>2, <2>1, DivMod, Zenon
<1>9. Len(b \o w) <= Len(s) + Len(s) \div ByteMax + BoundSlack
  <2>1. BoundSlack \in Nat /\ BoundSlack >= 2
    BY Lz4Assumption
  <2> QED BY <1>1, <1>2, <1>3, <1>4, <1>6, <1>8, <2>1
<1> QED
  BY <1>5, <1>6, <1>7, <1>9, Zenon DEF Packed, w

--------------------------------------------------------------------------------
(* The block holds the sequences of the parse, and at the end the last run.   *)
Working == stage = "main" \/ stage = "search2" \/ stage = "search3"
Blocks ==
  /\ Working => Written(src, parse, block)
  /\ ~Working => Packed(src, parse, block)

LEMMA Latest ==
  ASSUME NEW s, NEW q, Following(s, q), NEW m, Following(s, Append(q, m))
  PROVE  IsMatch(s, m) /\ EndOf(q) <= m.at
<1> DEFINE p == Append(q, m)
<1>1. q \in Seq(Triple \cup {m}) /\ m \in Triple \cup {m} /\ Len(q) \in Nat /\ q \in Seq(Triple)
  <2>1. q \in Seq(Triple)
    BY Zenon DEF Following
  <2> QED BY <2>1
<1>2. Len(p) = Len(q) + 1 /\ p[Len(q) + 1] = m /\ \A i \in 1..Len(q) : p[i] = q[i]
  BY <1>1
<1> HIDE DEF p
<1>3. Following(s, p)
  BY Zenon DEF p
<1>4. Len(q) + 1 \in 1..Len(p) /\ Len(q) + 1 # 0
  BY <1>1, <1>2
<1>5. IsMatch(s, m)
  BY <1>2, <1>3, <1>4, Zenon DEF Following
<1>6. CASE Len(q) = 0
  <2>1. EndOf(q) = 0
    BY <1>6, UptoIs, Zenon
  <2>2. m.at \in Nat
    BY <1>5, MatchNumbers, Zenon
  <2> QED BY <1>5, <2>1, <2>2
<1>7. CASE Len(q) # 0
  <2>1. Len(q) + 1 \in 2..Len(p) /\ Len(q) \in 1..Len(q) /\ (Len(q) + 1) - 1 = Len(q)
    BY <1>1, <1>2, <1>7
  <2>2. End(p[Len(q)]) <= m.at
    BY <1>2, <1>3, <2>1, Zenon DEF Following
  <2>3. EndOf(q) = End(q[Len(q)])
    BY <2>1, UptoIs, Zenon
  <2> QED BY <1>2, <1>5, <2>1, <2>2, <2>3, Zenon
<1> QED BY <1>6, <1>7, Zenon

LEMMA EndWithin ==
  ASSUME NEW s, Len(s) \in Nat, NEW p, Following(s, p)
  PROVE  EndOf(p) \in Nat /\ EndOf(p) <= Len(s)
         /\ (Len(p) # 0 => EndOf(p) + LastLiterals <= Len(s))
<1>1. EndOf(p) \in Nat /\ Len(p) \in Nat /\ LastLiterals \in Nat
  BY UptoIs, EndOfIs, Sizes, Zenon
<1>2. CASE Len(p) = 0
  <2>1. EndOf(p) = 0
    BY <1>2, UptoIs, Zenon
  <2> QED BY <1>2, <2>1
<1>3. CASE Len(p) # 0
  <2>1. Len(p) \in 1..Len(p)
    BY <1>1, <1>3
  <2>2. IsMatch(s, p[Len(p)]) /\ EndOf(p) = End(p[Len(p)])
    BY <2>1, UptoIs, Zenon
  <2>3. EndOf(p) + LastLiterals <= Len(s)
    BY <2>2, MatchNumbers, Zenon
  <2> QED BY <1>1, <2>3
<1> QED BY <1>2, <1>3, Zenon

LEMMA WorkingStages ==
  ASSUME [Next]_vars
  PROVE  \/ Working /\ Working' /\ parse' = parse /\ block' = block
         \/ Working /\ Working' /\ \E m : Encode(m)
         \/ Working /\ Working' /\ EncodeBoth
         \/ Working /\ ~Working' /\ Finish
         \/ ~Working /\ ~Working' /\ parse' = parse /\ block' = block
         \/ stage' = stage /\ parse' = parse /\ block' = block
<1>1. CASE FindFirst \/ FindNone \/ SecondReplaces \/ SecondFollows \/ ThirdReplaces
  <2>1. Working
    BY <1>1, Zenon DEF FindFirst, FindNone, SecondReplaces, SecondFollows, ThirdReplaces, Searching, Working
  <2>2. parse' = parse /\ block' = block
    BY <1>1, Zenon DEF FindFirst, FindNone, SecondReplaces, SecondFollows, ThirdReplaces
  <2>3. stage' = stage \/ stage' = "search2" \/ stage' = "search3"
    BY <1>1, Zenon DEF FindFirst, FindNone, SecondReplaces, SecondFollows, ThirdReplaces
  <2> QED BY <2>1, <2>2, <2>3, Zenon DEF Working
<1>2. CASE EncodeFirst \/ ThirdAfterFirst \/ ThirdAscends
  <2>1. Working
    BY <1>2, Zenon DEF EncodeFirst, ThirdAfterFirst, ThirdAscends, Working
  <2>2. \E m : Encode(m)
    BY <1>2, Zenon DEF EncodeFirst, ThirdAfterFirst, ThirdAscends
  <2>3. stage' = stage \/ stage' = "search2" \/ stage' = "main"
    BY <1>2, Zenon DEF EncodeFirst, ThirdAfterFirst, ThirdAscends
  <2> QED BY <2>1, <2>2, <2>3, Zenon DEF Working
<1>3. CASE EncodeBoth
  BY <1>3, Zenon DEF EncodeBoth, Working
<1>4. CASE Finish
  BY <1>4, Zenon DEF Finish, Working
<1>5. CASE Call \/ Decompress
  <2>1. stage = "packed" \/ stage = "decode"
    BY <1>5, Zenon DEF Call, Decompress, DecodeEmpty, DecodeSequence, DecodeLast, DecodeNoLength, Decoding
  <2>2. stage' = "decode" \/ stage' = "ok" \/ stage' = "error"
    BY <1>5, Zenon DEF Call, Decompress, DecodeEmpty, DecodeSequence, DecodeLast, DecodeNoLength,
                       Answer, Decoding
  <2>3. parse' = parse /\ block' = block
    BY <1>5, Zenon DEF Call, Decompress, DecodeEmpty, DecodeSequence, DecodeLast, DecodeNoLength,
                       Answer, coding
  <2> QED BY <2>1, <2>2, <2>3, Zenon DEF Working
<1>6. CASE UNCHANGED vars
  BY <1>6 DEF vars, coding
<1> QED
  BY <1>1, <1>2, <1>3, <1>4, <1>5, <1>6, Zenon DEF Next, Compress, Ended

LEMMA SourceKept ==
  ASSUME [Next]_vars
  PROVE  src' = src
<1>1. CASE Compress \/ Call \/ Decompress
  BY <1>1, Zenon DEF Compress, FindFirst, FindNone, EncodeFirst, SecondReplaces, SecondFollows, EncodeBoth,
                     ThirdReplaces, ThirdAfterFirst, ThirdAscends, Finish, Call, Decompress,
                     DecodeEmpty, DecodeSequence, DecodeLast, DecodeNoLength, Answer
<1>2. CASE UNCHANGED vars
  BY <1>2 DEF vars
<1> QED BY <1>1, <1>2, Zenon DEF Next, Ended

LEMMA BlocksNext ==
  ASSUME Steering, Blocks, [Next]_vars
  PROVE  Blocks'
<1>1. src \in Sources /\ Following(src, parse)
  BY Zenon DEF Steering
<1>2. src \in Seq(Byte) /\ Len(src) \in Nat /\ n = Len(src) /\ src' = src
  BY <1>1, SourceIs, SourceKept, Zenon
<1>3. Following(src, parse')
  BY <1>2, SteeringNext, Zenon DEF Steering
<1>4. CASE Working /\ Working' /\ parse' = parse /\ block' = block
  BY <1>2, <1>4, Zenon DEF Blocks
<1>5. CASE Working /\ Working' /\ \E m : Encode(m)
  <2>1. PICK m : parse' = Append(parse, m) /\ block' = block \o Sequence(anchor, m)
    BY <1>5, Zenon DEF Encode
  <2>2. IsMatch(src, m) /\ EndOf(parse) <= m.at
    BY <1>1, <1>3, <2>1, Latest, Zenon
  <2>3. Written(src, Append(parse, m), block \o SequenceOf(src, EndOf(parse), m))
    BY <1>1, <1>2, <1>5, <2>2, WrittenMore, Zenon DEF Blocks
  <2>4. block' = block \o SequenceOf(src, EndOf(parse), m)
    BY <2>1, AnchorIs, SequenceIs, Zenon
  <2> QED BY <1>2, <1>5, <2>1, <2>3, <2>4, Zenon DEF Blocks
<1>6. CASE Working /\ Working' /\ EncodeBoth
  <2> DEFINE first == Trimmed(m1, second)
  <2>1. /\ parse' = parse \o <<first, second>>
        /\ block' = (block \o Sequence(anchor, first)) \o Sequence(End(first), second)
    BY <1>6, Zenon DEF EncodeBoth
  <2>2. Three(src, EndOf(parse), m1, m2) /\ EndOf(parse) \in Nat
    BY <1>1, <1>6, EndOfIs, Zenon DEF Steering, EncodeBoth
  <2>3. IsMatch(src, first) /\ EndOf(parse) <= first.at /\ End(first) <= second.at /\ IsMatch(src, second)
    BY <1>1, <2>2, TrimmedFirst, CorrectedSecond, Zenon
  <2> HIDE DEF first
  <2>4. Following(src, Append(parse, first)) /\ EndOf(Append(parse, first)) = End(first)
    BY <1>1, <2>3, OneMore, Zenon
  <2> DEFINE b == block \o SequenceOf(src, EndOf(parse), first)
             p == Append(parse, first)
             x == second
  <2>5. Written(src, p, b)
    BY <1>1, <1>2, <1>6, <2>3, WrittenMore, Zenon DEF Blocks
  <2>6. Following(src, p) /\ EndOf(p) = End(first) /\ IsMatch(src, x) /\ EndOf(p) <= x.at
    BY <2>3, <2>4, Zenon
  <2> HIDE DEF b, p, x
  <2>7. Written(src, Append(p, x), b \o SequenceOf(src, EndOf(p), x))
    BY <1>2, <2>5, <2>6, WrittenMore, Zenon
  <2>8. block' = b \o SequenceOf(src, EndOf(p), x)
    BY <2>1, <2>6, AnchorIs, SequenceIs, Zenon DEF b, x
  <2>9. parse' = Append(p, x)
    <3>1. parse \in Seq(Triple) /\ first \in Triple /\ x \in Triple
      BY <1>1, <2>3, <2>6, Zenon DEF Following, IsMatch
    <3>2. parse \o <<first, x>> = Append(Append(parse, first), x)
      BY <3>1
    <3> QED BY <2>1, <3>2, Zenon DEF p, x
  <2> QED BY <1>2, <1>6, <2>7, <2>8, <2>9, Zenon DEF Blocks
<1>7. CASE Working /\ ~Working' /\ Finish
  <2>1. block' = block \o LastRun(anchor) /\ parse' = parse
    BY <1>7, Zenon DEF Finish, coding
  <2>2. EndOf(parse) <= Len(src)
    BY <1>1, <1>2, EndWithin, Zenon
  <2>3. Packed(src, parse, block \o LastRunOf(src, EndOf(parse)))
    BY <1>1, <1>2, <1>7, <2>2, PackedIs, Zenon DEF Blocks
  <2>4. block' = block \o LastRunOf(src, EndOf(parse))
    BY <2>1, AnchorIs, SequenceIs, Zenon
  <2> QED BY <1>2, <1>7, <2>1, <2>3, <2>4, Zenon DEF Blocks
<1>8. CASE ~Working /\ ~Working' /\ parse' = parse /\ block' = block
  BY <1>2, <1>8, Zenon DEF Blocks
<1>9. CASE stage' = stage /\ parse' = parse /\ block' = block
  BY <1>2, <1>9, Zenon DEF Blocks, Working
<1> QED
  BY <1>4, <1>5, <1>6, <1>7, <1>8, <1>9, WorkingStages, Zenon

LEMMA BlocksInit ==
  ASSUME Init
  PROVE  Blocks
<1>1. stage = "main" /\ parse = <<>> /\ block = <<>>
  BY Zenon DEF Init
<1>2. EndOf(<<>>) = 0
  BY Zenon DEF EndOf
<1>3. Len(<<>>) = 0 /\ <<>> \in Seq(Byte)
  OBVIOUS
<1>4. ByteMax * 0 <= (ByteMax + 1) * 0
  BY Sizes
<1>5. Written(src, <<>>, <<>>)
  <2> DEFINE c == [k \in 0..0 |-> 0]
  <2>1. c \in [0..0 -> Nat] /\ c[0] = 0
    OBVIOUS
  <2>2. \A k \in 1..0 : FALSE
    OBVIOUS
  <2> HIDE DEF c
  <2>3. Cuts(src, <<>>, <<>>, c)
    BY <1>3, <2>1, <2>2, Zenon DEF Cuts
  <2>4. \E d \in [0..Len(<<>>) -> Nat] : Cuts(src, <<>>, <<>>, d) /\ d[Len(<<>>)] = Len(<<>>)
    BY <1>3, <2>1, <2>3, Zenon
  <2>5. ByteMax * Len(<<>>) <= (ByteMax + 1) * EndOf(<<>>)
    BY <1>2, <1>3, <1>4, Zenon
  <2> QED BY <1>3, <2>4, <2>5, Zenon DEF Written
<1> QED BY <1>1, <1>5, Zenon DEF Blocks, Working

LEMMA BlocksBound ==
  ASSUME Steering, Blocks
  PROVE  WithinBound
<1>1. src \in Sources /\ Following(src, parse)
  BY Zenon DEF Steering
<1>2. src \in Seq(Byte) /\ Len(src) \in Nat /\ n = Len(src)
  BY <1>1, SourceIs, Zenon
<1>3. BoundSlack \in Nat /\ ByteMax \in Nat /\ ByteMax >= 1
  BY Lz4Assumption, Sizes
<1>4. CASE Working
  <2>1. block \in Seq(Byte) /\ ByteMax * Len(block) <= (ByteMax + 1) * EndOf(parse)
    BY <1>4, Zenon DEF Blocks, Written
  <2>2. Len(block) \in Nat
    BY <2>1
  <2>3. EndOf(parse) \in Nat /\ EndOf(parse) <= Len(src)
    BY <1>1, <1>2, EndWithin, Zenon
  <2> DEFINE q == Len(src) \div ByteMax
  <2>4. q \in Nat /\ Len(src) <= ByteMax * q + ByteMax
    <3>1. /\ q \in Nat /\ Len(src) % ByteMax \in 0..(ByteMax - 1)
          /\ Len(src) = ByteMax * q + (Len(src) % ByteMax)
      BY <1>2, <1>3, DivMod, Zenon
    <3> DEFINE r == Len(src) % ByteMax
    <3>2. r \in 0..(ByteMax - 1) /\ Len(src) = ByteMax * q + r
      BY <3>1, Zenon
    <3> HIDE DEF q, r
    <3>3. ByteMax * q \in Nat
      BY <1>3, <3>1
    <3> QED BY <1>3, <3>1, <3>2, <3>3
  <2> HIDE DEF q
  <2>5. \A B, x, e, l, d \in Nat : B >= 1 /\ B * x <= (B + 1) * e /\ e <= l /\ l <= B * d + B
          => x <= l + d + 1
    <3> SUFFICES ASSUME NEW B \in Nat, NEW x \in Nat, NEW e \in Nat, NEW l \in Nat, NEW d \in Nat,
                        B >= 1, B * x <= (B + 1) * e, e <= l, l <= B * d + B
                 PROVE  x <= l + d + 1
      OBVIOUS
    <3>1. (B + 1) * e <= (B + 1) * l
      OBVIOUS
    <3>2. (B + 1) * l = B * l + l /\ B * (l + d + 1) = B * l + B * d + B
      OBVIOUS
    <3>3. B * x \in Nat /\ B * l \in Nat /\ B * d \in Nat /\ (B + 1) * e \in Nat
      OBVIOUS
    <3>4. B * x <= B * (l + d + 1)
      BY <3>1, <3>2, <3>3
    <3>5. \A u, v \in Nat : B * u <= B * v => u <= v
      OBVIOUS
    <3> QED BY <3>4, <3>5
  <2>6. Len(block) <= Len(src) + q + 1
    BY <1>2, <1>3, <2>1, <2>2, <2>3, <2>4, <2>5, Zenon
  <2>7. BoundSlack >= 1
    BY Lz4Assumption
  <2>8. Len(block) <= Len(src) + q + BoundSlack
    BY <1>2, <1>3, <2>2, <2>4, <2>6, <2>7
  <2> QED BY <1>2, <2>8, Zenon DEF WithinBound, q
<1>5. CASE ~Working
  BY <1>2, <1>5, Zenon DEF Blocks, Packed, WithinBound
<1> QED BY <1>4, <1>5, Zenon

(* The compressor does not look at the end of its buffer: the size           *)
(* LZ4_compressBound asks for is enough for every source.                    *)
THEOREM BlockAlwaysWithinBound == Spec => []WithinBound
<1>1. Init => Steering /\ Blocks
  BY SteeringInit, BlocksInit, Zenon
<1>2. Steering /\ Blocks /\ [Next]_vars => Steering' /\ Blocks'
  BY SteeringNext, BlocksNext, Zenon
<1>3. Steering /\ Blocks => WithinBound
  BY BlocksBound, Zenon
<1> QED
  BY <1>1, <1>2, <1>3, PTL DEF Spec

--------------------------------------------------------------------------------
(* Reading what was written.                                                 *)
LEMMA HoldsParts ==
  ASSUME NEW S, NEW u \in Seq(S), NEW v \in Seq(S), NEW b, NEW p \in Nat, Len(b) \in Nat, Holds(b, p, u \o v)
  PROVE  Holds(b, p, u) /\ Holds(b, p + Len(u), v)
<1>1. Len(u \o v) = Len(u) + Len(v) /\ Len(u) \in Nat /\ Len(v) \in Nat
  BY Joined
<1>2. p + Len(u \o v) <= Len(b) /\ \A i \in 1..Len(u \o v) : b[p + i] = (u \o v)[i]
  BY Zenon DEF Holds
<1>3. p + Len(u) <= Len(b) /\ (p + Len(u)) + Len(v) <= Len(b)
  BY <1>1, <1>2
<1>4. \A i \in 1..Len(u) : b[p + i] = u[i]
  <2>1. \A i \in 1..Len(u) : i \in 1..Len(u \o v)
    BY <1>1
  <2>2. \A i \in 1..Len(u) : (u \o v)[i] = u[i]
    OBVIOUS
  <2> QED BY <1>2, <2>1, <2>2, Zenon
<1>5. \A i \in 1..Len(v) : b[(p + Len(u)) + i] = v[i]
  <2>1. \A i \in 1..Len(v) : Len(u) + i \in 1..Len(u \o v) /\ p + (Len(u) + i) = (p + Len(u)) + i
    BY <1>1
  <2>2. \A i \in 1..Len(v) : (u \o v)[Len(u) + i] = v[i]
    OBVIOUS
  <2>3. \A i \in 1..Len(v) : b[p + (Len(u) + i)] = v[i]
    BY <1>2, <2>1, <2>2, Zenon
  <2> QED BY <2>1, <2>3, Zenon
<1> QED BY <1>3, <1>4, <1>5, Zenon DEF Holds

(* The bytes of a length are read back, if they end by the limit.            *)
LEMMA LengthIs ==
  ASSUME NEW x \in Nat, NEW from \in Nat, Holds(block, from, Extra(x)), NEW limit \in Int
  PROVE  /\ \A l \in Length(Smaller(x, RunMask), RunMask, from, limit) :
              /\ l.add \in Nat /\ Smaller(x, RunMask) + l.add = x /\ l.next = from + Len(Extra(x))
              /\ x < RunMask \/ l.next <= limit
         /\ x < RunMask \/ from + Len(Extra(x)) <= limit
            => Length(Smaller(x, RunMask), RunMask, from, limit) # {}
<1>1. RunMask \in Nat /\ ByteMax \in Nat /\ ByteMax >= 3
  BY Sizes
<1>2. CASE x < RunMask
  <2>1. Smaller(x, RunMask) = x
    BY <1>2, Zenon DEF Smaller
  <2>2. Length(x, RunMask, from, limit) = {[add |-> 0, next |-> from]}
    BY <1>2, Zenon DEF Length
  <2>3. Len(Extra(x)) = 0
    BY <1>2, ExtraNone, Zenon
  <2>4. x + 0 = x /\ from = from + 0
    OBVIOUS
  <2>5. \A l \in {[add |-> 0, next |-> from]} : l.add = 0 /\ l.next = from
    OBVIOUS
  <2>6. \A l \in Length(x, RunMask, from, limit) : l.add \in Nat /\ x + l.add = x /\ l.next = from + 0
    <3>1. 0 \in Nat
      OBVIOUS
    <3> QED BY <2>2, <2>4, <2>5, <3>1, Zenon
  <2>7. Length(x, RunMask, from, limit) # {}
    BY <2>2
  <2> QED BY <1>2, <2>1, <2>3, <2>6, <2>7, Zenon
<1>3. CASE ~(x < RunMask)
  <2>1. x >= RunMask
    BY <1>1, <1>3
  <2>2. PICK q \in Nat, r \in 0..(ByteMax - 1) :
           /\ Len(Extra(x)) = q + 1 /\ x - RunMask = ByteMax * q + r
           /\ \A i \in 1..q : Extra(x)[i] = ByteMax
           /\ Extra(x)[q + 1] = r
    BY <2>1, ExtraSome, Zenon
  <2>3. \A i \in 1..(q + 1) : block[from + i] = Extra(x)[i]
    BY <2>2, Zenon DEF Holds
  <2>4. \A k \in from..(from + q - 1) : At(k) = ByteMax
    <3> SUFFICES ASSUME NEW k \in from..(from + q - 1) PROVE block[k + 1] = ByteMax
      BY DEF At
    <3>1. (k + 1) - from \in 1..q /\ (k + 1) - from \in 1..(q + 1) /\ from + ((k + 1) - from) = k + 1
      OBVIOUS
    <3>2. block[from + ((k + 1) - from)] = ByteMax
      BY <2>2, <2>3, <3>1, Zenon
    <3> QED BY <3>1, <3>2, Zenon
  <2>5. At(from + q) = r /\ r # ByteMax
    <3>1. q + 1 \in 1..(q + 1) /\ from + (q + 1) = (from + q) + 1 /\ r # ByteMax
      BY <1>1
    <3>2. block[from + (q + 1)] = r
      BY <2>2, <2>3, <3>1, Zenon
    <3> QED BY <3>1, <3>2, Zenon DEF At
  <2> DEFINE stops == {k \in from..(limit - 1) : At(k) # ByteMax}
  <2>6. \A k \in stops : k >= from + q
    <3> SUFFICES ASSUME NEW k \in from..(limit - 1), At(k) # ByteMax PROVE k >= from + q
      OBVIOUS
    <3>1. ASSUME ~(k >= from + q) PROVE FALSE
      <4>1. k \in from..(from + q - 1)
        BY <3>1
      <4> QED BY <2>4, <4>1, Zenon
    <3> QED BY <3>1
  <2>7. from + q <= limit - 1 => from + q \in stops
    BY <2>5
  <2>8. ASSUME stops # {} PROVE Least(stops) = from + q /\ from + q <= limit - 1
    <3>1. stops \in SUBSET Nat
      OBVIOUS
    <3>2. Least(stops) \in stops /\ \A k \in stops : Least(stops) <= k
      BY <2>8, <3>1, LeastIs, Zenon
    <3> DEFINE least == Least(stops)
    <3>3. least \in Nat /\ least >= from + q /\ least <= limit - 1
      <4>1. least \in from..(limit - 1)
        BY <3>2, Zenon
      <4>2. least >= from + q
        BY <2>6, <3>2, Zenon
      <4> HIDE DEF least
      <4> QED BY <4>1, <4>2
    <3>4. from + q <= limit - 1
      <4> HIDE DEF least
      <4> QED BY <3>3
    <3>5. least <= from + q
      BY <2>7, <3>2, <3>4, Zenon
    <3> HIDE DEF least, stops
    <3>6. least = from + q
      BY <3>3, <3>5
    <3> QED BY <3>4, <3>6, Zenon DEF least
  <2>9. Smaller(x, RunMask) = RunMask
    BY <1>3, Zenon DEF Smaller
  <2>10. ~(RunMask < RunMask)
    BY <1>1
  <2>11. Length(RunMask, RunMask, from, limit) =
           IF stops = {} THEN {}
           ELSE {[add |-> (Least(stops) - from) * ByteMax + At(Least(stops)), next |-> Least(stops) + 1]}
    BY <2>10, Zenon DEF Length
  <2> HIDE DEF stops
  <2>12. (from + q) - from = q
    OBVIOUS
  <2>13. stops # {} => Length(RunMask, RunMask, from, limit) =
                         {[add |-> q * ByteMax + r, next |-> (from + q) + 1]}
    BY <2>5, <2>8, <2>11, <2>12, Zenon
  <2> DEFINE z == q * ByteMax + r
             f == (from + q) + 1
  <2>14. RunMask + z = x /\ f = from + (q + 1) /\ z \in Nat
    <3>1. ByteMax * q = q * ByteMax /\ q * ByteMax \in Nat
      BY <1>1
    <3> QED BY <1>1, <2>2, <3>1
  <2> HIDE DEF z, f
  <2>15. \A l \in {[add |-> z, next |-> f]} : l.add = z /\ l.next = f
    OBVIOUS
  <2>16. stops # {} => Length(RunMask, RunMask, from, limit) = {[add |-> z, next |-> f]}
    BY <2>13 DEF z, f
  <2>17. stops # {} => f <= limit
    BY <2>8 DEF f
  <2>18. \A l \in Length(RunMask, RunMask, from, limit) : stops # {}
    BY <2>11, Zenon
  <2>19. \A l \in Length(RunMask, RunMask, from, limit) :
           l.add \in Nat /\ RunMask + l.add = x /\ l.next = from + (q + 1) /\ l.next <= limit
    BY <2>14, <2>15, <2>16, <2>17, <2>18, Zenon
  <2>20. ASSUME from + (q + 1) <= limit PROVE Length(RunMask, RunMask, from, limit) # {}
    <3>1. stops # {}
      <4>1. from + q <= limit - 1
        BY <2>20
      <4> QED BY <2>7, <4>1
    <3> QED BY <2>16, <3>1
  <2> QED BY <1>3, <2>2, <2>9, <2>19, <2>20, Zenon
<1> QED BY <1>2, <1>3, Zenon

--------------------------------------------------------------------------------
(* The source, piece by piece.                                               *)
LEMMA Spliced ==
  ASSUME NEW s \in Seq(Byte), NEW u \in Seq(Byte), NEW v \in Seq(Byte), Len(u) + Len(v) <= Len(s),
         \A i \in 1..Len(u) : u[i] = s[i], \A i \in 1..Len(v) : v[i] = s[Len(u) + i]
  PROVE  u \o v = SubSeq(s, 1, Len(u) + Len(v))
<1> DEFINE w == SubSeq(s, 1, Len(u) + Len(v))
           x == u \o v
<1>1. Len(u) \in Nat /\ Len(v) \in Nat
  OBVIOUS
<1>2. w \in Seq(Byte) /\ Len(w) = Len(u) + Len(v) /\ \A i \in 1..(Len(u) + Len(v)) : w[i] = s[i]
  OBVIOUS
<1>3. /\ x \in Seq(Byte) /\ Len(x) = Len(u) + Len(v)
      /\ \A i \in 1..Len(u) : x[i] = u[i]
      /\ \A i \in 1..Len(v) : x[Len(u) + i] = v[i]
  BY Joined
<1> HIDE DEF w, x
<1>4. \A i \in 1..Len(x) : x[i] = w[i]
  <2> SUFFICES ASSUME NEW i \in 1..(Len(u) + Len(v)) PROVE x[i] = w[i]
    BY <1>3
  <2>1. CASE i \in 1..Len(u)
    BY <1>2, <1>3, <2>1, Zenon
  <2>2. CASE i \notin 1..Len(u)
    <3>1. i - Len(u) \in 1..Len(v) /\ Len(u) + (i - Len(u)) = i
      BY <1>1, <2>2
    <3>2. x[Len(u) + (i - Len(u))] = s[Len(u) + (i - Len(u))]
      BY <1>3, <3>1, Zenon
    <3> QED BY <1>2, <3>1, <3>2, Zenon
  <2> QED BY <2>1, <2>2, Zenon
<1>5. x = w
  BY <1>2, <1>3, <1>4, SeqEqual, Zenon
<1> QED BY <1>5 DEF x, w

LEMMA LiteralsCopied ==
  ASSUME NEW s \in Seq(Byte), NEW b \in Seq(Byte), NEW e \in Nat, NEW to \in Nat, e <= to, to <= Len(s),
         NEW p \in Nat, Holds(b, p, SubSeq(s, e + 1, to))
  PROVE  SubSeq(s, 1, e) \o SubSeq(b, p + 1, p + (to - e)) = SubSeq(s, 1, to)
<1>1. to - e \in Nat /\ e <= Len(s) /\ e + (to - e) = to
  OBVIOUS
<1>2. Len(SubSeq(s, e + 1, to)) = to - e /\ \A i \in 1..(to - e) : SubSeq(s, e + 1, to)[i] = s[e + i]
  BY Slice
<1>3. p + (to - e) <= Len(b) /\ \A i \in 1..(to - e) : b[p + i] = s[e + i]
  BY <1>2, Zenon DEF Holds
<1> DEFINE u == SubSeq(s, 1, e)
           v == SubSeq(b, p + 1, p + (to - e))
<1>4. u \in Seq(Byte) /\ Len(u) = e /\ \A i \in 1..e : u[i] = s[i]
  OBVIOUS
<1>5. v \in Seq(Byte) /\ Len(v) = to - e /\ \A i \in 1..(to - e) : v[i] = b[p + i]
  <2>1. p <= p + (to - e) /\ (p + (to - e)) - p = to - e /\ p + (to - e) \in Nat
    OBVIOUS
  <2> QED BY <1>3, <2>1, Slice
<1> HIDE DEF u, v
<1>6. \A i \in 1..Len(v) : v[i] = s[Len(u) + i]
  BY <1>3, <1>4, <1>5, Zenon
<1>7. Len(u) + Len(v) = to
  BY <1>1, <1>4, <1>5, Zenon
<1>8. Len(u) + Len(v) <= Len(s) /\ \A i \in 1..Len(u) : u[i] = s[i]
  BY <1>4, <1>7, Zenon
<1>9. u \o v = SubSeq(s, 1, Len(u) + Len(v))
  BY <1>4, <1>5, <1>6, <1>8, Spliced, Zenon
<1> QED BY <1>7, <1>9, Zenon DEF u, v

(* Bytes that repeat those a distance back repeat those before them, round    *)
(* and round: the copy may overlap itself.                                   *)
Alike(s, a, r, l) == \A i \in 1..l : s[a + i] = s[r + i]
Periodic(s, a, r, l) == \A i \in 1..l : s[a + i] = s[(r + 1) + ((i - 1) % (a - r))]

LEMMA RoundAndRound ==
  ASSUME NEW s, NEW a \in Nat, NEW r \in Nat, r < a, NEW l \in Nat, Alike(s, a, r, l)
  PROVE  Periodic(s, a, r, l)
<1> DEFINE o == a - r
           bad == {i \in 1..l : s[a + i] # s[(r + 1) + ((i - 1) % o)]}
<1>1. o \in Nat /\ o >= 1
  OBVIOUS
<1>2. SUFFICES ASSUME bad # {} PROVE FALSE
  BY Zenon DEF Periodic
<1>3. bad \in SUBSET Nat
  OBVIOUS
<1>4. PICK i \in bad : \A j \in bad : i <= j
  BY <1>2, <1>3, LeastNatural, Zenon
<1>5. i \in 1..l /\ s[a + i] = s[r + i]
  BY <1>4, Zenon DEF Alike
<1>6. s[a + i] # s[(r + 1) + ((i - 1) % o)]
  BY <1>4, Zenon
<1>7. CASE i <= o
  <2>1. (i - 1) % o = i - 1
    BY <1>1, <1>5, <1>7
  <2>2. (r + 1) + (i - 1) = r + i
    BY <1>5
  <2> QED BY <1>5, <1>6, <2>1, <2>2, Zenon
<1>8. CASE i > o
  <2>1. i - o \in 1..l /\ i - o < i /\ a + (i - o) = r + i
    BY <1>1, <1>5, <1>8
  <2>2. i - o \notin bad
    <3> HIDE DEF bad, o
    <3>1. \A j \in bad : i <= j
      BY <1>4, Zenon
    <3>2. ~(i <= i - o)
      BY <1>1, <1>5
    <3> QED BY <3>1, <3>2, Zenon
  <2>3. s[a + (i - o)] = s[(r + 1) + (((i - o) - 1) % o)]
    BY <2>1, <2>2, Zenon
  <2>4. ((i - o) - 1) % o = (i - 1) % o
    <3> HIDE DEF o
    <3> DEFINE x == (i - o) - 1
               q == x \div o
               t == x % o
    <3>1. x \in Nat /\ i - 1 = x + o /\ i - 1 \in Nat
      BY <1>1, <1>5, <2>1
    <3> HIDE DEF x
    <3>2. q \in Nat /\ t \in 0..(o - 1) /\ x = o * q + t
      BY <1>1, <3>1, DivMod, Zenon
    <3> HIDE DEF q, t
    <3>3. o * (q + 1) = o * q + o /\ o * q \in Nat
      BY <1>1, <3>2
    <3>4. i - 1 = o * (q + 1) + t /\ q + 1 \in Nat
      BY <1>1, <3>1, <3>2, <3>3
    <3> DEFINE y == i - 1
               g == q + 1
    <3>5. y \in Nat /\ g \in Nat /\ y = o * g + t
      BY <3>1, <3>4
    <3> HIDE DEF y, g
    <3>6. y % o = t
      BY <1>1, <3>2, <3>5
    <3> QED BY <3>6, Zenon DEF x, y, t
  <2> QED BY <1>5, <1>6, <2>1, <2>3, <2>4, Zenon
<1> QED
  <2> HIDE DEF bad, o
  <2>1. i \in Nat
    BY <1>5
  <2> QED BY <1>1, <1>7, <1>8, <2>1

LEMMA MatchCopied ==
  ASSUME NEW s \in Seq(Byte), NEW a \in Nat, NEW r \in Nat, r < a, NEW l \in Nat, a + l <= Len(s), Alike(s, a, r, l)
  PROVE  Copied(SubSeq(s, 1, a), a - r, l) = SubSeq(s, 1, a + l)
<1> DEFINE u == SubSeq(s, 1, a)
           o == a - r
           v == [i \in 1..l |-> IF o = 0 THEN 0 ELSE u[Len(u) - o + 1 + ((i - 1) % o)]]
<1>0. \A i \in 1..l : s[a + i] = s[(r + 1) + ((i - 1) % o)]
  <2>1. Periodic(s, a, r, l)
    BY RoundAndRound, Zenon
  <2> QED BY <2>1, Zenon DEF Periodic
<1>1. o \in Nat /\ o >= 1 /\ a + l \in Nat /\ a <= Len(s)
  OBVIOUS
<1>2. u \in Seq(Byte) /\ Len(u) = a /\ \A i \in 1..a : u[i] = s[i]
  OBVIOUS
<1>4. \A i \in 1..l : v[i] = s[a + i]
  <2> SUFFICES ASSUME NEW i \in 1..l PROVE v[i] = s[a + i]
    OBVIOUS
  <2> DEFINE t == (i - 1) % o
  <2>1. t \in 0..(o - 1)
    <3>1. i - 1 \in Nat
      OBVIOUS
    <3> HIDE DEF o
    <3> QED BY <1>1, <3>1, DivMod, Zenon
  <2>2. s[a + i] = s[(r + 1) + t]
    BY <1>0, Zenon
  <2>3. v[i] = u[Len(u) - o + 1 + t]
    BY <1>1
  <2> HIDE DEF t, u, v
  <2>4. a - o + 1 + t = (r + 1) + t /\ (r + 1) + t \in 1..a
    BY <2>1
  <2>5. u[(r + 1) + t] = s[(r + 1) + t]
    BY <1>2, <2>4, Zenon
  <2> QED BY <1>2, <2>2, <2>3, <2>4, <2>5, Zenon
<1>5. v \in Seq(Byte) /\ Len(v) = l
  <2>1. \A i \in 1..l : a + i \in 1..Len(s)
    OBVIOUS
  <2>2. \A i \in 1..l : s[a + i] \in Byte
    BY <2>1
  <2>3. \A i \in 1..l : v[i] \in Byte
    BY <1>4, <2>2, Zenon
  <2> DEFINE g(i) == IF o = 0 THEN 0 ELSE u[Len(u) - o + 1 + ((i - 1) % o)]
  <2>4. \A i \in 1..l : v[i] = g(i)
    OBVIOUS
  <2>5. \A i \in 1..l : g(i) \in Byte
    BY <2>3, <2>4, Zenon
  <2>6. v = [i \in 1..l |-> g(i)]
    OBVIOUS
  <2> HIDE DEF g, v
  <2> QED BY <2>5, <2>6
<1>6. Copied(u, o, l) = u \o v
  BY Zenon DEF Copied
<1> HIDE DEF u, v, o
<1>7. Len(u) + Len(v) <= Len(s) /\ \A i \in 1..Len(u) : u[i] = s[i]
  BY <1>2, <1>5, Zenon
<1>8. \A i \in 1..Len(v) : v[i] = s[Len(u) + i]
  BY <1>2, <1>4, <1>5, Zenon
<1>9. u \o v = SubSeq(s, 1, Len(u) + Len(v))
  BY <1>2, <1>5, <1>7, <1>8, Spliced, Zenon
<1>10. u \o v = SubSeq(s, 1, a + l)
  BY <1>2, <1>5, <1>9, Zenon
<1> QED BY <1>6, <1>10, Zenon DEF u, o

--------------------------------------------------------------------------------
(* What the decoder reads where a sequence, or the last run, begins.          *)
LEMMA HeadRead ==
  ASSUME src \in Seq(Byte), block \in Seq(Byte), NEW e \in Nat, NEW to \in Nat, e <= to, to <= Len(src),
         NEW y \in Nat, ip \in Nat, iend \in Nat, Holds(block, ip, HeadOf(src, e, to, y)),
         out = SubSeq(src, 1, e)
  PROVE  /\ literals = Smaller(to - e, RunMask) /\ literals \in Nat
         /\ matching = Smaller(y, RunMask) /\ op = e
         /\ \A run \in LiteralRuns :
              /\ op + literals + run.add = to
              /\ run.next = (ip + 1) + Len(Extra(to - e))
              /\ run.next + literals + run.add = (ip + 1) + Len(Extra(to - e)) + (to - e)
              /\ Taken(run) = SubSeq(src, 1, to)
         /\ to - e < RunMask \/ (ip + 1) + Len(Extra(to - e)) <= iend - RunMask => LiteralRuns # {}
<1> DEFINE l == to - e
           t == Token(l, y)
           x == Extra(l)
           v == SubSeq(src, e + 1, to)
           h == x \o v
<1>1. l \in Nat /\ e <= Len(src) /\ e + l = to /\ Len(block) \in Nat
  OBVIOUS
<1>2. /\ t \in Seq(Byte) /\ x \in Seq(Byte) /\ v \in Seq(Byte) /\ h \in Seq(Byte)
  BY HeadIs
<1>3. HeadOf(src, e, to, y) = t \o h
  BY Zenon DEF HeadOf
<1>4. /\ Len(t) = 1 /\ t[1] \div NibbleRange = Smaller(l, RunMask)
      /\ t[1] % NibbleRange = Smaller(y, MlMask)
  BY <1>1, TokenIs, Zenon
<1>5. RunMask \in Nat /\ MlMask = RunMask
  BY Sizes
<1> HIDE DEF t, x, v, h
<1>6. Holds(block, ip, t) /\ Holds(block, ip + Len(t), h)
  BY <1>1, <1>2, <1>3, HoldsParts, Zenon
<1>7. Len(x) \in Nat /\ ip + 1 \in Nat
  BY <1>2
<1>8. Holds(block, ip + 1, x) /\ Holds(block, (ip + 1) + Len(x), v)
  BY <1>1, <1>2, <1>4, <1>6, <1>7, HoldsParts, Zenon DEF h
<1>9. At(ip) = t[1]
  <2>1. 1 \in 1..1
    OBVIOUS
  <2> QED BY <1>4, <1>6, <2>1, Zenon DEF Holds, At
<1>10. literals = Smaller(l, RunMask) /\ matching = Smaller(y, RunMask)
  BY <1>4, <1>5, <1>9, Zenon DEF literals, matching
<1>11. literals \in Nat
  BY <1>1, <1>5, <1>10 DEF Smaller
<1>12. op = e
  <2>1. e \in Nat /\ e <= Len(src)
    BY <1>1
  <2> QED BY <2>1 DEF op
<1> DEFINE limit == iend - RunMask
<1>13. limit \in Int
  BY <1>5
<1>14. LiteralRuns = Length(Smaller(l, RunMask), RunMask, ip + 1, limit)
  BY <1>10, Zenon DEF LiteralRuns
<1> HIDE DEF l, limit
<1>15. /\ \A run \in LiteralRuns : /\ run.add \in Nat /\ run.next = (ip + 1) + Len(x)
                                   /\ literals + run.add = l
       /\ l < RunMask \/ (ip + 1) + Len(x) <= limit => LiteralRuns # {}
  <2>1. Holds(block, ip + 1, Extra(l))
    BY <1>8, Zenon DEF x
  <2>2. \A run \in Length(Smaller(l, RunMask), RunMask, ip + 1, limit) :
          run.add \in Nat /\ Smaller(l, RunMask) + run.add = l /\ run.next = (ip + 1) + Len(Extra(l))
    BY <1>1, <1>7, <1>13, <2>1, LengthIs
  <2>3. l < RunMask \/ (ip + 1) + Len(Extra(l)) <= limit
           => Length(Smaller(l, RunMask), RunMask, ip + 1, limit) # {}
    BY <1>1, <1>7, <1>13, <2>1, LengthIs
  <2>4. \A run \in LiteralRuns : /\ run.add \in Nat /\ run.next = (ip + 1) + Len(x)
                                 /\ literals + run.add = l
    BY <1>10, <1>14, <2>2, Zenon DEF x
  <2>5. l < RunMask \/ (ip + 1) + Len(x) <= limit => LiteralRuns # {}
    BY <1>14, <2>3, Zenon DEF x
  <2> QED BY <2>4, <2>5, Zenon
<1>16. ASSUME NEW run \in LiteralRuns
       PROVE  /\ op + literals + run.add = to
              /\ run.next = (ip + 1) + Len(x)
              /\ run.next + literals + run.add = (ip + 1) + Len(x) + l
              /\ Taken(run) = SubSeq(src, 1, to)
  <2>1. run.add \in Nat /\ run.next = (ip + 1) + Len(x) /\ literals + run.add = l
    BY <1>15, Zenon
  <2> DEFINE a == run.add
             g == literals
             p == (ip + 1) + Len(x)
  <2>2. a \in Nat /\ g \in Nat /\ g + a = l /\ p \in Nat
    BY <1>7, <1>11, <2>1
  <2> HIDE DEF a, g, p
  <2>3. e + g + a = e + l /\ p + g + a = p + l
    BY <1>1, <2>2
  <2>4. e + literals + run.add = e + l /\ ((ip + 1) + Len(x)) + literals + run.add = ((ip + 1) + Len(x)) + l
    BY <2>3 DEF a, g, p
  <2>5. Holds(block, p, SubSeq(src, e + 1, to))
    BY <1>8, Zenon DEF p, v
  <2>6. SubSeq(src, 1, e) \o SubSeq(block, p + 1, p + (to - e)) = SubSeq(src, 1, to)
    <3>1. src \in Seq(Byte) /\ block \in Seq(Byte)
      OBVIOUS
    <3> QED BY <2>2, <2>5, <3>1, LiteralsCopied
  <2>7. Taken(run) = SubSeq(src, 1, to)
    BY <2>1, <2>4, <2>6, Zenon DEF Taken, p, l
  <2> QED BY <1>1, <1>12, <2>1, <2>4, <2>7, Zenon
<1> QED BY <1>10, <1>11, <1>12, <1>15, <1>16, Zenon DEF l, x, limit

LEMMA TailRead ==
  ASSUME src \in Seq(Byte), block \in Seq(Byte), NEW e \in Nat, NEW m, IsMatch(src, m), e <= m.at,
         ip \in Nat, Holds(block, ip, SequenceOf(src, e, m)),
         NEW at, at = (ip + 1) + Len(Extra(m.at - e)) + (m.at - e)
  PROVE  /\ Holds(block, ip, HeadOf(src, e, m.at, m.len - MinMatch))
         /\ at \in Nat /\ At(at) + ByteRange * At(at + 1) = m.at - m.ref
         /\ Holds(block, at + 2, Extra(m.len - MinMatch))
         /\ ip + Len(SequenceOf(src, e, m)) = (at + 2) + Len(Extra(m.len - MinMatch))
<1> DEFINE h == HeadOf(src, e, m.at, m.len - MinMatch)
           o == <<(m.at - m.ref) % ByteRange, (m.at - m.ref) \div ByteRange>>
           x == Extra(m.len - MinMatch)
           k == Len(Extra(m.at - e))
           w == h \o o
<1>1. /\ h \in Seq(Byte) /\ o \in Seq(Byte) /\ x \in Seq(Byte) /\ w \in Seq(Byte)
      /\ Len(o) = 2 /\ Len(h) = 1 + k + (m.at - e)
      /\ SequenceOf(src, e, m) = w \o x
      /\ Len(SequenceOf(src, e, m)) = 3 + k + (m.at - e) + Len(x)
  BY WholeIs, Zenon
<1>2. m.at - e \in Nat /\ m.at - m.ref \in 1..DistanceMax /\ m.at \in Nat
  <2>1. m.at \in Nat
    BY MatchNumbers, Zenon
  <2>2. m.at - e \in Nat
    BY <2>1
  <2> QED BY <2>1, <2>2, Zenon DEF IsMatch, Matching
<1>3. k \in Nat
  BY <1>2, ExtraIs, Zenon
<1>4. o[1] + ByteRange * o[2] = m.at - m.ref
  <2>1. ((m.at - m.ref) % ByteRange) + ByteRange * ((m.at - m.ref) \div ByteRange) = m.at - m.ref
    BY <1>2, OffsetIs, Zenon
  <2> DEFINE p == (m.at - m.ref) % ByteRange
             q == (m.at - m.ref) \div ByteRange
  <2> HIDE DEF p, q
  <2>2. <<p, q>>[1] = p /\ <<p, q>>[2] = q
    OBVIOUS
  <2> QED BY <2>1, <2>2, Zenon DEF p, q
<1>5. Len(block) \in Nat
  OBVIOUS
<1> HIDE DEF h, o, x, w, k
<1>6. Holds(block, ip, w) /\ Holds(block, ip + Len(w), x)
  BY <1>1, <1>5, HoldsParts, Zenon
<1>7. Holds(block, ip, h) /\ Holds(block, ip + Len(h), o)
  BY <1>1, <1>5, <1>6, HoldsParts, Zenon DEF w
<1>8. Len(w) = Len(h) + Len(o)
  BY <1>1, Joined, Zenon DEF w
<1>9. at = (ip + 1) + k + (m.at - e)
  BY Zenon DEF k
<1>10. at \in Nat /\ ip + Len(h) = at /\ ip + Len(w) = at + 2
       /\ ip + (3 + k + (m.at - e) + Len(x)) = (at + 2) + Len(x)
  <2> DEFINE l == m.at - e
  <2>1. l \in Nat /\ Len(x) \in Nat /\ Len(h) = 1 + k + l /\ at = (ip + 1) + k + l
    BY <1>1, <1>2, <1>9
  <2>2. Len(w) = Len(h) + 2
    BY <1>1, <1>8
  <2> HIDE DEF l
  <2>3. at \in Nat /\ ip + Len(h) = at /\ ip + Len(w) = at + 2 /\ ip + (3 + k + l + Len(x)) = (at + 2) + Len(x)
    <3>2. Len(w) = (1 + k + l) + 2
      BY <2>1, <2>2, Zenon
    <3> DEFINE y == Len(x)
    <3>3. y \in Nat
      BY <2>1
    <3> HIDE DEF y
    <3>4. /\ (ip + 1) + k + l \in Nat /\ ip + (1 + k + l) = (ip + 1) + k + l
          /\ ip + ((1 + k + l) + 2) = ((ip + 1) + k + l) + 2
          /\ ip + (3 + k + l + y) = (((ip + 1) + k + l) + 2) + y
      BY <1>3, <2>1, <3>3
    <3> QED BY <2>1, <3>2, <3>4, Zenon DEF y
  <2> QED BY <2>3 DEF l
<1>11. At(at) + ByteRange * At(at + 1) = m.at - m.ref
  <2>1. 1 \in 1..2 /\ 2 \in 1..2 /\ (at + 1) + 1 = at + 2
    BY <1>10
  <2>2. block[at + 1] = o[1] /\ block[at + 2] = o[2]
    BY <1>1, <1>7, <1>10, <2>1, Zenon DEF Holds
  <2> QED BY <1>4, <2>1, <2>2, Zenon DEF At
<1> QED BY <1>1, <1>6, <1>7, <1>10, <1>11, Zenon DEF h, x

(* The sequences follow one another, and something is left after each.        *)
LEMMA RoomAfter ==
  ASSUME NEW s \in Seq(Byte), NEW p, Following(s, p), NEW b \in Seq(Byte), NEW c, Cuts(s, p, b, c),
         c[Len(p)] + Len(LastRunOf(s, EndOf(p))) = Len(b)
  PROVE  \A k \in 1..Len(p) : c[k] + 1 + LastLiterals <= Len(b)
<1> DEFINE K == Len(p)
           bad == {j \in 0..K : c[K - j] > c[K]}
<1>1. K \in Nat /\ c \in [0..K -> Nat]
  BY UptoIs, Zenon DEF Cuts
<1>2. bad = {}
  <2> SUFFICES ASSUME bad # {} PROVE FALSE
    OBVIOUS
  <2>1. bad \in SUBSET Nat
    OBVIOUS
  <2>2. PICK j \in bad : \A i \in bad : j <= i
    BY <2>1, LeastNatural, Zenon
  <2>3. j \in 0..K /\ c[K - j] > c[K]
    BY <2>2
  <2>4. j # 0
    BY <1>1, <2>3
  <2>5. j - 1 \in 0..K /\ ~(j <= j - 1) /\ K - (j - 1) \in 1..K /\ (K - (j - 1)) - 1 = K - j
    BY <1>1, <2>3, <2>4
  <2>6. ~(c[K - (j - 1)] > c[K])
    BY <2>2, <2>5
  <2> DEFINE d == Len(SequenceOf(s, Upto(p, (K - (j - 1)) - 1), p[K - (j - 1)]))
  <2>7. c[K - (j - 1)] = c[K - j] + d /\ d \in Nat
    BY <2>5, SequenceBytes, Zenon DEF Cuts
  <2>8. c[K - j] \in Nat /\ c[K] \in Nat
    <3>1. K - j \in 0..K /\ K \in 0..K
      BY <1>1, <2>3
    <3> QED BY <1>1, <3>1
  <2> HIDE DEF d, K, bad
  <2> QED BY <2>3, <2>6, <2>7, <2>8
<1>3. ASSUME NEW k \in 1..K PROVE c[k] <= c[K]
  <2>1. K - k \in 0..K /\ K - (K - k) = k
    BY <1>1
  <2>2. ~(c[K - (K - k)] > c[K])
    BY <1>2, <2>1
  <2>3. c[k] \in Nat /\ c[K] \in Nat
    BY <1>1
  <2> QED BY <2>1, <2>2, <2>3
<1> SUFFICES ASSUME NEW k \in 1..K PROVE c[k] + 1 + LastLiterals <= Len(b)
  OBVIOUS
<1>4. K # 0 /\ c[k] \in Nat /\ c[K] \in Nat
  BY <1>1
<1>5. EndOf(p) \in Nat /\ Len(s) \in Nat /\ EndOf(p) + LastLiterals <= Len(s) /\ LastLiterals \in Nat
  <2>1. Len(s) \in Nat
    OBVIOUS
  <2> QED BY <1>4, <2>1, EndWithin, Sizes, Zenon
<1> DEFINE l == Len(s) - EndOf(p)
           x == Len(Extra(l))
<1>6. l \in Nat /\ EndOf(p) <= Len(s) /\ l >= LastLiterals
  BY <1>5
<1>7. Len(LastRunOf(s, EndOf(p))) = 1 + x + l
  BY <1>5, <1>6, LastRunIs, Zenon
<1>8. x \in Nat
  BY <1>6, ExtraIs, Zenon
<1>9. c[K] + (1 + x + l) = Len(b)
  BY <1>7, Zenon
<1>10. c[k] <= c[K]
  BY <1>3
<1> HIDE DEF l, x, K
<1> QED BY <1>4, <1>5, <1>6, <1>8, <1>9, <1>10

--------------------------------------------------------------------------------
(* The decoder stands where the k-th sequence ends, and has written as much.  *)
Reached(c, k) ==
  /\ Cuts(src, parse, block, c)
  /\ c[Len(parse)] + Len(LastRunOf(src, EndOf(parse))) = Len(block)
  /\ Holds(block, c[Len(parse)], LastRunOf(src, EndOf(parse)))
  /\ k \in 0..Len(parse) /\ ip = c[k] /\ out = SubSeq(src, 1, Upto(parse, k))

(* The next match in numbers: from e on, l literals with x length bytes, then *)
(* a match of y + MinMatch bytes with z.                                     *)
Numbers(k, m, e, l, x, y, z, at) ==
  /\ m = parse[k + 1] /\ e = Upto(parse, k)
  /\ l = m.at - e /\ x = Len(Extra(l))
  /\ y = m.len - MinMatch /\ z = Len(Extra(y)) /\ at = (ip + 1) + x + l

LEMMA AtSequence ==
  ASSUME Following(src, parse), src \in Seq(Byte), block \in Seq(Byte),
         NEW c, NEW k, Reached(c, k), k # Len(parse), ip \in Nat,
         NEW m, NEW e, NEW l, NEW x, NEW y, NEW z, NEW at, Numbers(k, m, e, l, x, y, z, at)
  PROVE  /\ IsMatch(src, m) /\ e \in Nat /\ e <= m.at
         /\ k + 1 \in 0..Len(parse) /\ Upto(parse, k + 1) = End(m)
         /\ c[k + 1] = (at + 2) + z /\ c[k + 1] + 1 + LastLiterals <= Len(block)
         /\ at \in Nat /\ At(at) + ByteRange * At(at + 1) = m.at - m.ref
         /\ Holds(block, ip, HeadOf(src, e, m.at, y))
         /\ Holds(block, at + 2, Extra(y))
<1>1. /\ Cuts(src, parse, block, c) /\ k \in 0..Len(parse) /\ ip = c[k]
      /\ c[Len(parse)] + Len(LastRunOf(src, EndOf(parse))) = Len(block)
  BY Zenon DEF Reached
<1>2. Len(parse) \in Nat
  BY UptoIs, Zenon
<1>3. k + 1 \in 1..Len(parse) /\ k + 1 \in 0..Len(parse) /\ (k + 1) - 1 = k
  BY <1>1, <1>2
<1>4. /\ m = parse[k + 1] /\ e = Upto(parse, k) /\ y = m.len - MinMatch /\ z = Len(Extra(y))
      /\ at = (ip + 1) + Len(Extra(m.at - e)) + (m.at - e)
  BY Zenon DEF Numbers
<1>5. IsMatch(src, m) /\ Upto(parse, k + 1) = End(m) /\ e <= m.at /\ e \in Nat
  BY <1>1, <1>3, <1>4, UptoIs, Zenon
<1>6. /\ c[k + 1] = ip + Len(SequenceOf(src, e, m))
      /\ Holds(block, ip, SequenceOf(src, e, m))
  BY <1>1, <1>3, <1>4, Zenon DEF Cuts
<1>7. c[k + 1] + 1 + LastLiterals <= Len(block)
  BY <1>1, <1>3, RoomAfter, Zenon
<1>8. at = (ip + 1) + Len(Extra(m.at - e)) + (m.at - e)
  BY <1>4, Zenon
<1>9. /\ Holds(block, ip, HeadOf(src, e, m.at, m.len - MinMatch))
      /\ at \in Nat /\ At(at) + ByteRange * At(at + 1) = m.at - m.ref
      /\ Holds(block, at + 2, Extra(m.len - MinMatch))
      /\ ip + Len(SequenceOf(src, e, m)) = (at + 2) + Len(Extra(m.len - MinMatch))
  BY <1>5, <1>6, <1>8, TailRead, Zenon
<1>10. /\ Holds(block, ip, HeadOf(src, e, m.at, y)) /\ Holds(block, at + 2, Extra(y))
       /\ c[k + 1] = (at + 2) + z
  BY <1>4, <1>6, <1>9, Zenon
<1> QED BY <1>3, <1>5, <1>7, <1>9, <1>10, Zenon

Readable(c, k, m, l, x, y, z, at) ==
  /\ l \in Nat /\ x \in Nat /\ y \in Nat /\ z \in Nat /\ at \in Nat /\ at = (ip + 1) + x + l
  /\ l < RunMask => x = 0
  /\ at + 2 + z + 1 + LastLiterals <= Len(block) /\ c[k + 1] = at + 2 + z
  /\ k + 1 \in 0..Len(parse) /\ Upto(parse, k + 1) = End(m) /\ IsMatch(src, m)
  /\ End(m) = m.at + y + 4 /\ m.len = y + 4
  /\ literals = Smaller(l, RunMask) /\ literals \in Nat
  /\ matching = Smaller(y, RunMask)
  /\ At(at) + ByteRange * At(at + 1) = m.at - m.ref
  /\ \A run \in LiteralRuns : /\ op + literals + run.add = m.at
                              /\ run.next + literals + run.add = at
                              /\ Taken(run) = SubSeq(src, 1, m.at)
  /\ l < RunMask \/ (ip + 1) + x <= iend - RunMask => LiteralRuns # {}
  /\ \A r \in Length(matching, MlMask, at + 2, iend - LastLiterals + 1) :
       /\ r.add \in Nat /\ matching + r.add = y /\ r.next = at + 2 + z
       /\ y < RunMask \/ r.next <= iend - LastLiterals + 1
  /\ y < RunMask \/ at + 2 + z <= iend - LastLiterals + 1
     => Length(matching, MlMask, at + 2, iend - LastLiterals + 1) # {}

LEMMA SequenceRead ==
  ASSUME Following(src, parse), src \in Seq(Byte), block \in Seq(Byte),
         NEW c, NEW k, Reached(c, k), k # Len(parse), ip \in Nat, iend \in Nat,
         NEW m, NEW e, NEW l, NEW x, NEW y, NEW z, NEW at, Numbers(k, m, e, l, x, y, z, at)
  PROVE  Readable(c, k, m, l, x, y, z, at)
<1>1. /\ IsMatch(src, m) /\ e \in Nat /\ e <= m.at
      /\ k + 1 \in 0..Len(parse) /\ Upto(parse, k + 1) = End(m)
      /\ c[k + 1] = (at + 2) + z /\ c[k + 1] + 1 + LastLiterals <= Len(block)
      /\ at \in Nat /\ At(at) + ByteRange * At(at + 1) = m.at - m.ref
      /\ Holds(block, ip, HeadOf(src, e, m.at, y))
      /\ Holds(block, at + 2, Extra(y))
  BY AtSequence, Zenon
<1>2. m.at \in Nat /\ m.len \in Nat /\ m.len >= 4 /\ m.at + MFLimit <= Len(src) /\ MFLimit \in Nat
      /\ End(m) = m.at + m.len
  BY <1>1, MatchNumbers, Sizes, Zenon
<1>3. l \in Nat /\ y \in Nat /\ m.len = y + 4 /\ m.at <= Len(src) /\ End(m) = m.at + y + 4
  <2>1. Len(src) \in Nat /\ MinMatch = 4
    BY DEF MinMatch
  <2>2. l = m.at - e /\ y = m.len - 4
    BY <2>1, Zenon DEF Numbers
  <2> DEFINE p == m.at
             q == m.len
             w == End(m)
             s == Len(src)
  <2>3. /\ p \in Nat /\ q \in Nat /\ q >= 4 /\ s \in Nat /\ e \in Nat /\ e <= p /\ p + MFLimit <= s
        /\ MFLimit \in Nat /\ w = p + q /\ l = p - e /\ y = q - 4
    BY <1>1, <1>2, <2>1, <2>2, Zenon
  <2> HIDE DEF p, q, w, s
  <2>4. l \in Nat /\ y \in Nat /\ q = y + 4 /\ p <= s /\ w = p + y + 4
    BY <2>3
  <2> QED BY <2>4, Zenon DEF p, q, w, s
<1>4. x \in Nat /\ z \in Nat /\ (l < RunMask => x = 0)
  BY <1>3, ExtraIs, ExtraCost, Zenon DEF Numbers
<1>5. RunMask \in Nat /\ MlMask = RunMask /\ LastLiterals \in Nat
  BY Sizes
<1>6. out = SubSeq(src, 1, e)
  BY Zenon DEF Reached, Numbers
<1>7. m.at - e = l /\ Len(Extra(l)) = x /\ (ip + 1) + x + l = at /\ Len(Extra(y)) = z
  BY Zenon DEF Numbers
<1>8. /\ literals = Smaller(m.at - e, RunMask) /\ literals \in Nat
      /\ matching = Smaller(y, RunMask) /\ op = e
      /\ \A run \in LiteralRuns :
           /\ op + literals + run.add = m.at
           /\ run.next + literals + run.add = (ip + 1) + Len(Extra(m.at - e)) + (m.at - e)
           /\ Taken(run) = SubSeq(src, 1, m.at)
      /\ m.at - e < RunMask \/ (ip + 1) + Len(Extra(m.at - e)) <= iend - RunMask => LiteralRuns # {}
  <2> DEFINE to == m.at
  <2>1. /\ e \in Nat /\ to \in Nat /\ e <= to /\ to <= Len(src) /\ y \in Nat
        /\ Holds(block, ip, HeadOf(src, e, to, y))
    BY <1>1, <1>2, <1>3, Zenon
  <2> HIDE DEF to
  <2>2. /\ literals = Smaller(to - e, RunMask) /\ literals \in Nat
        /\ matching = Smaller(y, RunMask) /\ op = e
        /\ \A run \in LiteralRuns :
             /\ op + literals + run.add = to
             /\ run.next = (ip + 1) + Len(Extra(to - e))
             /\ run.next + literals + run.add = (ip + 1) + Len(Extra(to - e)) + (to - e)
             /\ Taken(run) = SubSeq(src, 1, to)
        /\ to - e < RunMask \/ (ip + 1) + Len(Extra(to - e)) <= iend - RunMask => LiteralRuns # {}
    BY <1>6, <2>1, HeadRead, Zenon
  <2> QED BY <2>2, Zenon DEF to
<1>9. ASSUME NEW run \in LiteralRuns
      PROVE  /\ op + literals + run.add = m.at
             /\ run.next + literals + run.add = at
             /\ Taken(run) = SubSeq(src, 1, m.at)
  BY <1>7, <1>8, Zenon
<1>10. literals = Smaller(l, RunMask) /\ (l < RunMask \/ (ip + 1) + x <= iend - RunMask => LiteralRuns # {})
  BY <1>7, <1>8, Zenon
<1> DEFINE limit == iend - LastLiterals + 1
<1>11. limit \in Int /\ at + 2 \in Nat
  BY <1>1, <1>5
<1> HIDE DEF limit
<1>12. /\ \A r \in Length(Smaller(y, RunMask), RunMask, at + 2, limit) :
            /\ r.add \in Nat /\ Smaller(y, RunMask) + r.add = y /\ r.next = at + 2 + Len(Extra(y))
            /\ y < RunMask \/ r.next <= limit
       /\ y < RunMask \/ at + 2 + Len(Extra(y)) <= limit
          => Length(Smaller(y, RunMask), RunMask, at + 2, limit) # {}
  <2>1. y \in Nat /\ at + 2 \in Nat /\ Holds(block, at + 2, Extra(y)) /\ limit \in Int
    BY <1>1, <1>3, <1>11, Zenon
  <2> QED BY <2>1, LengthIs, Zenon
<1>13. /\ \A r \in Length(matching, MlMask, at + 2, limit) :
            /\ r.add \in Nat /\ matching + r.add = y /\ r.next = at + 2 + z
            /\ y < RunMask \/ r.next <= limit
       /\ y < RunMask \/ at + 2 + z <= limit => Length(matching, MlMask, at + 2, limit) # {}
  <2>1. matching = Smaller(y, RunMask) /\ MlMask = RunMask /\ z = Len(Extra(y))
    BY <1>5, <1>7, <1>8, Zenon
  <2> QED BY <1>12, <2>1, Zenon
<1>14. c[k + 1] = at + 2 + z /\ at + 2 + z + 1 + LastLiterals <= Len(block)
  BY <1>1, Zenon
<1>15. at = (ip + 1) + x + l
  BY <1>7, Zenon
<1> QED BY <1>1, <1>3, <1>4, <1>8, <1>9, <1>10, <1>13, <1>14, <1>15, Zenon DEF limit, Readable

(* If the whole block is there and the buffer is large enough, the lengths of *)
(* a sequence are read and the match follows its literals.                   *)
Whole == iend = Len(block) /\ capacity >= Len(src)

LEMMA SequenceRoom ==
  ASSUME Following(src, parse), src \in Seq(Byte), block \in Seq(Byte),
         NEW c, NEW k, Reached(c, k), k # Len(parse), ip \in Nat, iend \in Nat, capacity \in Nat, Whole,
         NEW m, NEW e, NEW l, NEW x, NEW y, NEW z, NEW at, Numbers(k, m, e, l, x, y, z, at)
  PROVE  /\ LiteralRuns # {} /\ \A run \in LiteralRuns : MatchFollows(run)
         /\ Length(matching, MlMask, at + 2, iend - LastLiterals + 1) # {}
         /\ m.at + y + 4 <= capacity - LastLiterals
<1>0. Readable(c, k, m, l, x, y, z, at)
  BY SequenceRead, Zenon
<1>1. /\ l \in Nat /\ x \in Nat /\ y \in Nat /\ z \in Nat /\ at \in Nat /\ at = (ip + 1) + x + l
      /\ at + 2 + z + 1 + LastLiterals <= Len(block) /\ IsMatch(src, m) /\ End(m) = m.at + y + 4
      /\ l < RunMask \/ (ip + 1) + x <= iend - RunMask => LiteralRuns # {}
      /\ y < RunMask \/ at + 2 + z <= iend - LastLiterals + 1
         => Length(matching, MlMask, at + 2, iend - LastLiterals + 1) # {}
  BY <1>0, Zenon DEF Readable
<1>2. \A run \in LiteralRuns : op + literals + run.add = m.at /\ run.next + literals + run.add = at
  BY <1>0, Zenon DEF Readable
<1>3. RunMask \in Nat /\ LastLiterals \in Nat /\ MFLimit \in Nat
  BY Sizes
<1>4. Len(block) = iend /\ Len(src) <= capacity /\ Len(src) \in Nat
  BY DEF Whole
<1>5. at + 2 + z + 1 + LastLiterals <= iend
  BY <1>1, <1>4, Zenon
<1>6. LiteralRuns # {}
  <2>1. l < RunMask \/ (ip + 1) + x <= iend - RunMask
    BY <1>1, <1>3, <1>5
  <2> QED BY <1>1, <2>1, Zenon
<1>7. Length(matching, MlMask, at + 2, iend - LastLiterals + 1) # {}
  <2>1. at + 2 + z <= iend - LastLiterals + 1
    BY <1>1, <1>3, <1>5
  <2> QED BY <1>1, <2>1, Zenon
<1>8. m.at <= capacity - MFLimit /\ m.at + y + 4 <= capacity - LastLiterals
  <2> DEFINE p == m.at
             w == End(m)
  <2>1. p \in Nat /\ w \in Nat /\ p + MFLimit <= Len(src) /\ w + LastLiterals <= Len(src)
    BY <1>1, MatchNumbers, Zenon
  <2> HIDE DEF p, w
  <2>2. p <= capacity - MFLimit /\ w <= capacity - LastLiterals
    BY <1>3, <1>4, <2>1
  <2> QED BY <1>1, <2>2, Zenon DEF p, w
<1>9. at <= iend - (2 + 1 + LastLiterals)
  BY <1>1, <1>3, <1>5
<1>10. \A run \in LiteralRuns : MatchFollows(run)
  BY <1>2, <1>8, <1>9, Zenon DEF MatchFollows
<1> QED BY <1>6, <1>7, <1>8, <1>10, Zenon

(* Where a match follows, its offset lies within what reached the decoder.    *)
LEMMA OffsetWithin ==
  ASSUME Following(src, parse), src \in Seq(Byte), block \in Seq(Byte),
         NEW c, NEW k, Reached(c, k), k # Len(parse), ip \in Nat, iend \in Nat, capacity \in Nat,
         NEW m, NEW e, NEW l, NEW x, NEW y, NEW z, NEW at, Numbers(k, m, e, l, x, y, z, at),
         NEW run \in LiteralRuns, MatchFollows(run)
  PROVE  at + 2 <= iend
<1>0. Readable(c, k, m, l, x, y, z, at)
  BY SequenceRead, Zenon
<1>1. /\ l \in Nat /\ x \in Nat /\ at \in Nat /\ at = (ip + 1) + x + l /\ (l < RunMask => x = 0)
      /\ run.next + literals + run.add = at /\ literals = Smaller(l, RunMask)
  BY <1>0, Zenon DEF Readable
<1>2. RunMask \in Nat /\ LastLiterals \in Nat
  BY Sizes
<1>3. CASE run.next + literals + run.add <= iend - (2 + 1 + LastLiterals)
  <2>1. at <= iend - (2 + 1 + LastLiterals)
    BY <1>1, <1>3, Zenon
  <2> QED BY <1>1, <1>2, <2>1
<1>4. CASE literals # RunMask /\ ip + 1 < iend - (RunMask - 1) - 2
  <2>1. l < RunMask
    BY <1>1, <1>2, <1>4 DEF Smaller
  <2>2. x = 0
    BY <1>1, <2>1, Zenon
  <2> QED BY <1>1, <1>2, <1>4, <2>1, <2>2
<1> QED BY <1>3, <1>4, Zenon DEF MatchFollows, ShortcutOpen

(* The literals of the last run end the block.                               *)
LEMMA LastRead ==
  ASSUME Following(src, parse), src \in Seq(Byte), block \in Seq(Byte),
         NEW c, Reached(c, Len(parse)), ip \in Nat, iend \in Nat
  PROVE  \E l, x \in Nat :
           /\ Len(block) = (ip + 1) + x + l /\ (l < RunMask => x = 0)
           /\ literals = Smaller(l, RunMask)
           /\ \A run \in LiteralRuns : /\ op + literals + run.add = Len(src)
                                       /\ run.next + literals + run.add = Len(block)
                                       /\ Taken(run) = src
           /\ l < RunMask \/ (ip + 1) + x <= iend - RunMask => LiteralRuns # {}
<1> DEFINE e == EndOf(parse)
           to == Len(src)
           l == to - e
           x == Len(Extra(l))
<1>1. /\ ip + Len(LastRunOf(src, e)) = Len(block) /\ Holds(block, ip, LastRunOf(src, e))
      /\ out = SubSeq(src, 1, e)
  BY UptoIs, Zenon DEF Reached
<1>2. to \in Nat /\ to <= Len(src) /\ 0 \in Nat
  OBVIOUS
<1>3. e \in Nat /\ e <= to
  BY <1>2, EndWithin, Zenon
<1>4. l \in Nat
  BY <1>2, <1>3
<1>5. x \in Nat /\ (l < RunMask => x = 0)
  BY <1>4, ExtraIs, ExtraCost, Zenon
<1>6. Len(LastRunOf(src, e)) = 1 + x + l
  BY <1>3, LastRunIs, Zenon
<1>7. SubSeq(src, 1, Len(src)) = src
  OBVIOUS
<1>8. Holds(block, ip, HeadOf(src, e, to, 0))
  BY <1>1, Zenon DEF LastRunOf
<1> HIDE DEF e, to
<1>9. /\ literals = Smaller(to - e, RunMask) /\ literals \in Nat
      /\ matching = Smaller(0, RunMask) /\ op = e
      /\ \A run \in LiteralRuns :
           /\ op + literals + run.add = to
           /\ run.next = (ip + 1) + Len(Extra(to - e))
           /\ run.next + literals + run.add = (ip + 1) + Len(Extra(to - e)) + (to - e)
           /\ Taken(run) = SubSeq(src, 1, to)
      /\ to - e < RunMask \/ (ip + 1) + Len(Extra(to - e)) <= iend - RunMask => LiteralRuns # {}
  BY <1>1, <1>2, <1>3, <1>8, HeadRead, Zenon
<1> HIDE DEF l, x
<1>10. Len(block) = (ip + 1) + x + l
  <2>1. Len(block) = ip + (1 + x + l)
    BY <1>1, <1>6, Zenon
  <2> QED BY <1>4, <1>5, <2>1
<1>11. /\ literals = Smaller(l, RunMask)
       /\ l < RunMask \/ (ip + 1) + x <= iend - RunMask => LiteralRuns # {}
  BY <1>9, Zenon DEF l, x
<1>12. \A run \in LiteralRuns : /\ op + literals + run.add = Len(src)
                                /\ Taken(run) = src
  BY <1>7, <1>9, Zenon DEF to
<1>13. \A run \in LiteralRuns : run.next + literals + run.add = Len(block)
  BY <1>9, <1>10, Zenon DEF l, x
<1> QED BY <1>4, <1>5, <1>10, <1>11, <1>12, <1>13, Zenon

LEMMA NoMatchAtEnd ==
  ASSUME Following(src, parse), src \in Seq(Byte), block \in Seq(Byte),
         NEW c, Reached(c, Len(parse)), ip \in Nat, iend \in 0..Len(block),
         NEW run \in LiteralRuns
  PROVE  ~MatchFollows(run)
<1>0. Len(block) \in Nat /\ iend \in Nat /\ iend <= Len(block)
  OBVIOUS
<1>1. PICK l, x \in Nat :
        /\ Len(block) = (ip + 1) + x + l /\ (l < RunMask => x = 0)
        /\ literals = Smaller(l, RunMask)
        /\ run.next + literals + run.add = Len(block)
  BY <1>0, LastRead, Zenon
<1>2. RunMask \in Nat /\ LastLiterals \in Nat
  BY Sizes
<1>3. ~(Len(block) <= iend - (2 + 1 + LastLiterals))
  BY <1>0, <1>2
<1>4. ~(literals # RunMask /\ ip + 1 < iend - (RunMask - 1) - 2)
  <2> SUFFICES ASSUME literals # RunMask, ip + 1 < iend - (RunMask - 1) - 2 PROVE FALSE
    OBVIOUS
  <2>1. l < RunMask
    BY <1>1, <1>2 DEF Smaller
  <2>2. x = 0
    BY <1>1, <2>1, Zenon
  <2> QED BY <1>0, <1>1, <1>2, <2>1, <2>2
<1> QED BY <1>1, <1>3, <1>4, Zenon DEF MatchFollows, ShortcutOpen

(* A match taken by the shortcut has room in the buffer.                      *)
LEMMA ShortcutFits ==
  ASSUME NEW y \in Nat, literals \in Nat, matching = Smaller(y, RunMask),
         capacity \in Nat, out \in Seq(Byte),
         NEW run \in LiteralRuns, NEW a, op + literals + run.add = a,
         NEW offset, Shortcut(offset), literals <= RunMask
  PROVE  a + y + 4 <= capacity
<1>1. /\ literals # RunMask /\ matching # MlMask
      /\ op <= capacity - (RunMask - 1) - OptimalMl
  BY Zenon DEF Shortcut, ShortcutOpen
<1>2. RunMask \in Nat /\ MlMask = RunMask /\ OptimalMl = RunMask + 3
  BY Sizes
<1>3. literals < RunMask
  BY <1>1, <1>2
<1>4. run.add = 0
  <2>1. LiteralRuns = {[add |-> 0, next |-> ip + 1]}
    BY <1>3, Zenon DEF LiteralRuns, Length
  <2>2. run = [add |-> 0, next |-> ip + 1]
    BY <2>1
  <2> QED BY <2>2
<1>5. y < RunMask
  BY <1>1, <1>2 DEF Smaller
<1> DEFINE o == op
           g == literals
<1>6. o \in Nat /\ g \in Nat /\ g < RunMask /\ o <= capacity - (RunMask - 1) - OptimalMl /\ o + g + 0 = a
  <2>1. op \in Nat
    BY DEF op
  <2> QED BY <1>1, <1>3, <1>4, <2>1, Zenon
<1> HIDE DEF o, g
<1> QED BY <1>2, <1>5, <1>6

LEMMA SequenceStep ==
  ASSUME Following(src, parse), src \in Seq(Byte), block \in Seq(Byte),
         NEW c, NEW k, Reached(c, k), capacity \in Nat, iend \in 0..Len(block), ip \in 0..iend,
         out \in Seq(Byte), DecodeSequence
  PROVE  \/ /\ stage' = "decode" /\ UNCHANGED <<src, parse, block, capacity, iend>>
            /\ ip' \in 0..iend /\ out' \in Seq(Byte) /\ Len(out') <= capacity /\ Reached(c, k + 1)'
         \/ Answer("error") /\ ~Whole
<1>0. ip \in Nat /\ iend \in Nat /\ Len(block) \in Nat
  OBVIOUS
<1>1. PICK run \in LiteralRuns :
        /\ MatchFollows(run)
        /\ LET at     == run.next + literals + run.add
               offset == At(at) + ByteRange * At(at + 1)
               seq    == Taken(run)
               ends   == {l \in Length(matching, MlMask, at + 2, iend - LastLiterals + 1) :
                            /\ offset <= Len(seq)
                            /\ \/ Len(seq) + matching + l.add + MinMatch <= capacity - LastLiterals
                               \/ Shortcut(offset)}
           IN  IF ends = {} THEN Answer("error")
               ELSE \E l \in ends :
                      /\ out' = Copied(seq, offset, matching + l.add + MinMatch)
                      /\ ip' = l.next
                      /\ UNCHANGED <<src, stage, coding, block, capacity, iend>>
  BY Zenon DEF DecodeSequence
<1>2. k # Len(parse)
  BY <1>0, <1>1, NoMatchAtEnd, Zenon
<1> DEFINE m == parse[k + 1]
           e == Upto(parse, k)
           l == m.at - e
           x == Len(Extra(l))
           y == m.len - MinMatch
           z == Len(Extra(y))
           at == (ip + 1) + x + l
<1>3. Numbers(k, m, e, l, x, y, z, at)
  BY Zenon DEF Numbers
<1> HIDE DEF m, e, l, x, y, z, at
<1>4. Readable(c, k, m, l, x, y, z, at)
  BY <1>0, <1>2, <1>3, SequenceRead, Zenon
<1>5. /\ run.next + literals + run.add = at /\ Taken(run) = SubSeq(src, 1, m.at)
      /\ At(at) + ByteRange * At(at + 1) = m.at - m.ref
      /\ y \in Nat /\ at \in Nat /\ z \in Nat /\ IsMatch(src, m) /\ m.len = y + 4 /\ End(m) = m.at + y + 4
      /\ c[k + 1] = at + 2 + z /\ k + 1 \in 0..Len(parse) /\ Upto(parse, k + 1) = End(m)
  BY <1>1, <1>4, Zenon DEF Readable
<1>6. /\ m.at \in Nat /\ m.ref \in Nat /\ m.ref < m.at /\ End(m) = m.at + m.len
      /\ m.at + MFLimit <= Len(src) /\ End(m) + LastLiterals <= Len(src) /\ m.len \in Nat /\ End(m) \in Nat
  BY <1>5, MatchNumbers, Zenon
<1>7. Len(src) \in Nat /\ MFLimit \in Nat /\ LastLiterals \in Nat /\ LastLiterals >= 1 /\ RunMask \in Nat
      /\ MinMatch = 4
  BY Sizes
<1>8. Len(SubSeq(src, 1, m.at)) = m.at
  <2> DEFINE a == m.at
  <2>1. a \in Nat /\ a <= Len(src)
    BY <1>6, <1>7
  <2> HIDE DEF a
  <2>2. Len(SubSeq(src, 1, a)) = a
    BY <2>1
  <2> QED BY <2>2 DEF a
<1> DEFINE R == Length(matching, MlMask, at + 2, iend - LastLiterals + 1)
           ends == {r \in R : /\ m.at - m.ref <= m.at
                              /\ \/ m.at + matching + r.add + MinMatch <= capacity - LastLiterals
                                 \/ Shortcut(m.at - m.ref)}
<1>9. IF ends = {} THEN Answer("error")
      ELSE \E r \in ends : /\ out' = Copied(SubSeq(src, 1, m.at), m.at - m.ref, matching + r.add + MinMatch)
                           /\ ip' = r.next
                           /\ UNCHANGED <<src, stage, coding, block, capacity, iend>>
  BY <1>1, <1>5, <1>8, Zenon
<1>10. \A r \in R : /\ r.add \in Nat /\ matching + r.add = y /\ r.next = at + 2 + z
                    /\ y < RunMask \/ r.next <= iend - LastLiterals + 1
  BY <1>4, Zenon DEF Readable
<1>11. m.at - m.ref <= m.at
  <2> DEFINE a == m.at
             b == m.ref
  <2>1. a \in Nat /\ b \in Nat
    BY <1>6
  <2> HIDE DEF a, b
  <2>2. a - b <= a
    BY <2>1
  <2> QED BY <2>2 DEF a, b
<1> HIDE DEF R
<1>12. \A r \in R : m.at + matching + r.add + MinMatch = m.at + y + 4
                    /\ matching + r.add + MinMatch = m.len
  <2> SUFFICES ASSUME NEW r \in R PROVE m.at + matching + r.add + MinMatch = m.at + y + 4
                                        /\ matching + r.add + MinMatch = m.len
    OBVIOUS
  <2> DEFINE a == m.at
             g == matching
             d == r.add
  <2>1. a \in Nat /\ d \in Nat /\ g + d = y
    BY <1>6, <1>10
  <2>2. g \in Nat
    <3>1. matching = Smaller(y, RunMask)
      BY <1>4, Zenon DEF Readable
    <3> QED BY <1>5, <1>7, <3>1 DEF Smaller
  <2> HIDE DEF a, g, d
  <2>3. a + g + d + 4 = a + y + 4 /\ g + d + 4 = y + 4
    BY <1>5, <2>1, <2>2
  <2> QED BY <1>5, <1>7, <2>3 DEF a, g, d
<1>13. CASE ends = {}
  <2>1. ASSUME Whole PROVE FALSE
    <3>1. R # {} /\ m.at + y + 4 <= capacity - LastLiterals
      BY <1>0, <1>2, <1>3, <2>1, SequenceRoom, Zenon DEF R
    <3>2. \A r \in R : r \in ends
      BY <1>11, <1>12, <3>1, Zenon
    <3> QED BY <1>13, <3>1, <3>2, Zenon
  <2>2. Answer("error")
    BY <1>9, <1>13, Zenon
  <2> QED BY <2>1, <2>2, Zenon
<1>14. CASE ends # {}
  <2>1. PICK r \in ends : /\ out' = Copied(SubSeq(src, 1, m.at), m.at - m.ref, matching + r.add + MinMatch)
                          /\ ip' = r.next
                          /\ UNCHANGED <<src, stage, coding, block, capacity, iend>>
    BY <1>9, <1>14, Zenon
  <2>2. r \in R /\ m.at + y + 4 <= capacity
    <3>1. r \in R /\ (m.at + y + 4 <= capacity - LastLiterals \/ Shortcut(m.at - m.ref))
      BY <1>12, <2>1, Zenon
    <3>2. CASE m.at + y + 4 <= capacity - LastLiterals
      <4> DEFINE v == m.at + y + 4
      <4>1. v \in Nat /\ v <= capacity - LastLiterals
        BY <1>5, <1>6, <3>2
      <4> HIDE DEF v
      <4>2. v <= capacity
        BY <1>7, <4>1
      <4> QED BY <3>1, <4>2, Zenon DEF v
    <3>3. CASE Shortcut(m.at - m.ref)
      <4>1. literals \in Nat /\ literals <= RunMask
        <5>1. literals = Smaller(l, RunMask) /\ l \in Nat
          BY <1>4, Zenon DEF Readable
        <5> QED BY <1>7, <5>1 DEF Smaller
      <4>2. matching = Smaller(y, RunMask) /\ op + literals + run.add = m.at
        BY <1>1, <1>4, Zenon DEF Readable
      <4> QED BY <1>1, <1>5, <3>1, <3>3, <4>1, <4>2, ShortcutFits, Zenon
    <3> QED BY <3>1, <3>2, <3>3, Zenon
  <2>3. matching + r.add + MinMatch = m.len /\ ip' = at + 2 + z /\ (y < RunMask \/ at + 2 + z <= iend - LastLiterals + 1)
    BY <1>10, <1>12, <2>1, <2>2, Zenon
  <2>4. stage' = "decode" /\ UNCHANGED <<src, parse, block, capacity, iend>>
    <3>1. stage = "decode"
      BY Zenon DEF DecodeSequence, Decoding
    <3> QED BY <2>1, <3>1 DEF coding
  <2>5. out' = SubSeq(src, 1, End(m))
    <3> DEFINE a == m.at
               b == m.ref
               w == m.len
    <3>1. a \in Nat /\ b \in Nat /\ b < a /\ w \in Nat /\ a + w <= Len(src)
      <4>1. a + w \in Nat /\ (a + w) + LastLiterals <= Len(src)
        BY <1>6, Zenon
      <4> HIDE DEF a, w
      <4>2. a + w <= Len(src)
        BY <1>7, <4>1
      <4> QED BY <1>6, <4>2, Zenon DEF a, w
    <3>2. Alike(src, a, b, w)
      BY <1>5, Zenon DEF IsMatch, Matching, Alike
    <3>3. out' = Copied(SubSeq(src, 1, a), a - b, w) /\ End(m) = a + w
      BY <1>6, <2>1, <2>3, Zenon
    <3> HIDE DEF a, b, w
    <3>4. Copied(SubSeq(src, 1, a), a - b, w) = SubSeq(src, 1, a + w)
      BY <3>1, <3>2, MatchCopied, Zenon
    <3> QED BY <3>3, <3>4, Zenon
  <2>6. out' \in Seq(Byte) /\ Len(out') <= capacity
    <3> DEFINE w == End(m)
    <3>1. w \in Nat /\ w + LastLiterals <= Len(src) /\ w <= capacity /\ out' = SubSeq(src, 1, w)
      BY <1>5, <1>6, <2>2, <2>5, Zenon
    <3> HIDE DEF w
    <3>2. SubSeq(src, 1, w) \in Seq(Byte) /\ Len(SubSeq(src, 1, w)) = w
      BY <1>7, <3>1
    <3> QED BY <3>1, <3>2, Zenon
  <2>7. ip' \in 0..iend
    <3>1. at + 2 <= iend
      BY <1>0, <1>1, <1>2, <1>3, OffsetWithin, Zenon
    <3>2. y < RunMask => z = 0
      BY <1>3, <1>5, ExtraCost, Zenon DEF Numbers
    <3> QED BY <1>0, <1>5, <1>7, <2>3, <3>1, <3>2
  <2>8. Reached(c, k + 1)'
    <3>1. ip' = c[k + 1] /\ out' = SubSeq(src, 1, Upto(parse, k + 1)) /\ k + 1 \in 0..Len(parse)
      BY <1>5, <2>3, <2>5, Zenon
    <3>2. src' = src /\ parse' = parse /\ block' = block
      BY <2>4
    <3> QED BY <3>1, <3>2, Zenon DEF Reached
  <2> QED BY <2>4, <2>6, <2>7, <2>8, Zenon
<1> QED BY <1>13, <1>14, Zenon

(* The decoder stops: with the source, with a beginning of a cut block's, or   *)
(* because something is missing.                                             *)
LEMMA Beginning ==
  ASSUME NEW s \in Seq(Byte), NEW a \in Nat, a <= Len(s)
  PROVE  /\ SubSeq(s, 1, a) \in Seq(Byte) /\ Len(SubSeq(s, 1, a)) = a
         /\ IsPrefix(SubSeq(s, 1, a), s)
<1>1. SubSeq(s, 1, a) \in Seq(Byte) /\ Len(SubSeq(s, 1, a)) = a
  OBVIOUS
<1>2. SubSeq(SubSeq(s, 1, a), 1, a) = SubSeq(s, 1, a)
  OBVIOUS
<1> QED BY <1>1, <1>2, Zenon DEF IsPrefix

LEMMA LastStep ==
  ASSUME Following(src, parse), src \in Seq(Byte), block \in Seq(Byte),
         NEW c, NEW k, Reached(c, k), capacity \in Nat, iend \in 0..Len(block), ip \in 0..iend,
         DecodeLast
  PROVE  \/ /\ stage' = "ok" /\ UNCHANGED <<src, parse, block, capacity, iend>> /\ ip' = iend
            /\ out' \in Seq(Byte) /\ Len(out') <= capacity
            /\ IF iend = Len(block) THEN out' = src ELSE IsPrefix(out', src)
         \/ Answer("error") /\ ~Whole
<1>0. ip \in Nat /\ iend \in Nat /\ Len(block) \in Nat /\ Len(src) \in Nat
  OBVIOUS
<1>1. PICK run \in LiteralRuns :
        /\ ~MatchFollows(run)
        /\ IF Ends(run)
           THEN /\ out' = Taken(run) /\ ip' = iend /\ stage' = "ok"
                /\ UNCHANGED <<src, coding, block, capacity, iend>>
           ELSE Answer("error")
  BY Zenon DEF DecodeLast
<1>2. UNCHANGED <<src, coding, block, capacity, iend>> => UNCHANGED <<src, parse, block, capacity, iend>>
  BY DEF coding
<1>3. CASE k # Len(parse)
  <2> DEFINE m == parse[k + 1]
             e == Upto(parse, k)
             l == m.at - e
             x == Len(Extra(l))
             y == m.len - MinMatch
             z == Len(Extra(y))
             at == (ip + 1) + x + l
             a == m.at
  <2>1. Numbers(k, m, e, l, x, y, z, at)
    BY Zenon DEF Numbers
  <2> HIDE DEF m, e, l, x, y, z, at
  <2>2. Readable(c, k, m, l, x, y, z, at)
    BY <1>0, <1>3, <2>1, SequenceRead, Zenon
  <2>3. /\ op + literals + run.add = a /\ run.next + literals + run.add = at /\ Taken(run) = SubSeq(src, 1, a)
        /\ at + 2 + z + 1 + LastLiterals <= Len(block) /\ at \in Nat /\ z \in Nat /\ IsMatch(src, m)
    BY <2>2, Zenon DEF Readable
  <2>4. ~Whole
    BY <1>0, <1>1, <1>3, <2>1, SequenceRoom, Zenon
  <2>5. a \in Nat /\ a + MFLimit <= Len(src) /\ MFLimit \in Nat /\ LastLiterals \in Nat
    BY <2>3, MatchNumbers, Sizes, Zenon
  <2> HIDE DEF a
  <2>6. a <= Len(src)
    BY <1>0, <2>5
  <2>7. CASE Ends(run)
    <3>1. at = iend /\ a <= capacity
      BY <2>3, <2>7, Zenon DEF Ends
    <3>2. iend # Len(block)
      BY <1>0, <2>3, <2>5, <3>1
    <3>3. SubSeq(src, 1, a) \in Seq(Byte) /\ Len(SubSeq(src, 1, a)) = a /\ IsPrefix(SubSeq(src, 1, a), src)
      BY <2>5, <2>6, Beginning, Zenon
    <3>4. out' = SubSeq(src, 1, a)
      BY <1>1, <2>3, <2>7, Zenon
    <3> QED BY <1>1, <1>2, <2>7, <3>1, <3>2, <3>3, <3>4, Zenon
  <2> QED BY <1>1, <2>4, <2>7, Zenon
<1>4. CASE k = Len(parse)
  <2>1. Reached(c, Len(parse))
    BY <1>4, Zenon
  <2>2. /\ op + literals + run.add = Len(src) /\ run.next + literals + run.add = Len(block)
        /\ Taken(run) = src
    <3>1. PICK l, x \in Nat :
            \A r \in LiteralRuns : /\ op + literals + r.add = Len(src)
                                   /\ r.next + literals + r.add = Len(block)
                                   /\ Taken(r) = src
      BY <1>0, <2>1, LastRead, Zenon
    <3> QED BY <3>1, Zenon
  <2>3. CASE Ends(run)
    <3>1. iend = Len(block) /\ Len(src) <= capacity /\ out' = src
      BY <1>1, <2>2, <2>3, Zenon DEF Ends
    <3> QED BY <1>1, <1>2, <2>3, <3>1, Zenon
  <2>4. CASE ~Ends(run)
    <3>1. ~(Len(block) = iend /\ Len(src) <= capacity)
      BY <2>2, <2>4, Zenon DEF Ends
    <3>2. ~Whole
      BY <1>0, <3>1 DEF Whole
    <3> QED BY <1>1, <2>4, <3>2, Zenon
  <2> QED BY <2>3, <2>4, Zenon
<1> QED BY <1>3, <1>4, Zenon

LEMMA NoLengthStep ==
  ASSUME Following(src, parse), src \in Seq(Byte), block \in Seq(Byte),
         NEW c, NEW k, Reached(c, k), capacity \in Nat, iend \in 0..Len(block), ip \in 0..iend,
         DecodeNoLength
  PROVE  Answer("error") /\ ~Whole
<1>0. ip \in Nat /\ iend \in Nat /\ Len(block) \in Nat /\ RunMask \in Nat
  BY Sizes
<1>1. LiteralRuns = {} /\ Answer("error")
  BY Zenon DEF DecodeNoLength
<1>2. CASE k # Len(parse)
  <2> DEFINE m == parse[k + 1]
             e == Upto(parse, k)
             l == m.at - e
             x == Len(Extra(l))
             y == m.len - MinMatch
             z == Len(Extra(y))
             at == (ip + 1) + x + l
  <2>1. Numbers(k, m, e, l, x, y, z, at)
    BY Zenon DEF Numbers
  <2> HIDE DEF m, e, l, x, y, z, at
  <2> QED BY <1>0, <1>1, <1>2, <2>1, SequenceRoom, Zenon
<1>3. CASE k = Len(parse)
  <2>1. PICK l, x \in Nat :
          /\ Len(block) = (ip + 1) + x + l
          /\ l < RunMask \/ (ip + 1) + x <= iend - RunMask => LiteralRuns # {}
    BY <1>0, <1>3, LastRead, Zenon
  <2>2. ~(l < RunMask \/ (ip + 1) + x <= iend - RunMask)
    BY <1>1, <2>1, Zenon
  <2>3. iend # Len(block)
    BY <1>0, <2>1, <2>2
  <2> QED BY <1>1, <2>3, Zenon DEF Whole
<1> QED BY <1>2, <1>3, Zenon

(* A block is never empty, and that of an empty source is one zero.           *)
LEMMA SmallestBlock ==
  ASSUME NEW s \in Seq(Byte), NEW p, Following(s, p), NEW b \in Seq(Byte), Packed(s, p, b)
  PROVE  /\ Len(b) >= 1
         /\ Len(b) = 1 => s = <<>>
         /\ s = <<>> => Len(b) = 1 /\ b[1] = 0
<1>1. PICK c \in [0..Len(p) -> Nat] :
        /\ Cuts(s, p, b, c)
        /\ c[Len(p)] + Len(LastRunOf(s, EndOf(p))) = Len(b)
        /\ Holds(b, c[Len(p)], LastRunOf(s, EndOf(p)))
  BY Zenon DEF Packed
<1> DEFINE e == EndOf(p)
           q == c[Len(p)]
           l == Len(s) - e
           x == Len(Extra(l))
<1>2. Len(s) \in Nat /\ Len(p) \in Nat /\ LastLiterals \in Nat /\ LastLiterals >= 1 /\ RunMask \in Nat
      /\ RunMask >= 1 /\ NibbleRange \in Nat /\ Len(b) \in Nat
  <2>1. Len(p) \in Nat
    BY UptoIs, Zenon
  <2> QED BY <2>1, Sizes
<1>3. e \in Nat /\ e <= Len(s) /\ (Len(p) # 0 => e + LastLiterals <= Len(s))
  BY <1>2, EndWithin, Zenon
<1>4. l \in Nat
  BY <1>2, <1>3
<1>5. x \in Nat /\ (l < RunMask => x = 0)
  BY <1>4, ExtraIs, ExtraCost, Zenon
<1>6. Len(LastRunOf(s, e)) = 1 + x + l
  BY <1>3, LastRunIs, Zenon
<1>7. q \in Nat
  BY <1>2
<1>8. Len(b) = q + (1 + x + l)
  BY <1>1, <1>6, Zenon
<1>9. (Len(p) = 0 => e = 0) /\ (Len(p) = 0 => q = 0)
  <2>1. c[0] = 0
    BY <1>1, Zenon DEF Cuts
  <2> QED BY <2>1, UptoIs, Zenon
<1>10. Holds(b, q, LastRunOf(s, e))
  BY <1>1, Zenon
<1>11. l = Len(s) - e
  OBVIOUS
<1> HIDE DEF e, q, l, x
<1>12. Len(b) >= 1
  BY <1>2, <1>4, <1>5, <1>7, <1>8
<1>13. ASSUME Len(b) = 1 PROVE s = <<>>
  <2>1. l = 0
    <3>1. q + (1 + x + l) = 1
      BY <1>8, <1>13, Zenon
    <3> QED BY <1>4, <1>5, <1>7, <3>1
  <2>2. Len(s) = e
    BY <1>2, <1>3, <1>11, <2>1
  <2>3. Len(p) = 0
    BY <1>2, <1>3, <2>2
  <2>4. Len(s) = 0
    BY <1>9, <2>2, <2>3, Zenon
  <2> QED BY <2>4, EmptySeq
<1>14. ASSUME s = <<>> PROVE Len(b) = 1 /\ b[1] = 0
  <2>1. Len(s) = 0
    BY <1>14
  <2>2. Len(p) = 0
    BY <1>2, <1>3, <2>1
  <2>3. e = 0 /\ q = 0
    BY <1>9, <2>2, Zenon
  <2>4. l = 0
    BY <1>11, <2>1, <2>3
  <2>5. x = 0
    BY <1>2, <1>5, <2>4
  <2>6. Len(b) = 1
    BY <1>8, <2>3, <2>4, <2>5
  <2>7. Holds(b, 0, LastRunOf(s, 0))
    BY <1>10, <2>3, Zenon
  <2>8. LastRunOf(s, 0) = Token(0, 0) \o (Extra(0) \o SubSeq(s, 1, 0))
    <3>1. 0 - 0 = 0 /\ 0 + 1 = 1
      OBVIOUS
    <3> QED BY <2>1, <3>1, Zenon DEF LastRunOf, HeadOf
  <2>9. Token(0, 0) = <<0>>
    <3>1. Smaller(0, RunMask) = 0 /\ Smaller(0, MlMask) = 0 /\ 0 * NibbleRange + 0 = 0
      BY <1>2, Sizes DEF Smaller
    <3> QED BY <3>1, Zenon DEF Token
  <2>10. Extra(0) \o SubSeq(s, 1, 0) \in Seq(Byte)
    <3>1. Extra(0) \in Seq(Byte) /\ SubSeq(s, 1, 0) \in Seq(Byte)
      BY ExtraIs
    <3> QED BY <3>1
  <2> DEFINE v == Extra(0) \o SubSeq(s, 1, 0)
  <2> HIDE DEF v
  <2>11. (<<0>> \o v)[1] = 0 /\ Len(<<0>> \o v) >= 1
    <3>1. v \in Seq(Byte)
      BY <2>10 DEF v
    <3>2. 0 \in Byte
      BY Sizes DEF Byte
    <3> QED BY <3>1, <3>2
  <2>12. 1 \in 1..Len(<<0>> \o v) /\ 0 + 1 = 1
    <3>1. <<0>> \o v \in Seq(Byte)
      <4>1. 0 \in Byte
        BY Sizes DEF Byte
      <4> QED BY <2>10, <4>1 DEF v
    <3> QED BY <2>11, <3>1
  <2>13. b[1] = 0
    BY <2>7, <2>8, <2>9, <2>11, <2>12, Zenon DEF Holds, v
  <2> QED BY <2>6, <2>13, Zenon
<1> QED BY <1>12, <1>13, <1>14, Zenon

LEMMA EmptyStep ==
  ASSUME Following(src, parse), src \in Seq(Byte), block \in Seq(Byte), Packed(src, parse, block),
         capacity \in Nat, iend \in 0..Len(block), out \in Seq(Byte), Len(out) <= capacity,
         DecodeEmpty
  PROVE  \/ Answer("ok") /\ IF iend = Len(block) THEN out = src ELSE IsPrefix(out, src)
         \/ Answer("error") /\ ~Whole
<1>1. /\ Len(block) >= 1
      /\ Len(block) = 1 => src = <<>>
      /\ src = <<>> => Len(block) = 1 /\ block[1] = 0
  BY SmallestBlock, Zenon
<1>2. Len(block) \in Nat /\ Len(src) \in Nat /\ Len(out) \in Nat /\ iend \in Nat /\ iend <= Len(block)
  OBVIOUS
<1>3. CASE capacity = 0 /\ iend = 1 /\ block[1] = 0
  <2>1. Answer("ok")
    BY <1>3, Zenon DEF DecodeEmpty
  <2>2. out = <<>>
    <3>1. Len(out) = 0
      BY <1>2, <1>3
    <3> QED BY <3>1, EmptySeq
  <2>3. IsPrefix(out, src)
    <3>1. 0 \in Nat /\ 0 <= Len(src)
      BY <1>2
    <3>2. SubSeq(src, 1, 0) = <<>>
      BY <1>2
    <3> QED BY <2>2, <3>1, <3>2, Beginning, Zenon
  <2>4. iend = Len(block) => out = src
    BY <1>1, <1>3, <2>2, Zenon
  <2> QED BY <2>1, <2>3, <2>4, Zenon
<1>4. CASE ~(capacity = 0 /\ iend = 1 /\ block[1] = 0)
  <2>1. Answer("error") /\ (capacity = 0 \/ iend = 0)
    BY <1>4, Zenon DEF DecodeEmpty
  <2>2. ASSUME Whole PROVE FALSE
    <3>1. iend # 0 /\ Len(src) <= capacity /\ iend = Len(block)
      BY <1>1, <1>2, <2>2 DEF Whole
    <3>2. capacity = 0
      BY <2>1, <3>1, Zenon
    <3>3. Len(src) = 0
      BY <1>2, <3>1, <3>2
    <3>4. src = <<>>
      BY <3>3, EmptySeq
    <3> QED BY <1>1, <1>4, <3>1, <3>2, <3>4, Zenon
  <2> QED BY <2>1, <2>2, Zenon
<1> QED BY <1>3, <1>4, Zenon

--------------------------------------------------------------------------------
(* The decoder within its buffers, and between the sequences of the block.    *)
Stages == {"main", "search2", "search3", "packed", "decode", "ok", "error"}
Verdict ==
  /\ stage = "ok" => IF iend = Len(block) THEN out = src ELSE IsPrefix(out, src)
  /\ stage = "error" => ~Whole

Reader ==
  /\ stage \in Stages
  /\ capacity \in 0..(n + Spare) /\ iend \in 0..Len(block) /\ ip \in 0..iend
  /\ out \in Seq(Byte) /\ Len(out) <= capacity
  /\ Working \/ stage = "packed" => decoding = <<0, 0, 0, <<>>>>
  /\ stage = "decode" => \E c, k : Reached(c, k)
  /\ Verdict

LEMMA ReaderInit ==
  ASSUME Init
  PROVE  Reader
<1>1. /\ stage = "main" /\ block = <<>> /\ capacity = 0 /\ iend = 0 /\ ip = 0 /\ out = <<>>
      /\ src \in Sources
  BY Zenon DEF Init
<1>2. n \in Nat /\ Spare \in Nat
  BY <1>1, SourceIs, Lz4Assumption
<1>3. 0 \in 0..(n + Spare) /\ 0 \in 0..Len(<<>>) /\ 0 \in 0..0 /\ <<>> \in Seq(Byte) /\ Len(<<>>) <= 0
  BY <1>2
<1>4. stage \in Stages /\ stage # "decode" /\ stage # "ok" /\ stage # "error"
  BY <1>1 DEF Stages
<1> QED BY <1>1, <1>3, <1>4, Zenon DEF Reader, Verdict, decoding

LEMMA CompressStages ==
  ASSUME Compress
  PROVE  Working /\ decoding' = decoding /\ (Working' \/ stage' = "packed")
<1>1. Working
  BY Zenon DEF Compress, FindFirst, FindNone, EncodeFirst, SecondReplaces, SecondFollows, EncodeBoth,
               ThirdReplaces, ThirdAfterFirst, ThirdAscends, Finish, Searching, Working
<1>2. decoding' = decoding
  BY Zenon DEF Compress, FindFirst, FindNone, EncodeFirst, SecondReplaces, SecondFollows, EncodeBoth,
               ThirdReplaces, ThirdAfterFirst, ThirdAscends, Finish
<1>3. stage' = stage \/ stage' = "main" \/ stage' = "search2" \/ stage' = "search3" \/ stage' = "packed"
  BY Zenon DEF Compress, FindFirst, FindNone, EncodeFirst, SecondReplaces, SecondFollows, EncodeBoth,
               ThirdReplaces, ThirdAfterFirst, ThirdAscends, Finish
<1> QED BY <1>1, <1>2, <1>3, Zenon DEF Working

LEMMA ReaderStopped ==
  ASSUME Reader, Answer("ok") \/ Answer("error"), Verdict'
  PROVE  Reader'
<1>1. /\ src' = src /\ block' = block /\ capacity' = capacity /\ iend' = iend /\ ip' = ip /\ out' = out
      /\ n' = n
  BY Zenon DEF Answer, n
<1>2. stage' \in Stages /\ ~Working' /\ stage' # "packed" /\ stage' # "decode"
  <2>1. CASE stage' = "ok"
    BY <2>1 DEF Stages, Working
  <2>2. CASE stage' = "error"
    BY <2>2 DEF Stages, Working
  <2> QED BY <2>1, <2>2, Zenon DEF Answer
<1> QED BY <1>1, <1>2, Zenon DEF Reader

LEMMA ReaderNext ==
  ASSUME Steering, Blocks, Blocks', Reader, [Next]_vars
  PROVE  Reader'
<1>1. src \in Sources /\ Following(src, parse)
  BY Zenon DEF Steering
<1>2. src \in Seq(Byte) /\ Len(src) \in Nat /\ n = Len(src) /\ src' = src
  BY <1>1, SourceIs, SourceKept, Zenon
<1>3. n' = n
  BY <1>2, Zenon DEF n
<1>4. block \in Seq(Byte) /\ block' \in Seq(Byte)
  BY Zenon DEF Blocks, Written, Packed
<1>5. n \in Nat /\ Spare \in Nat
  BY <1>2, Lz4Assumption
<1>6. CASE Compress
  <2>1. decoding = <<0, 0, 0, <<>>>> /\ decoding' = decoding /\ (Working' \/ stage' = "packed")
    BY <1>6, CompressStages, Zenon DEF Reader
  <2>2. capacity' = 0 /\ iend' = 0 /\ ip' = 0 /\ out' = <<>> /\ decoding' = <<0, 0, 0, <<>>>>
    BY <2>1 DEF decoding
  <2>3. 0 \in 0..(n + Spare) /\ 0 \in 0..Len(block') /\ 0 \in 0..0 /\ <<>> \in Seq(Byte) /\ Len(<<>>) <= 0
    BY <1>4, <1>5
  <2>4. stage' \in Stages /\ stage' # "decode" /\ stage' # "ok" /\ stage' # "error"
    BY <2>1 DEF Stages, Working
  <2> QED BY <1>3, <2>2, <2>3, <2>4, Zenon DEF Reader, Verdict
<1>7. CASE Call
  <2>1. /\ stage = "packed" /\ stage' = "decode" /\ iend' \in 0..Len(block)
        /\ capacity' \in 0..(n + Spare)
        /\ parse' = parse /\ block' = block /\ ip' = ip /\ out' = out
    BY <1>7, Zenon DEF Call
  <2>2. capacity' \in 0..(n + Spare)
    BY <2>1
  <2>3. ip = 0 /\ out = <<>>
    BY <2>1 DEF Reader, decoding
  <2>4. ip' \in 0..iend' /\ out' \in Seq(Byte) /\ Len(out') <= capacity'
    <3>1. iend' \in Nat /\ capacity' \in Nat
      BY <1>4, <1>5, <2>1, <2>2
    <3> QED BY <2>1, <2>3, <3>1
  <2>5. ~Working
    BY <2>1 DEF Working
  <2>6. PICK c \in [0..Len(parse) -> Nat] :
          /\ Cuts(src, parse, block, c)
          /\ c[Len(parse)] + Len(LastRunOf(src, EndOf(parse))) = Len(block)
          /\ Holds(block, c[Len(parse)], LastRunOf(src, EndOf(parse)))
    BY <2>5, Zenon DEF Blocks, Packed
  <2>7. Reached(c, 0)'
    <3>1. 0 \in 0..Len(parse)
      <4>1. Len(parse) \in Nat
        BY <1>1, UptoIs, Zenon
      <4> QED BY <4>1
    <3>2. ip' = c[0]
      BY <2>1, <2>3, <2>6, Zenon DEF Cuts
    <3>3. SubSeq(src, 1, 0) = <<>>
      BY <1>2
    <3>4. out' = SubSeq(src, 1, Upto(parse, 0))
      BY <2>1, <2>3, <3>3, Zenon DEF Upto
    <3> QED BY <1>2, <2>1, <2>6, <3>1, <3>2, <3>4, Zenon DEF Reached
  <2>8. stage' \in Stages /\ ~Working' /\ stage' # "packed" /\ stage' # "ok" /\ stage' # "error"
    BY <2>1 DEF Stages, Working
  <2> QED BY <1>3, <2>1, <2>2, <2>4, <2>7, <2>8, Zenon DEF Reader, Verdict
<1>8. CASE Decompress
  <2>1. stage = "decode"
    BY <1>8, Zenon DEF Decompress, DecodeEmpty, DecodeSequence, DecodeLast, DecodeNoLength, Decoding
  <2>2. ~Working
    BY <2>1 DEF Working
  <2>3. Packed(src, parse, block)
    BY <2>2, Zenon DEF Blocks
  <2>4. PICK c, k : Reached(c, k)
    BY <2>1, Zenon DEF Reader
  <2>5. /\ capacity \in 0..(n + Spare) /\ iend \in 0..Len(block) /\ ip \in 0..iend /\ out \in Seq(Byte)
        /\ Len(out) <= capacity
    BY Zenon DEF Reader
  <2>6. capacity \in Nat
    BY <1>5, <2>5
  <2>7. CASE DecodeSequence
    <3>1. \/ /\ stage' = "decode" /\ UNCHANGED <<src, parse, block, capacity, iend>>
             /\ ip' \in 0..iend /\ out' \in Seq(Byte) /\ Len(out') <= capacity /\ Reached(c, k + 1)'
          \/ Answer("error") /\ ~Whole
      BY <1>1, <1>2, <1>4, <2>4, <2>5, <2>6, <2>7, SequenceStep, Zenon
    <3>2. CASE Answer("error") /\ ~Whole
      <4>1. Verdict'
        BY <3>2, Zenon DEF Verdict, Whole, Answer
      <4> QED BY <3>2, <4>1, ReaderStopped, Zenon
    <3>3. CASE /\ stage' = "decode" /\ UNCHANGED <<src, parse, block, capacity, iend>>
               /\ ip' \in 0..iend /\ out' \in Seq(Byte) /\ Len(out') <= capacity /\ Reached(c, k + 1)'
      <4>1. stage' \in Stages /\ ~Working' /\ stage' # "packed" /\ stage' # "ok" /\ stage' # "error"
        BY <3>3 DEF Stages, Working
      <4>2. capacity' = capacity /\ iend' = iend /\ block' = block
        BY <3>3
      <4> QED BY <1>3, <2>5, <3>3, <4>1, <4>2, Zenon DEF Reader, Verdict
    <3> QED BY <3>1, <3>2, <3>3, Zenon
  <2>8. CASE DecodeLast
    <3>1. \/ /\ stage' = "ok" /\ UNCHANGED <<src, parse, block, capacity, iend>> /\ ip' = iend
             /\ out' \in Seq(Byte) /\ Len(out') <= capacity
             /\ IF iend = Len(block) THEN out' = src ELSE IsPrefix(out', src)
          \/ Answer("error") /\ ~Whole
      BY <1>1, <1>2, <1>4, <2>4, <2>5, <2>6, <2>8, LastStep, Zenon
    <3>2. CASE Answer("error") /\ ~Whole
      <4>1. Verdict'
        BY <3>2, Zenon DEF Verdict, Whole, Answer
      <4> QED BY <3>2, <4>1, ReaderStopped, Zenon
    <3>3. CASE /\ stage' = "ok" /\ UNCHANGED <<src, parse, block, capacity, iend>> /\ ip' = iend
               /\ out' \in Seq(Byte) /\ Len(out') <= capacity
               /\ IF iend = Len(block) THEN out' = src ELSE IsPrefix(out', src)
      <4>1. stage' \in Stages /\ ~Working' /\ stage' # "packed" /\ stage' # "decode" /\ stage' # "error"
        BY <3>3 DEF Stages, Working
      <4>2. capacity' = capacity /\ iend' = iend /\ block' = block /\ src' = src
        BY <3>3
      <4>3. iend \in 0..iend
        BY <1>4, <2>5
      <4> QED BY <1>3, <2>5, <3>3, <4>1, <4>2, <4>3, Zenon DEF Reader, Verdict
    <3> QED BY <3>1, <3>2, <3>3, Zenon
  <2>9. CASE DecodeNoLength
    <3>1. Answer("error") /\ ~Whole
      BY <1>1, <1>2, <1>4, <2>4, <2>5, <2>6, <2>9, NoLengthStep, Zenon
    <3>2. Verdict'
      BY <3>1, Zenon DEF Verdict, Whole, Answer
    <3> QED BY <3>1, <3>2, ReaderStopped, Zenon
  <2>10. CASE DecodeEmpty
    <3>1. \/ Answer("ok") /\ IF iend = Len(block) THEN out = src ELSE IsPrefix(out, src)
          \/ Answer("error") /\ ~Whole
      BY <1>1, <1>2, <1>4, <2>3, <2>5, <2>6, <2>10, EmptyStep, Zenon
    <3>2. CASE Answer("error") /\ ~Whole
      <4>1. Verdict'
        BY <3>2, Zenon DEF Verdict, Whole, Answer
      <4> QED BY <3>2, <4>1, ReaderStopped, Zenon
    <3>3. CASE Answer("ok") /\ IF iend = Len(block) THEN out = src ELSE IsPrefix(out, src)
      <4>1. Verdict'
        BY <3>3, Zenon DEF Verdict, Answer
      <4> QED BY <3>3, <4>1, ReaderStopped, Zenon
    <3> QED BY <3>1, <3>2, <3>3, Zenon
  <2> QED BY <1>8, <2>7, <2>8, <2>9, <2>10, Zenon DEF Decompress
<1>9. CASE UNCHANGED vars
  <2>1. src' = src /\ stage' = stage /\ parse' = parse /\ block' = block /\ decoding' = decoding
        /\ capacity' = capacity /\ iend' = iend /\ ip' = ip /\ out' = out
    BY <1>9 DEF vars, coding, decoding
  <2> QED BY <1>3, <2>1, Zenon DEF Reader, Verdict, Whole, Working, Reached
<1> QED BY <1>6, <1>7, <1>8, <1>9, Zenon DEF Next, Ended

(* Matches that overlap their own copy, matches cut and restored, lengths     *)
(* beyond a token, a buffer of exactly the size, a block that was cut: what   *)
(* the decoder accepts is what was compressed, or begins it.                  *)
THEOREM AlwaysDecodesToSource == Spec => []DecodesToSource
<1> DEFINE I == Steering /\ Blocks /\ Reader
<1>1. Init => I
  BY SteeringInit, BlocksInit, ReaderInit, Zenon
<1>2. I /\ [Next]_vars => I'
  BY SteeringNext, BlocksNext, ReaderNext, Zenon
<1>3. I => DecodesToSource
  <2> SUFFICES ASSUME Steering, Blocks, Reader PROVE DecodesToSource
    OBVIOUS
  <2>1. src \in Sources
    BY Zenon DEF Steering
  <2>2. n \in Nat /\ n = Len(src) /\ Spare \in Nat
    BY <2>1, SourceIs, Lz4Assumption
  <2>3. block \in Seq(Byte) /\ iend \in 0..Len(block) /\ capacity \in 0..(n + Spare)
    BY Zenon DEF Blocks, Written, Packed, Reader
  <2>4. ~Whole => iend < Len(block) \/ capacity < n
    BY <2>2, <2>3 DEF Whole
  <2> QED BY <2>4, Zenon DEF Reader, Verdict, DecodesToSource
<1> QED
  BY <1>1, <1>2, <1>3, PTL DEF Spec

--------------------------------------------------------------------------------
(* The compressor's matches lie within the source.                           *)
Held ==
  /\ m0 \in Matches /\ m1 \in Matches /\ m2 \in Matches
  /\ giveUps \in 0..MaxGiveUps

LEMMA MatchesWithin ==
  ASSUME src \in Seq(Byte), NEW m, IsMatch(src, m)
  PROVE  m \in Matches
<1>1. m \in Triple
  BY Zenon DEF IsMatch
<1> DEFINE a == m.at
           r == m.ref
           l == m.len
           w == End(m)
<1>2. /\ a \in Nat /\ r \in Nat /\ l \in Nat /\ r < a /\ w = a + l
      /\ w + LastLiterals <= Len(src) /\ LastLiterals \in Nat
  BY MatchNumbers, Sizes, Zenon
<1>3. n = Len(src) /\ n \in Nat
  BY DEF n
<1>4. m = [at |-> a, ref |-> r, len |-> l]
  BY <1>1 DEF Triple
<1> HIDE DEF a, r, l, w
<1>5. a \in 0..n /\ r \in 0..n /\ l \in 0..n
  BY <1>2, <1>3
<1>6. [at |-> a, ref |-> r, len |-> l] \in [at : 0..n, ref : 0..n, len : 0..n]
  BY <1>5
<1> QED BY <1>4, <1>6, Zenon DEF Matches

LEMMA CursorsWithin ==
  ASSUME src \in Seq(Byte), NEW a \in Nat, a <= Len(src)
  PROVE  Cursor(a) \in Matches
<1>1. n = Len(src) /\ n \in Nat
  BY DEF n
<1>2. a \in 0..n /\ 0 \in 0..n
  BY <1>1
<1>3. [at |-> a, ref |-> a, len |-> 0] \in [at : 0..n, ref : 0..n, len : 0..n]
  BY <1>2
<1> QED BY <1>3, Zenon DEF Matches, Cursor, Match

LEMMA HeldInit ==
  ASSUME Init
  PROVE  Held
<1>1. /\ src \in Sources /\ m0 = Cursor(0) /\ m1 = Cursor(0) /\ m2 = Cursor(0)
      /\ giveUps \in 0..MaxGiveUps
  BY Zenon DEF Init
<1>2. src \in Seq(Byte) /\ 0 \in Nat /\ 0 <= Len(src)
  <2>1. src \in Seq(Byte)
    BY <1>1, SourceIs, Zenon
  <2> QED BY <2>1
<1>3. Cursor(0) \in Matches
  BY <1>2, CursorsWithin, Zenon
<1> QED BY <1>1, <1>3, Zenon DEF Held

LEMMA MatchesMove ==
  ASSUME [Next]_vars
  PROVE  /\ m0' = m0 \/ m0' = Cursor(0) \/ stage' = "search2"
         /\ m1' = m1 \/ m1' = Cursor(0) \/ stage' = "search2" \/ stage' = "search3" \/ stage' = "main"
         /\ m2' = m2 \/ m2' = Cursor(0) \/ stage' = "search3"
         /\ giveUps' = giveUps \/ giveUps' = 0 \/ (giveUps > 0 /\ giveUps' = giveUps - 1)
<1>1. CASE FindFirst \/ FindNone \/ EncodeFirst
  BY <1>1, Zenon DEF FindFirst, FindNone, EncodeFirst, FindsNone, Searching
<1>2. CASE SecondReplaces \/ SecondFollows
  BY <1>2, Zenon DEF SecondReplaces, SecondFollows
<1>3. CASE EncodeBoth
  BY <1>3, Zenon DEF EncodeBoth, FindsNone
<1>4. CASE ThirdReplaces \/ ThirdAfterFirst
  BY <1>4, Zenon DEF ThirdReplaces, ThirdAfterFirst
<1>5. CASE ThirdAscends
  BY <1>5, Zenon DEF ThirdAscends
<1>6. CASE Finish
  <2>1. coding' = coding
    BY <1>6, Zenon DEF Finish
  <2> QED BY <2>1 DEF coding
<1>7. CASE Call
  BY <1>7, Zenon DEF Call
<1>8. CASE Decompress
  <2>1. coding' = coding
    BY <1>8, Zenon DEF Decompress, DecodeEmpty, DecodeSequence, DecodeLast, DecodeNoLength, Answer
  <2> QED BY <2>1 DEF coding
<1>9. CASE UNCHANGED vars
  BY <1>9 DEF vars, coding
<1> QED
  BY <1>1, <1>2, <1>3, <1>4, <1>5, <1>6, <1>7, <1>8, <1>9, Zenon DEF Next, Compress, Ended

LEMMA HeldNext ==
  ASSUME Steering, Steering', Held, [Next]_vars
  PROVE  Held'
<1>1. src \in Seq(Byte) /\ src' = src /\ Len(src) \in Nat
  <2>1. src \in Sources
    BY Zenon DEF Steering
  <2> QED BY <2>1, SourceIs, SourceKept, Zenon
<1>2. Matches' = Matches
  BY <1>1, Zenon DEF Matches, n
<1>3. Cursor(0) \in Matches
  <2>1. 0 \in Nat /\ 0 <= Len(src)
    BY <1>1
  <2> QED BY <1>1, <2>1, CursorsWithin, Zenon
<1>4. stage' = "main" => m1' \in Matches
  <2> SUFFICES ASSUME stage' = "main" PROVE m1' \in Matches
    OBVIOUS
  <2>1. Main(src, EndOf(parse'), m1')
    BY <1>1, Zenon DEF Steering
  <2> DEFINE a == m1'.at
  <2>2. m1' = Cursor(a) /\ a \in Nat /\ a <= Len(src)
    BY <2>1, Zenon DEF Main
  <2> HIDE DEF a
  <2> QED BY <1>1, <2>2, CursorsWithin, Zenon
<1>5. stage' = "search2" => m0' \in Matches /\ m1' \in Matches
  BY <1>1, MatchesWithin, Zenon DEF Steering, Two
<1>6. stage' = "search3" => m1' \in Matches /\ m2' \in Matches
  BY <1>1, MatchesWithin, Zenon DEF Steering, Three
<1>7. /\ m0' = m0 \/ m0' = Cursor(0) \/ stage' = "search2"
      /\ m1' = m1 \/ m1' = Cursor(0) \/ stage' = "search2" \/ stage' = "search3" \/ stage' = "main"
      /\ m2' = m2 \/ m2' = Cursor(0) \/ stage' = "search3"
  BY MatchesMove, Zenon
<1>8. giveUps' \in 0..MaxGiveUps
  <2>1. giveUps' = giveUps \/ giveUps' = 0 \/ (giveUps > 0 /\ giveUps' = giveUps - 1)
    BY MatchesMove, Zenon
  <2>2. MaxGiveUps \in Nat /\ giveUps \in 0..MaxGiveUps
    BY Lz4Assumption DEF Held
  <2> QED BY <2>1, <2>2
<1> QED BY <1>2, <1>3, <1>4, <1>5, <1>6, <1>7, <1>8, Zenon DEF Held

(* With the types: the decoder reads nothing it was not given and writes      *)
(* nothing beyond its buffer, whatever its size and wherever the block ends.  *)
THEOREM Lz4TypeCorrect == Spec => []TypeOK
<1> DEFINE I == Steering /\ Blocks /\ Reader /\ Held
<1>1. Init => I
  BY SteeringInit, BlocksInit, ReaderInit, HeldInit, Zenon
<1>2. I /\ [Next]_vars => I'
  BY SteeringNext, BlocksNext, ReaderNext, HeldNext, Zenon
<1>3. I => TypeOK
  <2> SUFFICES ASSUME Steering, Blocks, Reader, Held PROVE TypeOK
    OBVIOUS
  <2>1. src \in Sources /\ Following(src, parse)
    BY Zenon DEF Steering
  <2>2. src \in Seq(Byte)
    BY <2>1, SourceIs, Zenon
  <2>3. \A i \in DOMAIN parse : parse[i] \in Matches
    <3>1. DOMAIN parse = 1..Len(parse)
      <4>1. parse \in Seq(Triple)
        BY <2>1, Zenon DEF Following
      <4> QED BY <4>1
    <3> QED BY <2>1, <2>2, <3>1, MatchesWithin, Zenon DEF Following
  <2>4. \A i \in DOMAIN block : block[i] \in 0..ByteMax
    <3>1. block \in Seq(Byte)
      BY Zenon DEF Blocks, Written, Packed
    <3>2. DOMAIN block = 1..Len(block)
      BY <3>1
    <3>3. \A i \in 1..Len(block) : block[i] \in Byte
      BY <3>1
    <3> QED BY <3>2, <3>3, Zenon DEF Byte
  <2>5. {m0, m1, m2} \subseteq Matches /\ giveUps \in 0..MaxGiveUps
    BY Zenon DEF Held
  <2>6. capacity \in 0..(n + Spare) /\ Len(out) \in 0..capacity
    <3>1. out \in Seq(Byte) /\ Len(out) <= capacity /\ capacity \in 0..(n + Spare)
      BY Zenon DEF Reader
    <3>2. n \in Nat /\ Spare \in Nat
      BY <2>1, SourceIs, Lz4Assumption
    <3> QED BY <3>1, <3>2
  <2> QED BY <2>1, <2>3, <2>4, <2>5, <2>6, Zenon DEF TypeOK, Reader, Stages
<1> QED
  BY <1>1, <1>2, <1>3, PTL DEF Spec

================================================================================
