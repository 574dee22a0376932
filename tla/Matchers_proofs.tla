----------------------------- MODULE Matchers_proofs -----------------------------
(***************************************************************************)
(* For lines of any length over any characters, and grams of any length:   *)
(* what the two matchers find, one line on its way through them and back,  *)
(* and the choice of the reference.                                        *)
(*                                                                         *)
(* The edits of the substitution matcher turn the reference into the line  *)
(* (SubstitutionTurns), and so do those of the q-gram matcher when neither *)
(* line holds a character that pads them (QgramTurns).  The recursive      *)
(* functions of the code's loops are met as functions f with f[0] the      *)
(* beginning and f[k] made of f[k - 1]; what they keep is then counted up  *)
(* (CountUp), or along the cells of the table (CellsUp).                   *)
(*                                                                         *)
(* LineEdits: the edits are in order, recovery applies them to make the    *)
(* line, and they cost what the matcher says.                              *)
(*                                                                         *)
(* ReferenceChoice, for every file, window, block and threshold: LInv says *)
(* where reading, coding and searching are, and that the window holds the  *)
(* last of the lines coded; a record's begin is then the place where the   *)
(* decompressor looks, and the lemmas on the matchers give the rest of the *)
(* round trip.                                                             *)
(***************************************************************************)
EXTENDS LineEdits, ReferenceChoice, FiniteSetTheorems, SequenceTheorems, WellFoundedInduction, TLAPS

(* A set of naturals that is not empty has a least member.                    *)
LEMMA LeastNatural ==
  ASSUME NEW S \in SUBSET Nat, S # {}
  PROVE  \E m \in S : \A k \in S : m <= k
<1> DEFINE lessThan == {p \in Nat \X Nat : p[1] < p[2]}
<1>1. IsWellFoundedOn(lessThan, Nat)
  BY NatLessThanWellFounded, Zenon DEF OpToRel
<1>2. PICK m \in S : \A k \in S : ~(<<k, m>> \in lessThan)
  BY <1>1, WFMin, Zenon
<1>3. \A k \in S : ~(k < m)
  BY <1>2
<1> QED
  BY <1>3

(* Merging edits, step by step: f[k] is what it makes of the first k.         *)
LEMMA MergeEditsIs ==
  ASSUME NEW es, Len(es) \in Nat
  PROVE  \E f : /\ MergeEdits(es) = f[Len(es)]
                /\ f[0] = <<>>
                /\ \A k \in 1..Len(es) : f[k] = MergedWith(f[k - 1], es[k])
<1> DEFINE n == Len(es)
           First == <<>>
           Step(u, k) == MergedWith(u, es[k])
           Up(m, f) == f = [k \in 0..m |-> IF k = 0 THEN First ELSE Step(f[k - 1], k)]
           bad == {m \in 0..n : ~\E f : Up(m, f)}
<1>1. n \in 0..n
  OBVIOUS
<1> HIDE DEF Step, First, n
<1>2. ASSUME bad # {} PROVE FALSE
  <2>1. bad \in SUBSET Nat
    BY <1>1
  <2>2. PICK m \in bad : \A j \in bad : m <= j
    <3> HIDE DEF bad
    <3> QED BY <1>2, <2>1, LeastNatural, Zenon
  <2>3. m \in 0..n /\ ~\E f : Up(m, f)
    BY <2>2
  <2>4. m # 0
    <3>1. Up(0, [k \in 0..0 |-> First])
      OBVIOUS
    <3> QED BY <2>3, <3>1
  <2>5. m - 1 \in 0..n /\ m - 1 \notin bad
    BY <1>1, <2>2, <2>3, <2>4
  <2>6. PICK f : Up(m - 1, f)
    BY <2>5
  <2> DEFINE h == [k \in 0..m |-> IF k = m THEN Step(f[m - 1], m) ELSE f[k]]
  <2>7. \A k \in 0..(m - 1) : f[k] = IF k = 0 THEN First ELSE Step(f[k - 1], k)
    BY <2>6
  <2>8. \A k \in 0..m : h[k] = IF k = 0 THEN First ELSE Step(h[k - 1], k)
    <3> TAKE k \in 0..m
    <3>1. k \in 0..(m - 1) \/ k = m
      BY <2>3
    <3>2. k # 0 => (k - 1 \in 0..m /\ k - 1 # m /\ h[k - 1] = f[k - 1])
      BY <2>3
    <3>3. CASE k = m
      BY <2>4, <3>2, <3>3
    <3>4. CASE k # m
      <4>1. k \in 0..(m - 1) /\ h[k] = f[k]
        BY <3>1, <3>4
      <4> QED BY <2>7, <3>2, <4>1
    <3> QED BY <3>3, <3>4
  <2>9. Up(m, h)
    BY <2>8
  <2> QED BY <2>3, <2>9
<1>3. \E f : Up(n, f)
  BY <1>1, <1>2
<1> DEFINE c == CHOOSE f : Up(n, f)
<1>4. Up(n, c)
  BY <1>3
<1>5. c[0] = First /\ \A k \in 1..n : c[k] = Step(c[k - 1], k)
  <2> HIDE DEF c
  <2> QED BY <1>1, <1>4
<1>6. MergeEdits(es) = c[n]
  BY DEF MergeEdits, Step, First, n
<1> HIDE DEF c
<1> QED
  BY <1>5, <1>6, Zenon DEF Step, First, n

(* Taking matches, gram by gram: f[k] is what is taken up to gram k of s.     *)
LEMMA TakenIs ==
  ASSUME NEW s, NEW t, Len(Qgrams(s)) \in Nat
  PROVE  \E f : /\ QgramMatches(s, t) = f[Len(Qgrams(s))]
                /\ f[0] = <<>>
                /\ \A k \in 1..Len(Qgrams(s)) : f[k] = Take(Qgrams(s), Qgrams(t), f[k - 1], k)
<1> DEFINE n == Len(Qgrams(s))
           First == <<>>
           Step(u, k) == Take(Qgrams(s), Qgrams(t), u, k)
           Up(m, f) == f = [k \in 0..m |-> IF k = 0 THEN First ELSE Step(f[k - 1], k)]
           bad == {m \in 0..n : ~\E f : Up(m, f)}
<1>1. n \in 0..n
  OBVIOUS
<1> HIDE DEF Step, First, n
<1>2. ASSUME bad # {} PROVE FALSE
  <2>1. bad \in SUBSET Nat
    BY <1>1
  <2>2. PICK m \in bad : \A j \in bad : m <= j
    <3> HIDE DEF bad
    <3> QED BY <1>2, <2>1, LeastNatural, Zenon
  <2>3. m \in 0..n /\ ~\E f : Up(m, f)
    BY <2>2
  <2>4. m # 0
    <3>1. Up(0, [k \in 0..0 |-> First])
      OBVIOUS
    <3> QED BY <2>3, <3>1
  <2>5. m - 1 \in 0..n /\ m - 1 \notin bad
    BY <1>1, <2>2, <2>3, <2>4
  <2>6. PICK f : Up(m - 1, f)
    BY <2>5
  <2> DEFINE h == [k \in 0..m |-> IF k = m THEN Step(f[m - 1], m) ELSE f[k]]
  <2>7. \A k \in 0..(m - 1) : f[k] = IF k = 0 THEN First ELSE Step(f[k - 1], k)
    BY <2>6
  <2>8. \A k \in 0..m : h[k] = IF k = 0 THEN First ELSE Step(h[k - 1], k)
    <3> TAKE k \in 0..m
    <3>1. k \in 0..(m - 1) \/ k = m
      BY <2>3
    <3>2. k # 0 => (k - 1 \in 0..m /\ k - 1 # m /\ h[k - 1] = f[k - 1])
      BY <2>3
    <3>3. CASE k = m
      BY <2>4, <3>2, <3>3
    <3>4. CASE k # m
      <4>1. k \in 0..(m - 1) /\ h[k] = f[k]
        BY <3>1, <3>4
      <4> QED BY <2>7, <3>2, <4>1
    <3> QED BY <3>3, <3>4
  <2>9. Up(m, h)
    BY <2>8
  <2> QED BY <2>3, <2>9
<1>3. \E f : Up(n, f)
  BY <1>1, <1>2
<1> DEFINE c == CHOOSE f : Up(n, f)
<1>4. Up(n, c)
  BY <1>3
<1>5. c[0] = First /\ \A k \in 1..n : c[k] = Step(c[k - 1], k)
  <2> HIDE DEF c
  <2> QED BY <1>1, <1>4
<1>6. QgramMatches(s, t) = c[n]
  BY DEF QgramMatches, Step, First, n
<1> HIDE DEF c
<1> QED
  BY <1>5, <1>6, Zenon DEF Step, First, n

(* Filling the table, cell by cell: f[k] is the table when k cells are        *)
(* filled.                                                                    *)
FillsTable(s, t, f) ==
  /\ Table(s, t) = f[Len(s) * Len(t)]
  /\ f[0] = [p \in (0..Len(s)) \X (0..Len(t)) |-> Edge(p[1], p[2])]
  /\ \A k \in 1..Len(s) * Len(t) : f[k] = Filled(f[k - 1], s, t, 1 + ((k - 1) \div Len(t)), 1 + ((k - 1) % Len(t)))

(* The table is what filling it makes.                                        *)
LEMMA TableIs ==
  ASSUME NEW s, NEW t, Len(s) \in Nat, Len(t) \in Nat, Len(s) * Len(t) \in Nat
  PROVE  \E f : FillsTable(s, t, f)
<1> DEFINE n == Len(s) * Len(t)
           First == [p \in (0..Len(s)) \X (0..Len(t)) |-> Edge(p[1], p[2])]
           Step(u, k) == Filled(u, s, t, 1 + ((k - 1) \div Len(t)), 1 + ((k - 1) % Len(t)))
           Up(m, f) == f = [k \in 0..m |-> IF k = 0 THEN First ELSE Step(f[k - 1], k)]
           bad == {m \in 0..n : ~\E f : Up(m, f)}
<1>1. n \in 0..n
  OBVIOUS
<1> HIDE DEF Step, First, n
<1>2. ASSUME bad # {} PROVE FALSE
  <2>1. bad \in SUBSET Nat
    BY <1>1
  <2>2. PICK m \in bad : \A j \in bad : m <= j
    <3> HIDE DEF bad
    <3> QED BY <1>2, <2>1, LeastNatural, Zenon
  <2>3. m \in 0..n /\ ~\E f : Up(m, f)
    BY <2>2
  <2>4. m # 0
    <3>1. Up(0, [k \in 0..0 |-> First])
      OBVIOUS
    <3> QED BY <2>3, <3>1
  <2>5. m - 1 \in 0..n /\ m - 1 \notin bad
    BY <1>1, <2>2, <2>3, <2>4
  <2>6. PICK f : Up(m - 1, f)
    BY <2>5
  <2> DEFINE h == [k \in 0..m |-> IF k = m THEN Step(f[m - 1], m) ELSE f[k]]
  <2>7. \A k \in 0..(m - 1) : f[k] = IF k = 0 THEN First ELSE Step(f[k - 1], k)
    BY <2>6
  <2>8. \A k \in 0..m : h[k] = IF k = 0 THEN First ELSE Step(h[k - 1], k)
    <3> TAKE k \in 0..m
    <3>1. k \in 0..(m - 1) \/ k = m
      BY <2>3
    <3>2. k # 0 => (k - 1 \in 0..m /\ k - 1 # m /\ h[k - 1] = f[k - 1])
      BY <2>3
    <3>3. CASE k = m
      BY <2>4, <3>2, <3>3
    <3>4. CASE k # m
      <4>1. k \in 0..(m - 1) /\ h[k] = f[k]
        BY <3>1, <3>4
      <4> QED BY <2>7, <3>2, <4>1
    <3> QED BY <3>3, <3>4
  <2>9. Up(m, h)
    BY <2>8
  <2> QED BY <2>3, <2>9
<1>3. \E f : Up(n, f)
  BY <1>1, <1>2
<1> DEFINE c == CHOOSE f : Up(n, f)
<1>4. Up(n, c)
  BY <1>3
<1>5. c[0] = First /\ \A k \in 1..n : c[k] = Step(c[k - 1], k)
  <2> HIDE DEF c
  <2> QED BY <1>1, <1>4
<1>6. Table(s, t) = c[n]
  BY DEF Table, Step, First, n
<1> HIDE DEF c
<1> QED
  BY <1>5, <1>6, Zenon DEF Step, First, n, FillsTable

(* Pieces put together, one by one.                                           *)
LEMMA FlattenIs ==
  ASSUME NEW seqs, Len(seqs) \in Nat \ {0}
  PROVE  \E f : /\ FlattenSeq(seqs) = f[Len(seqs)]
                /\ f[1] = seqs[1]
                /\ \A k \in 2..Len(seqs) : f[k] = f[k - 1] \o seqs[k]
<1> DEFINE n == Len(seqs)
           First == seqs[1]
           Step(u, k) == u \o seqs[k]
           Up(m, f) == f = [k \in 1..m |-> IF k = 1 THEN First ELSE Step(f[k - 1], k)]
           bad == {m \in 1..n : ~\E f : Up(m, f)}
<1>1. n \in 1..n
  OBVIOUS
<1> HIDE DEF Step, First, n
<1>2. ASSUME bad # {} PROVE FALSE
  <2>1. bad \in SUBSET Nat
    BY <1>1
  <2>2. PICK m \in bad : \A j \in bad : m <= j
    <3> HIDE DEF bad
    <3> QED BY <1>2, <2>1, LeastNatural, Zenon
  <2>3. m \in 1..n /\ ~\E f : Up(m, f)
    BY <2>2
  <2>4. m # 1
    <3>1. Up(1, [k \in 1..1 |-> First])
      OBVIOUS
    <3> QED BY <2>3, <3>1
  <2>5. m - 1 \in 1..n /\ m - 1 \notin bad
    BY <1>1, <2>2, <2>3, <2>4
  <2>6. PICK f : Up(m - 1, f)
    BY <2>5
  <2> DEFINE h == [k \in 1..m |-> IF k = m THEN Step(f[m - 1], m) ELSE f[k]]
  <2>7. \A k \in 1..(m - 1) : f[k] = IF k = 1 THEN First ELSE Step(f[k - 1], k)
    BY <2>6
  <2>8. \A k \in 1..m : h[k] = IF k = 1 THEN First ELSE Step(h[k - 1], k)
    <3> TAKE k \in 1..m
    <3>1. k \in 1..(m - 1) \/ k = m
      BY <2>3
    <3>2. k # 1 => (k - 1 \in 1..m /\ k - 1 # m /\ h[k - 1] = f[k - 1])
      BY <2>3
    <3>3. CASE k = m
      BY <2>4, <3>2, <3>3
    <3>4. CASE k # m
      <4>1. k \in 1..(m - 1) /\ h[k] = f[k]
        BY <3>1, <3>4
      <4> QED BY <2>7, <3>2, <4>1
    <3> QED BY <3>3, <3>4
  <2>9. Up(m, h)
    BY <2>8
  <2> QED BY <2>3, <2>9
<1>3. \E f : Up(n, f)
  BY <1>1, <1>2
<1> DEFINE c == CHOOSE f : Up(n, f)
<1>4. Up(n, c)
  BY <1>3
<1>5. c[1] = First /\ \A k \in 2..n : c[k] = Step(c[k - 1], k)
  <2> HIDE DEF c
  <2> QED BY <1>1, <1>4
<1>6. FlattenSeq(seqs) = c[n]
  BY DEF FlattenSeq, Step, First, n
<1> HIDE DEF c
<1> QED
  BY <1>5, <1>6, Zenon DEF Step, First, n

(***************************************************************************)
(* Edits that make one line of another                                     *)
(***************************************************************************)

(* k characters of s from x are k characters of t from y.                    *)
Copies(s, x, t, y, k) ==
  /\ x \in Nat /\ y \in Nat /\ k \in Nat /\ x + k <= Len(s) /\ y + k <= Len(t)
  /\ \A j \in 1..k : s[x + j] = t[y + j]

(* The edits, their ends, and the end of edit k, which is 0 before the        *)
(* first.                                                                     *)
Edits(T) == [pos : Nat, del : Nat, text : Seq(T)]
EditEnd(op) == op.pos + op.del
EndsAt(es, k) == IF k = 0 THEN 0 ELSE EditEnd(es[k])

(* Edit k of es, where c[k] of t has been made by the first k: what lies     *)
(* before it in s is copied, and its text is what follows in t.              *)
Spells(s, t, es, c, k) ==
  LET x == EndsAt(es, k - 1)
      op == es[k]
  IN  /\ x <= op.pos /\ EditEnd(op) <= Len(s)
      /\ Copies(s, x, t, c[k - 1], op.pos - x)
      /\ c[k] = c[k - 1] + (op.pos - x) + Len(op.text) /\ c[k] <= Len(t)
      /\ op.text = SubSeq(t, c[k - 1] + (op.pos - x) + 1, c[k])

(* From the beginning, edit by edit.                                          *)
Steps(s, t, T, es, c) ==
  /\ s \in Seq(T) /\ t \in Seq(T) /\ es \in Seq(Edits(T))
  /\ c \in [0..Len(es) -> Nat] /\ c[0] = 0
  /\ \A k \in 1..Len(es) : Spells(s, t, es, c, k)

(* The edits make the first y characters of t of the first x of s.            *)
Makes(s, t, T, es, x, y) ==
  \E c : /\ Steps(s, t, T, es, c) /\ x \in Nat
         /\ EndsAt(es, Len(es)) <= x /\ y = c[Len(es)] + (x - EndsAt(es, Len(es)))
         /\ Copies(s, EndsAt(es, Len(es)), t, c[Len(es)], x - EndsAt(es, Len(es)))

(* No edit reaches or touches the next.                                       *)
Apart(es) == \A k \in 1..(Len(es) - 1) : EditEnd(es[k]) < es[k + 1].pos

(* Copies beside each other are one.                                          *)
LEMMA CopiesJoin ==
  ASSUME NEW s, NEW t, NEW x, NEW y, NEW k, NEW l, Len(s) \in Nat, Len(t) \in Nat,
         Copies(s, x, t, y, k), Copies(s, x + k, t, y + k, l)
  PROVE  Copies(s, x, t, y, k + l)
<1>1. /\ x \in Nat /\ y \in Nat /\ k \in Nat /\ l \in Nat /\ x + (k + l) <= Len(s) /\ y + (k + l) <= Len(t)
      /\ \A j \in 1..k : s[x + j] = t[y + j]
      /\ \A j \in 1..l : s[(x + k) + j] = t[(y + k) + j]
  BY DEF Copies
<1>2. ASSUME NEW j \in 1..(k + l) PROVE s[x + j] = t[y + j]
  <2>1. CASE j <= k
    BY <1>1, <2>1
  <2>2. CASE j > k
    <3>1. j - k \in 1..l /\ (x + k) + (j - k) = x + j /\ (y + k) + (j - k) = y + j
      BY <1>1, <2>2
    <3> QED BY <1>1, <3>1
  <2> QED BY <1>1, <2>1, <2>2
<1> QED
  BY <1>1, <1>2 DEF Copies

(* What an edit is made of.                                                   *)
LEMMA EditTyped ==
  ASSUME NEW T, NEW op \in Edits(T)
  PROVE  /\ op.pos \in Nat /\ op.del \in Nat /\ op.text \in Seq(T) /\ Len(op.text) \in Nat
         /\ EditEnd(op) \in Nat /\ EditEnd(op) = op.pos + op.del /\ op.pos <= EditEnd(op)
<1>1. op.pos \in Nat /\ op.del \in Nat /\ op.text \in Seq(T)
  BY DEF Edits
<1> QED
  BY <1>1 DEF EditEnd

(* Where an edit ends is a place.                                             *)
LEMMA EndNatural ==
  ASSUME NEW T, NEW es \in Seq(Edits(T)), NEW k \in 0..Len(es)
  PROVE  EndsAt(es, k) \in Nat
<1>1. CASE k = 0
  BY <1>1 DEF EndsAt
<1>2. CASE k # 0
  <2>1. es[k] \in Edits(T)
    BY <1>2
  <2> QED BY <1>2, <2>1, EditTyped DEF EndsAt
<1> QED
  BY <1>1, <1>2

(* What edits make lies in both lines.                                        *)
LEMMA MakesNumbers ==
  ASSUME NEW s, NEW t, NEW T, NEW es, NEW x, NEW y, Makes(s, t, T, es, x, y)
  PROVE  /\ s \in Seq(T) /\ t \in Seq(T) /\ es \in Seq(Edits(T))
         /\ x \in Nat /\ y \in Nat /\ x <= Len(s) /\ y <= Len(t)
         /\ EndsAt(es, Len(es)) \in 0..x
<1>1. PICK c : /\ Steps(s, t, T, es, c) /\ x \in Nat
               /\ EndsAt(es, Len(es)) <= x /\ y = c[Len(es)] + (x - EndsAt(es, Len(es)))
               /\ Copies(s, EndsAt(es, Len(es)), t, c[Len(es)], x - EndsAt(es, Len(es)))
  BY Zenon DEF Makes
<1>2. /\ s \in Seq(T) /\ t \in Seq(T) /\ es \in Seq(Edits(T)) /\ c \in [0..Len(es) -> Nat]
  BY <1>1, Zenon DEF Steps
<1> DEFINE e == EndsAt(es, Len(es))
           d == c[Len(es)]
<1>3. Len(es) \in Nat /\ Len(s) \in Nat /\ Len(t) \in Nat
  BY <1>2
<1>4. e \in Nat /\ d \in Nat
  BY <1>2, <1>3, EndNatural
<1>5. /\ x \in Nat /\ e <= x /\ y = d + (x - e)
      /\ e + (x - e) <= Len(s) /\ d + (x - e) <= Len(t)
  BY <1>1, Zenon DEF Copies
<1> HIDE DEF e, d
<1>6. e \in 0..x /\ x <= Len(s) /\ y \in Nat /\ y <= Len(t)
  BY <1>3, <1>4, <1>5
<1> QED
  BY <1>2, <1>5, <1>6, Zenon DEF e

(* Nothing is always a copy.                                                  *)
LEMMA CopiesNone ==
  ASSUME NEW s, NEW t, NEW x \in Nat, NEW y \in Nat, x <= Len(s), y <= Len(t),
         Len(s) \in Nat, Len(t) \in Nat
  PROVE  Copies(s, x, t, y, 0)
BY DEF Copies

(* No edit makes what the lines have in common at their beginning.            *)
LEMMA MakesEmpty ==
  ASSUME NEW T, NEW s \in Seq(T), NEW t \in Seq(T), NEW k, Copies(s, 0, t, 0, k)
  PROVE  Makes(s, t, T, <<>>, k, k) /\ Apart(<<>>)
<1> DEFINE c == [j \in 0..0 |-> 0]
<1>1. <<>> \in Seq(Edits(T)) /\ Len(<<>>) = 0 /\ 1..0 = {}
  OBVIOUS
<1>2. c \in [0..0 -> Nat] /\ c[0] = 0
  OBVIOUS
<1> HIDE DEF c
<1>3. Steps(s, t, T, <<>>, c)
  BY <1>1, <1>2 DEF Steps
<1>4. k \in Nat /\ EndsAt(<<>>, 0) = 0
  BY DEF Copies, EndsAt
<1>5. k - 0 = k /\ k = 0 + (k - 0) /\ 0 <= k
  BY <1>4
<1>6. Makes(s, t, T, <<>>, k, k)
  <2>1. Copies(s, 0, t, c[0], k - 0)
    BY <1>2, <1>5
  <2> QED BY <1>1, <1>2, <1>3, <1>4, <1>5, <2>1, Zenon DEF Makes
<1> QED
  BY <1>1, <1>6 DEF Apart

(* What is the same behind the edits is made too.                             *)
LEMMA MakesCopied ==
  ASSUME NEW s, NEW t, NEW T, NEW es, NEW x, NEW y, NEW k, Makes(s, t, T, es, x, y),
         Copies(s, x, t, y, k)
  PROVE  Makes(s, t, T, es, x + k, y + k)
<1> DEFINE e == EndsAt(es, Len(es))
<1>1. PICK c : /\ Steps(s, t, T, es, c) /\ x \in Nat
               /\ e <= x /\ y = c[Len(es)] + (x - e)
               /\ Copies(s, e, t, c[Len(es)], x - e)
  BY Zenon DEF Makes
<1> DEFINE d == c[Len(es)]
<1>2. /\ s \in Seq(T) /\ t \in Seq(T) /\ es \in Seq(Edits(T)) /\ y \in Nat /\ e \in 0..x
  BY MakesNumbers, Zenon
<1>3. Len(s) \in Nat /\ Len(t) \in Nat
  BY <1>2
<1>4. d \in Nat /\ k \in Nat
  BY <1>1, Zenon DEF Copies
<1> HIDE DEF e, d
<1>5. /\ e + (x - e) = x /\ d + (x - e) = y /\ (x - e) + k = (x + k) - e
      /\ x + k \in Nat /\ e <= x + k /\ y + k = d + ((x + k) - e)
  BY <1>1, <1>2, <1>4 DEF d
<1>6. Copies(s, e, t, d, (x - e) + k)
  <2>1. Copies(s, e, t, d, x - e)
    BY <1>1, Zenon DEF d
  <2>2. Copies(s, e + (x - e), t, d + (x - e), k)
    BY <1>5, Zenon
  <2> QED BY <1>3, <2>1, <2>2, CopiesJoin, Zenon
<1>7. Copies(s, e, t, d, (x + k) - e)
  BY <1>5, <1>6, Zenon
<1> QED
  BY <1>1, <1>5, <1>7, Zenon DEF Makes, e, d

(* A step only looks at the edits up to its own.                             *)
LEMMA SpellsAlike ==
  ASSUME NEW s, NEW t, NEW p, NEW v, NEW c, NEW d, NEW k \in Nat \ {0},
         \A j \in 1..k : p[j] = v[j], \A j \in 0..k : c[j] = d[j], Spells(s, t, p, c, k)
  PROVE  Spells(s, t, v, d, k)
<1>1. p[k] = v[k] /\ c[k] = d[k] /\ c[k - 1] = d[k - 1]
  OBVIOUS
<1>2. EndsAt(p, k - 1) = EndsAt(v, k - 1)
  <2>1. CASE k = 1
    BY <2>1 DEF EndsAt
  <2>2. CASE k # 1
    <3>1. k - 1 \in 1..k
      BY <2>2
    <3> QED BY <3>1, Zenon DEF EndsAt
  <2> QED BY <2>1, <2>2
<1> QED
  BY <1>1, <1>2, Zenon DEF Spells

(* The edit that puts m characters of t for d of s.                           *)
EditOf(t, x, d, y, m) == [pos |-> x, del |-> d, text |-> SubSeq(t, y + 1, y + m)]

(* What that edit is.                                                         *)
IsEditOf(op, T, t, x, d, y, m) ==
  /\ op \in Edits(T) /\ op.pos = x /\ op.del = d
  /\ op.text = SubSeq(t, y + 1, y + m) /\ Len(op.text) = m /\ EditEnd(op) = x + d

(* It is one, when t is long enough.                                          *)
LEMMA EditOfTyped ==
  ASSUME NEW T, NEW t \in Seq(T), NEW x \in Nat, NEW d \in Nat, NEW y \in Nat, NEW m \in Nat,
         y + m <= Len(t)
  PROVE  IsEditOf(EditOf(t, x, d, y, m), T, t, x, d, y, m)
<1>1. SubSeq(t, y + 1, y + m) \in Seq(T) /\ Len(SubSeq(t, y + 1, y + m)) = m
  OBVIOUS
<1> QED
  BY <1>1 DEF EditOf, IsEditOf, Edits, EditEnd

(* A sequence and one more.                                                   *)
LEMMA AppendIs ==
  ASSUME NEW T, NEW es \in Seq(T), NEW op \in T
  PROVE  /\ Append(es, op) \in Seq(T) /\ Len(Append(es, op)) = Len(es) + 1 /\ Len(es) \in Nat
         /\ Append(es, op)[Len(es) + 1] = op
         /\ \A j \in 1..Len(es) : Append(es, op)[j] = es[j]
OBVIOUS

(* With one more edit they make what it puts.                                 *)
LEMMA MakesEdited ==
  ASSUME NEW s, NEW t, NEW T, NEW es, NEW x, NEW y, Makes(s, t, T, es, x, y),
         NEW d \in Nat, NEW m \in Nat, x + d <= Len(s), y + m <= Len(t)
  PROVE  Makes(s, t, T, Append(es, EditOf(t, x, d, y, m)), x + d, y + m)
<1> DEFINE e == EndsAt(es, Len(es))
           n == Len(es)
           op == EditOf(t, x, d, y, m)
           p == Append(es, op)
<1>1. PICK c : /\ Steps(s, t, T, es, c) /\ x \in Nat
               /\ e <= x /\ y = c[n] + (x - e) /\ Copies(s, e, t, c[n], x - e)
  BY Zenon DEF Makes
<1>2. /\ s \in Seq(T) /\ t \in Seq(T) /\ es \in Seq(Edits(T)) /\ y \in Nat /\ e \in 0..x
  BY MakesNumbers, Zenon
<1>3. n \in Nat /\ Len(s) \in Nat /\ Len(t) \in Nat
  BY <1>2
<1>4. /\ op \in Edits(T) /\ op.pos = x /\ op.text = SubSeq(t, y + 1, y + m) /\ Len(op.text) = m
      /\ EditEnd(op) = x + d
  <2>1. x \in Nat /\ y \in Nat /\ t \in Seq(T)
    BY <1>1, <1>2, Zenon
  <2>2. y + m <= Len(t)
    OBVIOUS
  <2>3. IsEditOf(op, T, t, x, d, y, m)
    BY <2>1, <2>2, EditOfTyped, Zenon
  <2> HIDE DEF op
  <2> QED BY <2>3, Zenon DEF IsEditOf
<1>5. /\ p \in Seq(Edits(T)) /\ Len(p) = n + 1 /\ p[n + 1] = op /\ \A j \in 1..n : p[j] = es[j]
  BY <1>2, <1>4, AppendIs
<1> DEFINE f == [k \in 0..(n + 1) |-> IF k = n + 1 THEN y + m ELSE c[k]]
<1>6. c \in [0..n -> Nat] /\ c[0] = 0 /\ \A k \in 1..n : Spells(s, t, es, c, k)
  BY <1>1, Zenon DEF Steps
<1> HIDE DEF op, p, n, e
<1>7. f \in [0..(n + 1) -> Nat] /\ f[n + 1] = y + m /\ f[0] = 0 /\ \A k \in 0..n : f[k] = c[k]
  BY <1>2, <1>3, <1>6
<1> HIDE DEF f
<1>8. EndsAt(p, n) = e /\ EndsAt(p, n + 1) = x + d
  <2>1. EndsAt(p, n) = EndsAt(es, n)
    <3>1. CASE n = 0
      BY <3>1 DEF EndsAt
    <3>2. CASE n # 0
      <4>1. n \in 1..n
        BY <1>3, <3>2
      <4> QED BY <1>5, <4>1, Zenon DEF EndsAt
    <3> QED BY <3>1, <3>2
  <2>2. n + 1 # 0
    BY <1>3
  <2> QED BY <1>4, <1>5, <2>1, <2>2, Zenon DEF EndsAt, e, n
<1>9. ASSUME NEW k \in 1..n PROVE Spells(s, t, p, f, k)
  <2>1. k \in Nat \ {0} /\ (\A j \in 1..k : j \in 1..n) /\ (\A j \in 0..k : j \in 0..n)
    BY <1>3
  <2>2. (\A j \in 1..k : es[j] = p[j]) /\ (\A j \in 0..k : c[j] = f[j]) /\ Spells(s, t, es, c, k)
    BY <1>5, <1>6, <1>7, <2>1, Zenon
  <2> QED BY <2>1, <2>2, SpellsAlike, Zenon
<1>10. Spells(s, t, p, f, n + 1)
  <2>1. (n + 1) - 1 = n /\ n \in 0..n
    BY <1>3
  <2>2. f[n] = c[n] /\ f[n + 1] = c[n] + (x - e) + m /\ c[n] + (x - e) = y
    BY <1>1, <1>7, <2>1
  <2>3. x <= x + d
    BY <1>1
  <2> QED BY <1>1, <1>4, <1>5, <1>7, <1>8, <2>1, <2>2, <2>3, Zenon DEF Spells
<1>11. Steps(s, t, T, p, f)
  <2>1. \A k \in 1..(n + 1) : k \in 1..n \/ k = n + 1
    BY <1>3
  <2> QED BY <1>2, <1>5, <1>7, <1>9, <1>10, <2>1, Zenon DEF Steps
<1>12. /\ x + d \in Nat /\ x + d <= x + d /\ y + m = f[n + 1] + ((x + d) - (x + d))
       /\ (x + d) - (x + d) = 0
  BY <1>1, <1>2, <1>7
<1>13. Copies(s, x + d, t, f[n + 1], 0)
  <2>1. y + m \in Nat
    BY <1>2
  <2> QED BY <1>3, <1>7, <1>12, <2>1, CopiesNone
<1> QED
  BY <1>5, <1>8, <1>11, <1>12, <1>13, Zenon DEF Makes, p, op

(* They stay apart when it begins behind the last.                            *)
LEMMA ApartEdited ==
  ASSUME NEW T, NEW es \in Seq(Edits(T)), Apart(es), NEW op \in Edits(T),
         es = <<>> \/ EndsAt(es, Len(es)) < op.pos
  PROVE  Apart(Append(es, op))
<1> DEFINE n == Len(es)
           p == Append(es, op)
<1>1. /\ n \in Nat /\ Len(p) = n + 1 /\ p[n + 1] = op /\ \A j \in 1..n : p[j] = es[j]
  BY AppendIs
<1> HIDE DEF p
<1>2. ASSUME NEW k \in 1..n PROVE EditEnd(p[k]) < p[k + 1].pos
  <2>1. CASE k < n
    <3>1. k \in 1..(n - 1) /\ k \in 1..n /\ k + 1 \in 1..n
      BY <1>1, <2>1
    <3>2. p[k] = es[k] /\ p[k + 1] = es[k + 1] /\ EditEnd(es[k]) < es[k + 1].pos
      BY <1>1, <3>1, Zenon DEF Apart
    <3> QED BY <3>2, Zenon
  <2>2. CASE k = n
    <3>1. es # <<>> /\ n # 0
      BY <1>1, <2>2
    <3>2. EditEnd(es[n]) < op.pos
      BY <3>1, Zenon DEF EndsAt
    <3>3. p[k] = es[n] /\ p[k + 1] = op
      BY <1>1, <2>2, Zenon
    <3> QED BY <3>2, <3>3, Zenon
  <2> QED BY <1>1, <2>1, <2>2
<1>3. Len(p) - 1 = n
  BY <1>1
<1> QED
  BY <1>2, <1>3, Zenon DEF Apart, p

(***************************************************************************)
(* Merging edits that touch                                                *)
(***************************************************************************)

(* A sequence without its last.                                               *)
LEMMA FrontIs ==
  ASSUME NEW T, NEW es \in Seq(T), es # <<>>
  PROVE  /\ Len(es) \in Nat \ {0} /\ Front(es) \in Seq(T) /\ Len(Front(es)) = Len(es) - 1
         /\ \A j \in 1..(Len(es) - 1) : Front(es)[j] = es[j]
         /\ Last(es) = es[Len(es)] /\ Last(es) \in T
<1>1. Len(es) \in Nat \ {0}
  OBVIOUS
<1>2. /\ Front(es) \in Seq(T) /\ Len(Front(es)) = Len(es) - 1
      /\ \A j \in 1..(Len(es) - 1) : Front(es)[j] = es[j]
  <2> DEFINE k == Len(es) - 1
  <2>1. k \in Nat /\ k <= Len(es)
    BY <1>1
  <2> HIDE DEF k
  <2>2. /\ SubSeq(es, 1, k) \in Seq(T) /\ Len(SubSeq(es, 1, k)) = k
        /\ \A j \in 1..k : SubSeq(es, 1, k)[j] = es[j]
    BY <2>1
  <2> QED BY <2>2, Zenon DEF Front, k
<1>3. Last(es) = es[Len(es)] /\ Last(es) \in T
  BY <1>1 DEF Last
<1> QED
  BY <1>1, <1>2, <1>3

(* Two sequences, place by place.                                             *)
LEMMA ConcatIs ==
  ASSUME NEW T, NEW u \in Seq(T), NEW v \in Seq(T)
  PROVE  /\ u \o v \in Seq(T) /\ Len(u \o v) = Len(u) + Len(v)
         /\ \A j \in 1..(Len(u) + Len(v)) : (u \o v)[j] = IF j <= Len(u) THEN u[j] ELSE v[j - Len(u)]
OBVIOUS

(* A part of a line in two.                                                   *)
LEMMA SplitText ==
  ASSUME NEW T, NEW t \in Seq(T), NEW a \in Nat, NEW k \in Nat, NEW m \in Nat, a + k + m <= Len(t)
  PROVE  SubSeq(t, a + 1, a + k) \o SubSeq(t, (a + k) + 1, (a + k) + m) = SubSeq(t, a + 1, a + (k + m))
<1> DEFINE u == SubSeq(t, a + 1, a + k)
           v == SubSeq(t, (a + k) + 1, (a + k) + m)
           w == SubSeq(t, a + 1, a + (k + m))
<1>1. u \in Seq(T) /\ Len(u) = k /\ \A j \in 1..k : u[j] = t[a + j]
  OBVIOUS
<1>2. v \in Seq(T) /\ Len(v) = m /\ \A j \in 1..m : v[j] = t[(a + k) + j]
  OBVIOUS
<1>3. w \in Seq(T) /\ Len(w) = k + m /\ \A j \in 1..(k + m) : w[j] = t[a + j]
  OBVIOUS
<1> HIDE DEF u, v, w
<1>4. u \o v \in Seq(T) /\ Len(u \o v) = k + m /\ \A j \in 1..(k + m) : (u \o v)[j] = IF j <= k THEN u[j] ELSE v[j - k]
  BY <1>1, <1>2, ConcatIs
<1>5. ASSUME NEW j \in 1..(k + m) PROVE (u \o v)[j] = w[j]
  <2>1. w[j] = t[a + j] /\ (u \o v)[j] = IF j <= k THEN u[j] ELSE v[j - k]
    BY <1>3, <1>4, Zenon
  <2>2. CASE j <= k
    <3>1. j \in 1..k
      BY <2>2
    <3> QED BY <1>1, <2>1, <2>2, <3>1, Zenon
  <2>3. CASE ~(j <= k)
    <3>1. j - k \in 1..m /\ (a + k) + (j - k) = a + j
      BY <2>3
    <3> QED BY <1>2, <2>1, <2>3, <3>1, Zenon
  <2> QED BY <2>2, <2>3
<1>6. u \o v = w
  BY <1>3, <1>4, <1>5, SeqEqual
<1> QED
  BY <1>6 DEF u, v, w

(* Without the last edit they make what comes before it.                      *)
LEMMA MakesFront ==
  ASSUME NEW s, NEW t, NEW T, NEW es, NEW x, NEW y, Makes(s, t, T, es, x, y),
         es # <<>>, EndsAt(es, Len(es)) = x
  PROVE  \E b \in Nat : /\ Makes(s, t, T, Front(es), Last(es).pos, b)
                        /\ y = b + Len(Last(es).text)
                        /\ Last(es).text = SubSeq(t, b + 1, y)
<1> DEFINE n == Len(es)
           op == Last(es)
           v == Front(es)
           e == EndsAt(es, n - 1)
<1>1. PICK c : /\ Steps(s, t, T, es, c) /\ x \in Nat
               /\ y = c[n] + (x - x) /\ Copies(s, x, t, c[n], x - x)
  BY Zenon DEF Makes
<1>2. /\ s \in Seq(T) /\ t \in Seq(T) /\ es \in Seq(Edits(T)) /\ y \in Nat
  BY MakesNumbers, Zenon
<1>3. /\ n \in Nat \ {0} /\ v \in Seq(Edits(T)) /\ Len(v) = n - 1
      /\ (\A j \in 1..(n - 1) : v[j] = es[j]) /\ op = es[n] /\ op \in Edits(T)
  BY <1>2, FrontIs, Zenon
<1>4. c \in [0..n -> Nat] /\ c[0] = 0 /\ \A k \in 1..n : Spells(s, t, es, c, k)
  BY <1>1, Zenon DEF Steps
<1> HIDE DEF n, op, v, e
<1>5. /\ e <= op.pos /\ Copies(s, e, t, c[n - 1], op.pos - e)
      /\ c[n] = c[n - 1] + (op.pos - e) + Len(op.text)
      /\ op.text = SubSeq(t, c[n - 1] + (op.pos - e) + 1, c[n])
  <2>1. Spells(s, t, es, c, n)
    BY <1>3, <1>4
  <2> QED BY <1>3, <2>1, Zenon DEF Spells, e
<1> DEFINE b == c[n - 1] + (op.pos - e)
           f == [k \in 0..(n - 1) |-> c[k]]
<1>6. /\ op.pos \in Nat /\ Len(op.text) \in Nat
  BY <1>3, EditTyped, Zenon
<1>7. /\ e \in Nat /\ c[n - 1] \in Nat /\ c[n] \in Nat
  <2>1. n - 1 \in 0..n
    BY <1>3
  <2>2. e \in Nat
    BY <1>2, <2>1, EndNatural, Zenon DEF e, n
  <2> QED BY <1>3, <1>4, <2>1, <2>2
<1>8. b \in Nat /\ y = b + Len(op.text) /\ y = c[n]
  <2> DEFINE h == op.pos
             l == Len(op.text)
             a == c[n - 1]
             z == c[n]
  <2>1. h \in Nat /\ l \in Nat /\ a \in Nat /\ z \in Nat /\ e \in Nat /\ e <= h
        /\ z = a + (h - e) + l /\ y = z + (x - x) /\ x \in Nat /\ b = a + (h - e)
    BY <1>1, <1>5, <1>6, <1>7, Zenon
  <2> HIDE DEF h, l, a, z, b
  <2>2. b \in Nat /\ y = b + l /\ y = z
    BY <2>1
  <2> QED BY <2>2, Zenon DEF l, z
<1>9. op.text = SubSeq(t, b + 1, y)
  BY <1>5, <1>8, Zenon
<1>10. f \in [0..(n - 1) -> Nat] /\ f[0] = 0 /\ (\A k \in 0..(n - 1) : f[k] = c[k]) /\ f[n - 1] = c[n - 1]
  BY <1>3, <1>4
<1> HIDE DEF f
<1>11. Steps(s, t, T, v, f)
  <2>1. ASSUME NEW k \in 1..(n - 1) PROVE Spells(s, t, v, f, k)
    <3>1. /\ k \in Nat \ {0} /\ (\A j \in 1..k : j \in 1..(n - 1)) /\ (\A j \in 0..k : j \in 0..(n - 1))
          /\ k \in 1..n
      BY <1>3
    <3>2. (\A j \in 1..k : es[j] = v[j]) /\ (\A j \in 0..k : c[j] = f[j]) /\ Spells(s, t, es, c, k)
      BY <1>3, <1>4, <1>10, <3>1, Zenon
    <3> QED BY <3>1, <3>2, SpellsAlike, Zenon
  <2> QED BY <1>2, <1>3, <1>10, <2>1, Zenon DEF Steps
<1>12. EndsAt(v, n - 1) = e
  <2>1. CASE n - 1 = 0
    BY <2>1, Zenon DEF EndsAt, e
  <2>2. CASE n - 1 # 0
    <3>1. n - 1 \in 1..(n - 1)
      BY <1>3, <2>2
    <3>2. v[n - 1] = es[n - 1]
      BY <1>3, <3>1, Zenon
    <3> QED BY <2>2, <3>2, Zenon DEF EndsAt, e
  <2> QED BY <2>1, <2>2
<1>13. Makes(s, t, T, v, op.pos, b)
  BY <1>3, <1>5, <1>6, <1>10, <1>11, <1>12, Zenon DEF Makes
<1> HIDE DEF b
<1> QED
  BY <1>8, <1>9, <1>13, Zenon DEF op, v

(* The last edit is the one appended.                                         *)
LEMMA AppendEnds ==
  ASSUME NEW T, NEW es \in Seq(T), NEW op \in T
  PROVE  EndsAt(Append(es, op), Len(Append(es, op))) = EditEnd(op)
<1>1. /\ Len(Append(es, op)) = Len(es) + 1 /\ Len(es) + 1 # 0
      /\ Append(es, op)[Len(es) + 1] = op
  BY AppendIs
<1> QED
  BY <1>1, Zenon DEF EndsAt

(* Without the last they are apart, and apart from it.                        *)
LEMMA ApartFront ==
  ASSUME NEW T, NEW es \in Seq(Edits(T)), es # <<>>, Apart(es)
  PROVE  /\ Apart(Front(es))
         /\ Front(es) = <<>> \/ EndsAt(Front(es), Len(Front(es))) < Last(es).pos
<1> DEFINE n == Len(es)
           v == Front(es)
<1>1. /\ n \in Nat \ {0} /\ Len(v) = n - 1 /\ (\A j \in 1..(n - 1) : v[j] = es[j])
      /\ Last(es) = es[n] /\ v \in Seq(Edits(T))
  BY FrontIs, Zenon
<1>2. \A k \in 1..(n - 1) : EditEnd(es[k]) < es[k + 1].pos
  BY Zenon DEF Apart
<1> HIDE DEF n, v
<1>3. ASSUME NEW k \in 1..(Len(v) - 1) PROVE EditEnd(v[k]) < v[k + 1].pos
  <2>1. k \in 1..(n - 1) /\ k + 1 \in 1..(n - 1)
    BY <1>1
  <2> QED BY <1>1, <1>2, <2>1, Zenon
<1>4. CASE n = 1
  <2>1. v = <<>>
    BY <1>1, <1>4
  <2> QED BY <1>3, <2>1, Zenon DEF Apart, v
<1>5. CASE n # 1
  <2>1. n - 1 \in 1..(n - 1) /\ n - 1 # 0 /\ (n - 1) + 1 = n
    BY <1>1, <1>5
  <2>2. EditEnd(v[n - 1]) < es[n].pos
    BY <1>1, <1>2, <2>1, Zenon
  <2>3. EndsAt(v, Len(v)) < Last(es).pos
    BY <1>1, <2>1, <2>2, Zenon DEF EndsAt
  <2> QED BY <1>3, <2>3, Zenon DEF Apart, v
<1> QED
  BY <1>4, <1>5

(* The edits made so far, none touching the next, end where they should.      *)
Exactly(s, t, T, es, x, y) ==
  Makes(s, t, T, es, x, y) /\ EndsAt(es, Len(es)) = x /\ Apart(es)

(* An edit that begins where the last ends can be put into it.                *)
LEMMA ExactlyTouching ==
  ASSUME NEW s, NEW t, NEW T, NEW es, NEW x, NEW y, Exactly(s, t, T, es, x, y), es # <<>>,
         NEW d \in Nat, NEW m \in Nat, x + d <= Len(s), y + m <= Len(t)
  PROVE  Exactly(s, t, T, Append(Front(es), [pos |-> Last(es).pos, del |-> Last(es).del + d,
                                              text |-> Last(es).text \o EditOf(t, x, d, y, m).text]),
                 x + d, y + m)
<1> DEFINE v == Front(es)
           a == Last(es).pos
           k == Last(es).del
           l == Len(Last(es).text)
           new == [pos |-> a, del |-> k + d, text |-> Last(es).text \o EditOf(t, x, d, y, m).text]
<1>1. Makes(s, t, T, es, x, y) /\ EndsAt(es, Len(es)) = x /\ Apart(es)
  BY Zenon DEF Exactly
<1>2. /\ s \in Seq(T) /\ t \in Seq(T) /\ es \in Seq(Edits(T)) /\ x \in Nat /\ y \in Nat
  BY <1>1, MakesNumbers, Zenon
<1>3. PICK b \in Nat : Makes(s, t, T, v, a, b) /\ y = b + l /\ Last(es).text = SubSeq(t, b + 1, y)
  <2> HIDE DEF new
  <2>1. \E b \in Nat : Makes(s, t, T, Front(es), Last(es).pos, b)
                       /\ y = b + Len(Last(es).text) /\ Last(es).text = SubSeq(t, b + 1, y)
    BY <1>1, MakesFront
  <2> QED BY <2>1, Zenon
<1>4. /\ v \in Seq(Edits(T)) /\ Last(es) \in Edits(T) /\ Last(es) = es[Len(es)] /\ Len(es) # 0
  BY <1>2, FrontIs
<1>5. /\ a \in Nat /\ k \in Nat /\ l \in Nat /\ EditEnd(Last(es)) = a + k
  BY <1>4, EditTyped, Zenon
<1>6. x = a + k
  BY <1>1, <1>4, <1>5, Zenon DEF EndsAt
<1>7. new = EditOf(t, a, k + d, b, l + m)
  <2>1. EditOf(t, x, d, y, m).text = SubSeq(t, y + 1, y + m)
    BY DEF EditOf
  <2>2. b + l + m <= Len(t)
    BY <1>3, <1>5
  <2>3. SubSeq(t, b + 1, b + l) \o SubSeq(t, (b + l) + 1, (b + l) + m) = SubSeq(t, b + 1, b + (l + m))
    <3> HIDE DEF l
    <3> QED BY <1>2, <1>3, <1>5, <2>2, SplitText, SMTT(40)
  <2>4. Last(es).text \o EditOf(t, x, d, y, m).text = SubSeq(t, b + 1, b + (l + m))
    BY <1>3, <2>1, <2>3, Zenon
  <2> QED BY <2>4, Zenon DEF EditOf
<1> HIDE DEF v, a, k, l, new
<1>8. /\ k + d \in Nat /\ l + m \in Nat /\ a + (k + d) = x + d /\ b + (l + m) = y + m
  BY <1>2, <1>3, <1>5, <1>6
<1>9. a + (k + d) <= Len(s) /\ b + (l + m) <= Len(t)
  BY <1>8, Zenon
<1>10. Makes(s, t, T, Append(v, new), x + d, y + m)
  <2>1. Makes(s, t, T, Append(v, EditOf(t, a, k + d, b, l + m)), a + (k + d), b + (l + m))
    BY <1>3, <1>8, <1>9, MakesEdited, Zenon
  <2> QED BY <1>7, <1>8, <2>1, Zenon
<1>11. IsEditOf(new, T, t, a, k + d, b, l + m)
  BY <1>2, <1>3, <1>5, <1>7, <1>8, <1>9, EditOfTyped, Zenon
<1>12. new \in Edits(T) /\ new.pos = a /\ EditEnd(new) = x + d
  BY <1>8, <1>11, Zenon DEF IsEditOf
<1>13. EndsAt(Append(v, new), Len(Append(v, new))) = x + d
  BY <1>4, <1>12, AppendEnds, Zenon
<1>14. Apart(Append(v, new))
  <2>1. Apart(v) /\ (v = <<>> \/ EndsAt(v, Len(v)) < new.pos)
    BY <1>1, <1>2, <1>12, ApartFront, Zenon DEF v, a
  <2> QED BY <1>4, <1>12, <2>1, ApartEdited, Zenon
<1> QED
  BY <1>10, <1>13, <1>14, Zenon DEF Exactly, v, a, k, l, new

(* An edit behind the last is one of its own.                                 *)
LEMMA ExactlyNew ==
  ASSUME NEW s, NEW t, NEW T, NEW es, NEW x, NEW y, Makes(s, t, T, es, x, y), Apart(es),
         es = <<>> \/ EndsAt(es, Len(es)) < x,
         NEW d \in Nat, NEW m \in Nat, x + d <= Len(s), y + m <= Len(t)
  PROVE  Exactly(s, t, T, Append(es, EditOf(t, x, d, y, m)), x + d, y + m)
<1> DEFINE new == EditOf(t, x, d, y, m)
<1>1. /\ s \in Seq(T) /\ t \in Seq(T) /\ es \in Seq(Edits(T)) /\ x \in Nat /\ y \in Nat
  BY MakesNumbers, Zenon
<1>2. IsEditOf(new, T, t, x, d, y, m)
  BY <1>1, EditOfTyped, Zenon
<1>3. Makes(s, t, T, Append(es, new), x + d, y + m)
  BY MakesEdited, Zenon
<1> HIDE DEF new
<1>4. new \in Edits(T) /\ new.pos = x /\ EditEnd(new) = x + d
  BY <1>2, Zenon DEF IsEditOf
<1>5. EndsAt(Append(es, new), Len(Append(es, new))) = x + d
  BY <1>1, <1>4, AppendEnds, Zenon
<1>6. Apart(Append(es, new))
  BY <1>1, <1>4, ApartEdited, Zenon
<1> QED
  BY <1>3, <1>5, <1>6, Zenon DEF Exactly, new

(* Merging an edit in makes what it puts, whether it touches or not.          *)
LEMMA MergedWithMakes ==
  ASSUME NEW s, NEW t, NEW T, NEW u, NEW x, NEW y, Exactly(s, t, T, u, x, y),
         NEW p \in Nat, x <= p, Copies(s, x, t, y, p - x), NEW d \in Nat, NEW m \in Nat,
         p + d <= Len(s), (y + (p - x)) + m <= Len(t)
  PROVE  Exactly(s, t, T, MergedWith(u, EditOf(t, p, d, y + (p - x), m)), p + d, (y + (p - x)) + m)
<1> DEFINE z == y + (p - x)
           op == EditOf(t, p, d, z, m)
<1>1. Makes(s, t, T, u, x, y) /\ EndsAt(u, Len(u)) = x /\ Apart(u)
  BY Zenon DEF Exactly
<1>2. /\ s \in Seq(T) /\ t \in Seq(T) /\ u \in Seq(Edits(T)) /\ x \in Nat /\ y \in Nat
  BY <1>1, MakesNumbers, Zenon
<1>3. /\ z \in Nat /\ x + (p - x) = p
  BY <1>2
<1>4. z + m <= Len(t)
  OBVIOUS
<1>5. op.pos = p /\ op.del = d /\ op = EditOf(t, p, d, z, m)
  BY DEF EditOf
<1> HIDE DEF op, z
<1>6. u # <<>> => Last(u) = u[Len(u)] /\ Last(u) \in Edits(T) /\ Len(u) # 0
  BY <1>2, FrontIs
<1>7. u # <<>> => Last(u).pos + Last(u).del = x
  <2> HAVE u # <<>>
  <2> QED BY <1>1, <1>6, Zenon DEF EndsAt, EditEnd
<1>8. CASE u # <<>> /\ x = p
  <2>1. z = y
    BY <1>2, <1>8 DEF z
  <2>2. op = EditOf(t, x, d, y, m)
    BY <1>5, <1>8, <2>1, Zenon
  <2>3. Exactly(s, t, T, Append(Front(u), [pos |-> Last(u).pos, del |-> Last(u).del + d,
                                           text |-> Last(u).text \o EditOf(t, x, d, y, m).text]),
                x + d, y + m)
    BY <1>4, <1>8, <2>1, ExactlyTouching, Zenon
  <2>4. MergedWith(u, op) = Append(Front(u), [pos |-> Last(u).pos, del |-> Last(u).del + d,
                                              text |-> Last(u).text \o op.text])
    BY <1>5, <1>7, <1>8, Zenon DEF MergedWith
  <2>5. Exactly(s, t, T, MergedWith(u, op), p + d, z + m)
    BY <1>8, <2>1, <2>2, <2>3, <2>4, Zenon
  <2> QED BY <2>5, Zenon DEF op, z
<1>9. CASE ~(u # <<>> /\ x = p)
  <2>1. MergedWith(u, op) = Append(u, op)
    BY <1>5, <1>7, <1>9, Zenon DEF MergedWith
  <2>2. Makes(s, t, T, u, p, z)
    BY <1>1, <1>3, MakesCopied, Zenon DEF z
  <2>3. u = <<>> \/ EndsAt(u, Len(u)) < p
    BY <1>1, <1>2, <1>9
  <2>4. Exactly(s, t, T, Append(u, op), p + d, z + m)
    BY <1>1, <1>3, <1>4, <1>5, <2>2, <2>3, ExactlyNew, Zenon
  <2> QED BY <2>1, <2>4, Zenon DEF op, z
<1> QED
  BY <1>8, <1>9

(* An edit is what it is said to be.                                         *)
LEMMA EditIsEditOf ==
  ASSUME NEW T, NEW t, NEW op \in Edits(T), NEW y, NEW z, op.text = SubSeq(t, y + 1, z), z = y + Len(op.text)
  PROVE  op = EditOf(t, op.pos, op.del, y, Len(op.text))
<1>1. op = [pos |-> op.pos, del |-> op.del, text |-> op.text]
  BY DEF Edits
<1> QED
  BY <1>1, Zenon DEF EditOf

(* Merging keeps what the edits make, and parts them.                         *)
LEMMA MergeEditsMake ==
  ASSUME NEW s, NEW t, NEW T, NEW es, NEW c, Steps(s, t, T, es, c)
  PROVE  Exactly(s, t, T, MergeEdits(es), EndsAt(es, Len(es)), c[Len(es)])
<1> DEFINE n == Len(es)
<1>1. /\ s \in Seq(T) /\ t \in Seq(T) /\ es \in Seq(Edits(T)) /\ c \in [0..n -> Nat] /\ c[0] = 0
      /\ \A k \in 1..n : Spells(s, t, es, c, k)
  BY Zenon DEF Steps
<1>2. n \in Nat
  BY <1>1
<1>3. PICK f : /\ MergeEdits(es) = f[n] /\ f[0] = <<>>
               /\ \A k \in 1..n : f[k] = MergedWith(f[k - 1], es[k])
  BY <1>2, MergeEditsIs, Zenon
<1> DEFINE Good(k) == Exactly(s, t, T, f[k], EndsAt(es, k), c[k])
           bad == {k \in 0..n : ~Good(k)}
<1> HIDE DEF n
<1>4. Good(0)
  <2>1. Copies(s, 0, t, 0, 0)
    <3>1. 0 \in Nat /\ 0 <= Len(s) /\ 0 <= Len(t) /\ Len(s) \in Nat /\ Len(t) \in Nat
      BY <1>1
    <3> QED BY <3>1, CopiesNone, Zenon
  <2>2. Makes(s, t, T, <<>>, 0, 0) /\ Apart(<<>>)
    BY <1>1, <2>1, MakesEmpty, Zenon
  <2>3. Len(<<>>) = 0
    OBVIOUS
  <2> QED BY <1>1, <1>3, <2>2, <2>3, Zenon DEF Exactly, EndsAt
<1>5. ASSUME NEW k \in 1..n, Good(k - 1) PROVE Good(k)
  <2> DEFINE x == EndsAt(es, k - 1)
             y == c[k - 1]
             op == es[k]
             p == op.pos
             d == op.del
             m == Len(op.text)
  <2>1. k - 1 \in 0..n /\ k # 0 /\ k \in 0..n
    BY <1>2
  <2>2. /\ x <= p /\ EditEnd(op) <= Len(s) /\ Copies(s, x, t, y, p - x)
        /\ c[k] = y + (p - x) + m /\ c[k] <= Len(t)
        /\ op.text = SubSeq(t, y + (p - x) + 1, c[k])
    BY <1>1, Zenon DEF Spells
  <2>3. op \in Edits(T)
    BY <1>1 DEF n
  <2>4. p \in Nat /\ d \in Nat /\ m \in Nat /\ EditEnd(op) = p + d
    BY <2>3, EditTyped, Zenon
  <2>5. x \in Nat /\ y \in Nat
    BY <1>1, <2>1, EndNatural, Zenon DEF n
  <2>6. EndsAt(es, k) = p + d
    BY <2>1, <2>4, Zenon DEF EndsAt
  <2>7. op = EditOf(t, p, d, y + (p - x), m)
    <3> DEFINE b == y + (p - x)
               z == c[k]
    <3>1. op.text = SubSeq(t, b + 1, z) /\ z = b + Len(op.text)
      BY <2>2, Zenon
    <3> HIDE DEF op, b, z
    <3>2. op = EditOf(t, op.pos, op.del, b, Len(op.text))
      BY <2>3, <3>1, EditIsEditOf, Zenon
    <3> QED BY <3>2, Zenon DEF op, b
  <2>8. Exactly(s, t, T, f[k - 1], x, y)
    BY <1>5, Zenon
  <2>9. f[k] = MergedWith(f[k - 1], op)
    BY <1>3, Zenon DEF n
  <2> HIDE DEF x, y, p, d, m, op
  <2>10. (y + (p - x)) + m <= Len(t) /\ p + d <= Len(s)
    BY <2>2, <2>4, Zenon
  <2>11. Exactly(s, t, T, MergedWith(f[k - 1], EditOf(t, p, d, y + (p - x), m)), p + d, (y + (p - x)) + m)
    BY <2>2, <2>4, <2>8, <2>10, MergedWithMakes, Zenon
  <2> QED BY <2>2, <2>6, <2>7, <2>9, <2>11, Zenon
<1>6. ASSUME bad # {} PROVE FALSE
  <2>1. bad \in SUBSET Nat
    OBVIOUS
  <2>2. PICK k \in bad : \A j \in bad : k <= j
    <3> HIDE DEF bad
    <3> QED BY <1>6, <2>1, LeastNatural, Zenon
  <2>3. k \in 0..n /\ ~Good(k)
    BY <2>2, Zenon
  <2>4. k # 0
    BY <1>4, <2>3, Zenon
  <2>5. k \in 1..n /\ k - 1 \in 0..n /\ ~(k <= k - 1)
    BY <1>2, <2>3, <2>4
  <2>6. Good(k - 1)
    BY <2>2, <2>5, Zenon
  <2> QED BY <1>5, <2>3, <2>5, <2>6, Zenon
<1>7. Good(n)
  <2>1. n \in 0..n
    BY <1>2
  <2> QED BY <1>6, <2>1, Zenon
<1> QED
  BY <1>3, <1>7, Zenon DEF n

(***************************************************************************)
(* The table of the substitution matcher, and the way back                 *)
(***************************************************************************)

(* The characters in common, place by place.                                 *)
InCommon(s, t, x, y, f, p) ==
  IF p[1] = x \/ p[2] = y THEN 0
  ELSE IF s[p[1] + 1] = t[p[2] + 1] THEN f[<<p[1] + 1, p[2] + 1>>] + 1
  ELSE Max({f[<<p[1] + 1, p[2]>>], f[<<p[1], p[2] + 1>>]})

(* What the table of common characters is.                                    *)
CountsCommon(s, t, x, y, f) ==
  /\ Common(s, t, x, y) = [p \in (0..(x - 1)) \X (0..(y - 1)) |-> f[p]]
  /\ \A p \in (0..x) \X (0..y) : f[p] = InCommon(s, t, x, y, f, p)

(* It counts them place by place.                                             *)
LEMMA CommonIs ==
  ASSUME NEW s, NEW t, NEW x \in Nat, NEW y \in Nat
  PROVE  \E f : CountsCommon(s, t, x, y, f)
<1> DEFINE D == (0..x) \X (0..y)
           Body(f, p) == InCommon(s, t, x, y, f, p)
           rank(p) == (x - p[1]) + (y - p[2])
           n == x + y + 1
           Up(m, f) == f = [p \in D |-> IF rank(p) >= m THEN 0 ELSE Body(f, p)]
           bad == {m \in 0..n : ~\E f : Up(m, f)}
<1>1. \A p \in D : rank(p) \in 0..n /\ rank(p) < n
  OBVIOUS
<1>2. ASSUME NEW m \in Nat, NEW p \in D, rank(p) < m + 1, NEW f, NEW h,
             \A v \in D : rank(v) < m => f[v] = h[v]
      PROVE  Body(f, p) = Body(h, p)
  <2>1. CASE p[1] = x \/ p[2] = y
    BY <2>1, Zenon DEF InCommon
  <2>2. CASE ~(p[1] = x \/ p[2] = y)
    <3>1. /\ <<p[1] + 1, p[2] + 1>> \in D /\ rank(<<p[1] + 1, p[2] + 1>>) < m
          /\ <<p[1] + 1, p[2]>> \in D /\ rank(<<p[1] + 1, p[2]>>) < m
          /\ <<p[1], p[2] + 1>> \in D /\ rank(<<p[1], p[2] + 1>>) < m
      <4> DEFINE z == p[1]
                 j == p[2]
      <4>1. z \in 0..x /\ j \in 0..y /\ z # x /\ j # y /\ (x - z) + (y - j) < m + 1
        BY <1>2, <2>2
      <4> HIDE DEF z, j
      <4>2. /\ z + 1 \in 0..x /\ j + 1 \in 0..y
            /\ (x - (z + 1)) + (y - (j + 1)) < m /\ (x - (z + 1)) + (y - j) < m
            /\ (x - z) + (y - (j + 1)) < m
        BY <4>1
      <4>3. /\ <<z + 1, j + 1>> \in D /\ rank(<<z + 1, j + 1>>) < m
            /\ <<z + 1, j>> \in D /\ rank(<<z + 1, j>>) < m
            /\ <<z, j + 1>> \in D /\ rank(<<z, j + 1>>) < m
        BY <4>1, <4>2
      <4> QED BY <4>3, Zenon DEF z, j
    <3> HIDE DEF D, rank
    <3>2. /\ f[<<p[1] + 1, p[2] + 1>>] = h[<<p[1] + 1, p[2] + 1>>]
          /\ f[<<p[1] + 1, p[2]>>] = h[<<p[1] + 1, p[2]>>]
          /\ f[<<p[1], p[2] + 1>>] = h[<<p[1], p[2] + 1>>]
      BY <1>2, <3>1, Zenon
    <3> QED BY <3>2, Zenon DEF InCommon
  <2> QED BY <2>1, <2>2
<1>3. n \in 0..n /\ n \in Nat
  OBVIOUS
<1> HIDE DEF D, Body, rank, n
<1>4. ASSUME bad # {} PROVE FALSE
  <2>1. bad \in SUBSET Nat
    BY <1>3
  <2>2. PICK m \in bad : \A j \in bad : m <= j
    <3> HIDE DEF bad
    <3> QED BY <1>4, <2>1, LeastNatural, Zenon
  <2>3. m \in 0..n /\ ~\E f : Up(m, f)
    BY <2>2
  <2>4. m # 0
    <3> DEFINE h == [p \in D |-> 0]
    <3>1. \A p \in D : rank(p) >= 0
      BY <1>1, <1>3
    <3>2. h = [p \in D |-> IF rank(p) >= 0 THEN 0 ELSE Body(h, p)]
      BY <3>1
    <3> HIDE DEF h
    <3>3. Up(0, h)
      BY <3>2
    <3> QED BY <2>3, <3>3
  <2>5. m - 1 \in 0..n /\ m - 1 \notin bad
    BY <1>3, <2>2, <2>3, <2>4
  <2>6. PICK f : Up(m - 1, f)
    BY <2>5
  <2> DEFINE h == [p \in D |-> IF rank(p) >= m THEN 0 ELSE Body(f, p)]
  <2>7. \A p \in D : rank(p) < m - 1 => f[p] = Body(f, p)
    BY <1>1, <1>3, <2>3, <2>6
  <2>8. \A p \in D : rank(p) < m - 1 => h[p] = f[p]
    BY <1>1, <1>3, <2>3, <2>7
  <2> HIDE DEF h
  <2>9. \A p \in D : rank(p) < m => Body(f, p) = Body(h, p)
    <3> TAKE p \in D
    <3> HAVE rank(p) < m
    <3>1. m - 1 \in Nat /\ rank(p) < (m - 1) + 1
      BY <1>1, <1>3, <2>3, <2>4
    <3>2. \A v \in D : rank(v) < m - 1 => f[v] = h[v]
      BY <2>8, Zenon
    <3> HIDE DEF Up, bad
    <3> QED BY <1>2, <3>1, <3>2
  <2>10. \A p \in D : rank(p) >= m \/ rank(p) < m
    BY <1>1, <1>3, <2>3
  <2>11. h = [p \in D |-> IF rank(p) >= m THEN 0 ELSE Body(h, p)]
    BY <2>9, <2>10 DEF h
  <2> QED BY <2>3, <2>11, Zenon
<1>5. PICK g : Up(n, g)
  BY <1>3, <1>4
<1> DEFINE Full(f) == f = [p \in D |-> Body(f, p)]
           c == CHOOSE f : Full(f)
<1>6. Full(g)
  <2>1. \A p \in D : ~(rank(p) >= n)
    BY <1>1, <1>3
  <2>2. \A p \in D : (IF rank(p) >= n THEN 0 ELSE Body(g, p)) = Body(g, p)
    BY <2>1
  <2> QED BY <1>5, <2>2
<1>7. Full(c)
  BY <1>6, Zenon
<1>8. Common(s, t, x, y) = [p \in (0..(x - 1)) \X (0..(y - 1)) |-> c[p]]
  BY DEF Common, D, Body, InCommon
<1> HIDE DEF c
<1>9. \A p \in D : c[p] = Body(c, p)
  BY <1>7
<1> QED
  BY <1>8, <1>9, Zenon DEF CountsCommon, D, Body

(* Just below a mismatch nothing is in common, so the search sees that place. *)
LEMMA NearestInRange ==
  ASSUME NEW s, NEW t, NEW x \in Nat \ {0}, NEW y \in Nat \ {0}, s[x] # t[y]
  PROVE  <<x - 1, y - 1>> \in SearchRange(s, t, x, y)
<1> DEFINE E == (0..(x - 1)) \X (0..(y - 1))
           a == <<x - 1, y - 1>>
           common == Common(s, t, x, y)
<1>0. PICK f : CountsCommon(s, t, x, y, f)
  <2>1. x \in Nat /\ y \in Nat
    OBVIOUS
  <2> QED BY <2>1, CommonIs, Zenon
<1>1. /\ common = [p \in E |-> f[p]]
      /\ \A p \in (0..x) \X (0..y) : f[p] = InCommon(s, t, x, y, f, p)
  BY <1>0, Zenon DEF CountsCommon
<1>2. a \in E /\ a[1] = x - 1 /\ a[2] = y - 1 /\ a[1] + 1 = x /\ a[2] + 1 = y
  OBVIOUS
<1>3. /\ a \in (0..x) \X (0..y) /\ <<x, y - 1>> \in (0..x) \X (0..y) /\ <<x - 1, y>> \in (0..x) \X (0..y)
      /\ x - 1 # x /\ y - 1 # y
  OBVIOUS
<1>4. f[<<x, y - 1>>] = 0 /\ f[<<x - 1, y>>] = 0
  <2>1. <<x, y - 1>>[1] = x /\ <<x - 1, y>>[2] = y
    OBVIOUS
  <2> QED BY <1>1, <1>3, <2>1, Zenon DEF InCommon
<1>5. f[a] = Max({0, 0})
  <2>1. f[a] = InCommon(s, t, x, y, f, a)
    BY <1>1, <1>3, Zenon
  <2> HIDE DEF a
  <2>2. InCommon(s, t, x, y, f, a) = Max({f[<<x, y - 1>>], f[<<x - 1, y>>]})
    BY <1>2, <1>3, Zenon DEF InCommon
  <2> QED BY <1>4, <2>1, <2>2, Zenon
<1>6. Max({0, 0}) = 0
  <2>1. \E k \in {0, 0} : \A j \in {0, 0} : k >= j
    OBVIOUS
  <2>2. Max({0, 0}) \in {0, 0}
    BY <2>1, Zenon DEF Max
  <2> QED BY <2>2
<1>7. DOMAIN common = E /\ common[a] = 0
  BY <1>1, <1>2, <1>5, <1>6
<1>8. \A v \in E : NoLaterThan(v, a) => v = a
  <2> TAKE v \in E
  <2> HAVE NoLaterThan(v, a)
  <2>1. v[1] = x - 1 /\ v[2] = y - 1
    BY <1>2 DEF NoLaterThan
  <2>2. v = <<v[1], v[2]>>
    OBVIOUS
  <2> QED BY <2>1, <2>2, Zenon
<1>9. 0 < LMax
  BY LMaxAssumption
<1> HIDE DEF a, E
<1>10. \A v \in DOMAIN common : NoLaterThan(v, a) => common[v] < LMax
  BY <1>7, <1>8, <1>9, Zenon
<1>11. a \in {p \in DOMAIN common : \A v \in DOMAIN common : NoLaterThan(v, p) => common[v] < LMax}
  BY <1>2, <1>7, <1>10, Zenon
<1> QED
  BY <1>11, Zenon DEF SearchRange, a

(* The search looks at places before both characters only.                    *)
LEMMA RangeWithin ==
  ASSUME NEW s, NEW t, NEW x \in Nat \ {0}, NEW y \in Nat \ {0}
  PROVE  SearchRange(s, t, x, y) \subseteq (0..(x - 1)) \X (0..(y - 1))
<1>1. DOMAIN Common(s, t, x, y) = (0..(x - 1)) \X (0..(y - 1))
  <2>1. PICK f : CountsCommon(s, t, x, y, f)
    <3>1. x \in Nat /\ y \in Nat
      OBVIOUS
    <3> QED BY <3>1, CommonIs, Zenon
  <2>2. Common(s, t, x, y) = [p \in (0..(x - 1)) \X (0..(y - 1)) |-> f[p]]
    BY <2>1, Zenon DEF CountsCommon
  <2> QED BY <2>2
<1> QED
  BY <1>1, Zenon DEF SearchRange

(* A bounded set of naturals has a greatest member.                           *)
LEMMA GreatestNatural ==
  ASSUME NEW n \in Nat, NEW S \in SUBSET (0..n), S # {}
  PROVE  \E m \in S : \A k \in S : m >= k
<1> DEFINE R == {n - k : k \in S}
<1>1. R \in SUBSET Nat /\ R # {}
  <2>1. \A k \in S : k \in 0..n /\ n - k \in Nat
    OBVIOUS
  <2> QED BY <2>1
<1>2. PICK r \in R : \A k \in R : r <= k
  <2> HIDE DEF R
  <2> QED BY <1>1, LeastNatural, Zenon
<1>3. PICK m \in S : r = n - m
  BY <1>2
<1>4. \A k \in S : n - m <= n - k
  BY <1>2, <1>3
<1>5. \A k \in S : m >= k
  <2> TAKE k \in S
  <2>1. n - m <= n - k /\ m \in 0..n /\ k \in 0..n
    BY <1>4
  <2> QED BY <2>1
<1> QED
  BY <1>5

(* Among places with costs there is a first of the cheapest.                  *)
LEMMA BestExists ==
  ASSUME NEW n \in Nat, NEW m \in Nat, NEW R \in SUBSET ((0..n) \X (0..m)), R # {},
         NEW c \in [R -> Nat]
  PROVE  \E p \in R : \A v \in R : c[p] < c[v] \/ (c[p] = c[v] /\ NoLaterThan(p, v))
<1> DEFINE costs == {c[p] : p \in R}
<1>1. costs \in SUBSET Nat /\ costs # {}
  OBVIOUS
<1>2. PICK l \in costs : \A k \in costs : l <= k
  <2> HIDE DEF costs
  <2> QED BY <1>1, LeastNatural, Zenon
<1> DEFINE R1 == {p \in R : c[p] = l}
           rows == {p[1] : p \in R1}
<1>3. rows \in SUBSET (0..n) /\ rows # {}
  BY <1>2
<1>4. PICK r \in rows : \A k \in rows : r >= k
  <2> HIDE DEF rows
  <2> QED BY <1>3, GreatestNatural, Zenon
<1> DEFINE R2 == {p \in R1 : p[1] = r}
           columns == {p[2] : p \in R2}
<1>5. columns \in SUBSET (0..m) /\ columns # {}
  BY <1>4
<1>6. PICK k \in columns : \A j \in columns : k >= j
  <2> HIDE DEF columns
  <2> QED BY <1>5, GreatestNatural, Zenon
<1>7. PICK p \in R2 : p[2] = k
  BY <1>6
<1>8. p \in R /\ c[p] = l /\ p[1] = r /\ p[2] = k /\ l \in Nat /\ r \in Nat /\ k \in Nat
  BY <1>1, <1>2, <1>3, <1>4, <1>5, <1>6, <1>7
<1>9. ASSUME NEW v \in R PROVE c[p] < c[v] \/ (c[p] = c[v] /\ NoLaterThan(p, v))
  <2>1. c[v] \in Nat /\ v[1] \in Nat /\ v[2] \in Nat /\ l <= c[v]
    BY <1>2
  <2>2. CASE c[v] = l
    <3>1. v[1] \in rows /\ r >= v[1]
      BY <1>4, <2>2
    <3>2. CASE v[1] = r
      <4>1. v[2] \in columns
        BY <2>2, <3>2
      <4>2. k >= v[2]
        BY <1>6, <4>1
      <4> QED BY <1>8, <2>2, <3>2, <4>2 DEF NoLaterThan
    <3>3. CASE v[1] # r
      BY <1>8, <2>1, <2>2, <3>1, <3>3 DEF NoLaterThan
    <3> QED BY <3>2, <3>3
  <2>3. CASE c[v] # l
    BY <1>8, <2>1, <2>3
  <2> QED BY <2>2, <2>3
<1> QED
  BY <1>8, <1>9

(* A cell leads to one that is earlier in both lines; over a match to the one *)
(* before both characters.                                                   *)
Cells(s, t) == (0..Len(s)) \X (0..Len(t))
Cell == [op : {"M", "X"}, prev : Nat \X Nat, cost : Nat]
Origin == <<0, 0>>
Earlier(v, p) == v[1] <= p[1] /\ v[2] <= p[2] /\ v[1] + v[2] < p[1] + p[2]
Leads(s, t, p, cell) ==
  /\ p # Origin => Earlier(cell.prev, p)
  /\ p # Origin /\ cell.op = "M" =>
       p[1] > 0 /\ p[2] > 0 /\ cell.prev = <<p[1] - 1, p[2] - 1>> /\ s[p[1]] = t[p[2]]
IsTable(s, t, table) ==
  /\ table \in [Cells(s, t) -> Cell]
  /\ \A p \in Cells(s, t) : Leads(s, t, p, table[p])

(* The cells of the edge are cells.                                           *)
LEMMA EdgeLeads ==
  ASSUME NEW s, NEW t, NEW x \in Nat, NEW y \in Nat
  PROVE  Edge(x, y) \in Cell /\ Leads(s, t, <<x, y>>, Edge(x, y))
<1>1. EditCost \in Nat /\ EditCost + y \in Nat
  BY DEF EditCost
<1>2. CASE x = 0 /\ y = 0
  <2>1. Edge(x, y) = [op |-> "M", prev |-> <<0, 0>>, cost |-> 0] /\ <<x, y>> = Origin
    BY <1>2, Zenon DEF Edge, MatchCell, Origin
  <2>2. [op |-> "M", prev |-> <<0, 0>>, cost |-> 0] \in Cell
    BY DEF Cell
  <2> QED BY <2>1, <2>2, Zenon DEF Leads
<1>3. CASE x = 0 /\ y # 0
  <2>1. Edge(x, y) = [op |-> "X", prev |-> <<0, y - 1>>, cost |-> EditCost + y]
    BY <1>3, Zenon DEF Edge, EditCell
  <2>2. [op |-> "X", prev |-> <<0, y - 1>>, cost |-> EditCost + y] \in Cell
    BY <1>1, <1>3 DEF Cell
  <2>3. Earlier(<<0, y - 1>>, <<x, y>>)
    BY <1>3 DEF Earlier
  <2>4. Edge(x, y).prev = <<0, y - 1>> /\ Edge(x, y).op = "X" /\ "X" # "M"
    BY <2>1
  <2> QED BY <2>1, <2>2, <2>3, <2>4, Zenon DEF Leads
<1>4. CASE x # 0
  <2>1. Edge(x, y) = [op |-> "X", prev |-> <<x - 1, 0>>, cost |-> EditCost]
    BY <1>4, Zenon DEF Edge, EditCell
  <2>2. [op |-> "X", prev |-> <<x - 1, 0>>, cost |-> EditCost] \in Cell
    BY <1>1, <1>4 DEF Cell
  <2>3. Earlier(<<x - 1, 0>>, <<x, y>>)
    BY <1>4 DEF Earlier
  <2>4. Edge(x, y).prev = <<x - 1, 0>> /\ Edge(x, y).op = "X" /\ "X" # "M"
    BY <2>1
  <2> QED BY <2>1, <2>2, <2>3, <2>4, Zenon DEF Leads
<1> QED
  BY <1>2, <1>3, <1>4

(* So is the cell filled from the ones before it.                             *)
LEMMA FilledCellLeads ==
  ASSUME NEW s, NEW t, NEW table, IsTable(s, t, table), Len(s) \in Nat, Len(t) \in Nat,
         NEW x \in 1..Len(s), NEW y \in 1..Len(t)
  PROVE  FilledCell(table, s, t, x, y) \in Cell /\ Leads(s, t, <<x, y>>, FilledCell(table, s, t, x, y))
<1> DEFINE R == SearchRange(s, t, x, y)
           price(p) == table[p].cost + (IF table[p].op = "M" THEN EditCost ELSE 0) + (y - p[2])
           Best(p) == \A v \in R : price(p) < price(v) \/ (price(p) = price(v) /\ NoLaterThan(p, v))
           best == CHOOSE p \in R : Best(p)
           cell == FilledCell(table, s, t, x, y)
<1>1. table \in [Cells(s, t) -> Cell]
  BY Zenon DEF IsTable
<1>2. x \in Nat \ {0} /\ y \in Nat \ {0} /\ x - 1 \in Nat /\ y - 1 \in Nat /\ <<x, y>>[1] = x /\ <<x, y>>[2] = y
  OBVIOUS
<1>3. \A v \in (0..(x - 1)) \X (0..(y - 1)) : v \in Cells(s, t)
  BY DEF Cells
<1>4. cell = IF s[x] = t[y] THEN MatchCell(<<x - 1, y - 1>>, table[<<x - 1, y - 1>>].cost)
             ELSE EditCell(best, price(best))
  BY Zenon DEF FilledCell
<1> HIDE DEF cell
<1>5. CASE s[x] = t[y]
  <2> DEFINE a == <<x - 1, y - 1>>
             l == table[a].cost
  <2>1. cell = [op |-> "M", prev |-> a, cost |-> l]
    BY <1>4, <1>5, Zenon DEF MatchCell
  <2>2. a \in Nat \X Nat /\ a \in Cells(s, t) /\ Earlier(a, <<x, y>>)
    BY <1>2, <1>3 DEF Earlier
  <2>3. l \in Nat
    <3>1. table[a] \in Cell
      BY <1>1, <2>2, Zenon
    <3> QED BY <3>1 DEF Cell
  <2> HIDE DEF l
  <2>4. cell \in Cell /\ cell.prev = a /\ cell.op = "M"
    <3> HIDE DEF a
    <3> QED BY <2>1, <2>2, <2>3 DEF Cell
  <2>5. x > 0 /\ y > 0
    BY <1>2
  <2> QED BY <1>2, <1>5, <2>2, <2>4, <2>5, Zenon DEF Leads, cell
<1>6. CASE s[x] # t[y]
  <2>1. R \subseteq (0..(x - 1)) \X (0..(y - 1)) /\ R # {}
    <3>1. <<x - 1, y - 1>> \in R
      BY <1>2, <1>6, NearestInRange, Zenon
    <3>2. R \subseteq (0..(x - 1)) \X (0..(y - 1))
      BY <1>2, RangeWithin, Zenon
    <3> QED BY <3>1, <3>2, Zenon
  <2> HIDE DEF R
  <2>2. ASSUME NEW p \in R PROVE price(p) \in Nat
    <3>1. table[p] \in Cell /\ p[2] \in 0..(y - 1)
      BY <1>1, <1>3, <2>1
    <3>2. table[p].cost \in Nat
      BY <3>1 DEF Cell
    <3>3. (IF table[p].op = "M" THEN EditCost ELSE 0) \in Nat
      <4>1. EditCost \in Nat /\ 0 \in Nat
        BY DEF EditCost
      <4> QED BY <4>1, Zenon
    <3> DEFINE u == table[p].cost
               v == IF table[p].op = "M" THEN EditCost ELSE 0
               w == p[2]
    <3>4. u \in Nat /\ v \in Nat /\ w \in 0..(y - 1) /\ y \in Nat
      <4>1. y \in Nat
        BY <1>2
      <4> QED BY <3>1, <3>2, <3>3, <4>1, Zenon
    <3> HIDE DEF u, v, w
    <3>5. u + v + y - w \in Nat
      BY <3>4
    <3> QED BY <3>5, Zenon DEF u, v, w
  <2> DEFINE c == [p \in R |-> price(p)]
  <2> HIDE DEF price
  <2>3. c \in [R -> Nat]
    BY <2>2
  <2>4. \E p \in R : \A v \in R : c[p] < c[v] \/ (c[p] = c[v] /\ NoLaterThan(p, v))
    <3> HIDE DEF c
    <3> QED BY <1>2, <2>1, <2>3, BestExists
  <2>5. \E p \in R : Best(p)
    BY <2>4
  <2>6. best \in R
    BY <2>5, Zenon
  <2> HIDE DEF best
  <2>7. price(best) \in Nat /\ best \in (0..(x - 1)) \X (0..(y - 1))
    BY <2>1, <2>2, <2>6
  <2>8. cell = [op |-> "X", prev |-> best, cost |-> price(best)]
    BY <1>4, <1>6, Zenon DEF EditCell
  <2>9. best \in Nat \X Nat /\ Earlier(best, <<x, y>>)
    BY <1>2, <2>7 DEF Earlier
  <2>10. cell \in Cell /\ cell.prev = best /\ cell.op = "X" /\ "X" # "M"
    BY <2>7, <2>8, <2>9 DEF Cell
  <2> QED BY <2>9, <2>10, Zenon DEF Leads, cell
<1> QED
  BY <1>5, <1>6

(* The row and the column of a place counted row by row.                      *)
LEMMA DivWithin ==
  ASSUME NEW a \in Nat, NEW n \in Nat \ {0}, NEW l \in Nat, a < l * n
  PROVE  a \div n \in 0..(l - 1) /\ a % n \in 0..(n - 1)
<1> DEFINE v == a \div n
           r == a % n
<1>1. v \in Nat /\ r \in 0..(n - 1) /\ a = n * v + r
  OBVIOUS
<1> HIDE DEF v, r
<1>2. n * v < n * l
  <2>1. n * v \in Nat /\ l * n = n * l
    BY <1>1
  <2> QED BY <1>1, <2>1
<1>3. v < l
  <2>1. ASSUME v >= l PROVE FALSE
    <3>1. PICK d \in Nat : v = l + d
      BY <1>1, <2>1
    <3>2. n * v = n * l + n * d /\ n * d \in Nat /\ n * l \in Nat
      BY <1>1, <3>1
    <3> QED BY <1>2, <3>2
  <2> QED BY <1>1, <2>1
<1> QED
  BY <1>1, <1>3 DEF v, r

(* Filling a cell of a table makes a table.                                   *)
LEMMA FilledIsTable ==
  ASSUME NEW s, NEW t, NEW table, IsTable(s, t, table), Len(s) \in Nat, Len(t) \in Nat,
         NEW x \in 1..Len(s), NEW y \in 1..Len(t)
  PROVE  IsTable(s, t, Filled(table, s, t, x, y))
<1> DEFINE cell == FilledCell(table, s, t, x, y)
           f == Filled(table, s, t, x, y)
           a == <<x, y>>
<1>1. cell \in Cell /\ Leads(s, t, a, cell)
  BY FilledCellLeads, Zenon
<1>2. table \in [Cells(s, t) -> Cell] /\ \A p \in Cells(s, t) : Leads(s, t, p, table[p])
  BY Zenon DEF IsTable
<1>3. a \in Cells(s, t)
  BY DEF Cells
<1>4. f = [table EXCEPT ![a] = cell]
  BY Zenon DEF Filled
<1> HIDE DEF cell, a, f
<1>5. f \in [Cells(s, t) -> Cell] /\ f[a] = cell /\ \A p \in Cells(s, t) : p # a => f[p] = table[p]
  BY <1>1, <1>2, <1>3, <1>4
<1>6. \A p \in Cells(s, t) : Leads(s, t, p, f[p])
  BY <1>1, <1>2, <1>5, Zenon
<1> QED
  BY <1>5, <1>6, Zenon DEF IsTable, f

(* The table that is filled is one.                                           *)
LEMMA TableIsTable ==
  ASSUME NEW T, NEW s \in Seq(T), NEW t \in Seq(T)
  PROVE  IsTable(s, t, Table(s, t))
<1> DEFINE l == Len(s)
           m == Len(t)
           n == l * m
<1>1. l \in Nat /\ m \in Nat /\ n \in Nat
  OBVIOUS
<1>2. PICK f : FillsTable(s, t, f)
  BY <1>1, TableIs, Zenon
<1>7. /\ Table(s, t) = f[n] /\ f[0] = [p \in Cells(s, t) |-> Edge(p[1], p[2])]
      /\ \A k \in 1..n : f[k] = Filled(f[k - 1], s, t, 1 + ((k - 1) \div m), 1 + ((k - 1) % m))
  BY <1>2, Zenon DEF FillsTable, Cells
<1>3. IsTable(s, t, f[0])
  <2>1. ASSUME NEW p \in Cells(s, t) PROVE Edge(p[1], p[2]) \in Cell /\ Leads(s, t, p, Edge(p[1], p[2]))
    <3>1. p[1] \in Nat /\ p[2] \in Nat /\ p = <<p[1], p[2]>>
      BY <1>1 DEF Cells
    <3> QED BY <3>1, EdgeLeads, Zenon
  <2>2. f[0] \in [Cells(s, t) -> Cell] /\ \A p \in Cells(s, t) : f[0][p] = Edge(p[1], p[2])
    BY <1>7, <2>1
  <2> QED BY <2>1, <2>2, Zenon DEF IsTable
<1> HIDE DEF l, m, n
<1>4. ASSUME NEW k \in 1..n, IsTable(s, t, f[k - 1]) PROVE IsTable(s, t, f[k])
  <2>1. m # 0 /\ k - 1 \in Nat /\ k - 1 < l * m
    BY <1>1, <1>4 DEF n
  <2>2. (k - 1) \div m \in 0..(l - 1) /\ (k - 1) % m \in 0..(m - 1)
    BY <1>1, <2>1, DivWithin
  <2> DEFINE x == 1 + ((k - 1) \div m)
             y == 1 + ((k - 1) % m)
  <2>3. x \in 1..l /\ y \in 1..m
    BY <1>1, <2>2
  <2>4. f[k] = Filled(f[k - 1], s, t, x, y)
    BY <1>7, Zenon
  <2> HIDE DEF x, y
  <2>5. IsTable(s, t, Filled(f[k - 1], s, t, x, y))
    BY <1>1, <1>4, <2>3, FilledIsTable, Zenon DEF l, m
  <2> QED BY <2>4, <2>5, Zenon
<1> DEFINE bad == {k \in 0..n : ~IsTable(s, t, f[k])}
<1>5. ASSUME bad # {} PROVE FALSE
  <2>1. bad \in SUBSET Nat
    OBVIOUS
  <2>2. PICK k \in bad : \A j \in bad : k <= j
    <3> HIDE DEF bad
    <3> QED BY <1>5, <2>1, LeastNatural, Zenon
  <2>3. k \in 0..n /\ ~IsTable(s, t, f[k])
    BY <2>2, Zenon
  <2>4. k # 0
    BY <1>3, <2>3, Zenon
  <2>5. k \in 1..n /\ k - 1 \in 0..n /\ ~(k <= k - 1)
    BY <1>1, <2>3, <2>4
  <2>6. IsTable(s, t, f[k - 1])
    BY <2>2, <2>5, Zenon
  <2> QED BY <1>4, <2>3, <2>5, <2>6, Zenon
<1>6. n \in 0..n
  BY <1>1
<1> QED
  BY <1>5, <1>6, <1>7, Zenon

(* The edits on the way back, cell by cell.                                  *)
OnTheWay(table, t, f, p) ==
  LET prev == table[p].prev
  IN  IF p = <<0, 0>> THEN <<>>
      ELSE IF table[p].op = "M" THEN f[prev]
      ELSE Append(f[prev], [pos |-> prev[1], del |-> p[1] - prev[1],
                            text |-> SubSeq(t, prev[2] + 1, p[2])])

(* f is the way back from every cell.                                         *)
GoesBack(s, t, table, f) ==
  /\ \A p \in Cells(s, t) : Backtrack(table, t, p) = f[p]
  /\ \A p \in Cells(s, t) : f[p] = OnTheWay(table, t, f, p)

(* There is a way back: every cell leads to an earlier one.                   *)
LEMMA BacktrackIs ==
  ASSUME NEW s, NEW t, NEW table, IsTable(s, t, table), Len(s) \in Nat, Len(t) \in Nat
  PROVE  \E f : GoesBack(s, t, table, f)
<1> DEFINE D == Cells(s, t)
           Body(f, p) == OnTheWay(table, t, f, p)
           rank(p) == p[1] + p[2]
           n == Len(s) + Len(t) + 1
           Up(m, f) == f = [p \in D |-> IF rank(p) >= m THEN 0 ELSE Body(f, p)]
           bad == {m \in 0..n : ~\E f : Up(m, f)}
<1>1. \A p \in D : rank(p) \in 0..n /\ rank(p) < n
  BY DEF Cells
<1>0. n \in 0..n /\ n \in Nat
  OBVIOUS
<1>2. ASSUME NEW m \in Nat, NEW p \in D, rank(p) < m + 1, NEW f, NEW h,
             \A v \in D : rank(v) < m => f[v] = h[v]
      PROVE  Body(f, p) = Body(h, p)
  <2>1. CASE p = Origin
    BY <2>1, Zenon DEF OnTheWay, Origin
  <2>2. CASE p # Origin
    <3> DEFINE v == table[p].prev
    <3>1. Earlier(v, p) /\ table[p] \in Cell
      BY <2>2, Zenon DEF IsTable, Leads
    <3>2. v \in Nat \X Nat
      BY <3>1 DEF Cell
    <3> HIDE DEF v
    <3>3. v \in D /\ rank(v) < rank(p) /\ rank(p) \in Nat
      BY <3>1, <3>2 DEF Earlier, Cells
    <3>4. rank(v) < m
      <4>1. rank(v) \in Nat
        BY <3>2
      <4> HIDE DEF rank
      <4> QED BY <1>2, <3>3, <4>1
    <3>5. f[v] = h[v]
      BY <1>2, <3>3, <3>4, Zenon
    <3> QED BY <3>5, Zenon DEF OnTheWay, v
  <2> QED BY <2>1, <2>2
<1> HIDE DEF D, Body, rank, n
<1>4. ASSUME bad # {} PROVE FALSE
  <2>1. bad \in SUBSET Nat
    BY <1>0
  <2>2. PICK m \in bad : \A j \in bad : m <= j
    <3> HIDE DEF bad
    <3> QED BY <1>4, <2>1, LeastNatural, Zenon
  <2>3. m \in 0..n /\ ~\E f : Up(m, f)
    BY <2>2
  <2>4. m # 0
    <3> DEFINE h == [p \in D |-> 0]
    <3>1. \A p \in D : rank(p) >= 0
      BY <1>0, <1>1
    <3>2. h = [p \in D |-> IF rank(p) >= 0 THEN 0 ELSE Body(h, p)]
      BY <3>1
    <3> HIDE DEF h
    <3>3. Up(0, h)
      BY <3>2
    <3> QED BY <2>3, <3>3
  <2>5. m - 1 \in 0..n /\ m - 1 \notin bad
    BY <1>0, <2>2, <2>3, <2>4
  <2>6. PICK f : Up(m - 1, f)
    BY <2>5
  <2> DEFINE h == [p \in D |-> IF rank(p) >= m THEN 0 ELSE Body(f, p)]
  <2>7. \A p \in D : rank(p) < m - 1 => f[p] = Body(f, p)
    BY <1>0, <1>1, <2>3, <2>6
  <2>8. \A p \in D : rank(p) < m - 1 => h[p] = f[p]
    BY <1>0, <1>1, <2>3, <2>7
  <2> HIDE DEF h
  <2>9. \A p \in D : rank(p) < m => Body(f, p) = Body(h, p)
    <3> TAKE p \in D
    <3> HAVE rank(p) < m
    <3>1. m - 1 \in Nat /\ rank(p) < (m - 1) + 1
      BY <1>0, <1>1, <2>3, <2>4
    <3>2. \A v \in D : rank(v) < m - 1 => f[v] = h[v]
      BY <2>8, Zenon
    <3> HIDE DEF Up, bad
    <3> QED BY <1>2, <3>1, <3>2
  <2>10. \A p \in D : rank(p) >= m \/ rank(p) < m
    BY <1>0, <1>1, <2>3
  <2>11. h = [p \in D |-> IF rank(p) >= m THEN 0 ELSE Body(h, p)]
    BY <2>9, <2>10 DEF h
  <2> QED BY <2>3, <2>11, Zenon
<1>5. PICK g : Up(n, g)
  BY <1>0, <1>4
<1> DEFINE Full(f) == f = [p \in D |-> Body(f, p)]
           c == CHOOSE f : Full(f)
<1>6. Full(g)
  <2>1. \A p \in D : ~(rank(p) >= n)
    BY <1>0, <1>1
  <2>2. \A p \in D : (IF rank(p) >= n THEN 0 ELSE Body(g, p)) = Body(g, p)
    BY <2>1
  <2> QED BY <1>5, <2>2
<1>7. Full(c)
  BY <1>6, Zenon
<1>8. \A p \in D : Backtrack(table, t, p) = c[p]
  <2>1. DOMAIN table = D
    BY Zenon DEF IsTable, D
  <2> TAKE p \in D
  <2> QED BY <2>1, Zenon DEF Backtrack, Body, OnTheWay
<1> HIDE DEF c
<1>9. \A p \in D : c[p] = Body(c, p)
  BY <1>7
<1> QED
  BY <1>8, <1>9, Zenon DEF GoesBack, D, Body

(* What holds of a cell when it holds of all whose place adds up to less,     *)
(* holds of every cell.                                                      *)
LEMMA CellsUp ==
  ASSUME NEW s, NEW t, Len(s) \in Nat, Len(t) \in Nat, NEW H,
         \A p \in Cells(s, t) : (\A v \in Cells(s, t) : v[1] + v[2] < p[1] + p[2] => v \in H) => p \in H
  PROVE  \A p \in Cells(s, t) : p \in H
<1> DEFINE bad == {p[1] + p[2] : p \in {p \in Cells(s, t) : p \notin H}}
<1>1. ASSUME bad # {} PROVE FALSE
  <2>1. bad \in SUBSET Nat
    <3> DEFINE l == Len(s)
               m == Len(t)
    <3>1. l \in Nat /\ m \in Nat
      OBVIOUS
    <3>2. \A p \in Cells(s, t) : p \in (0..l) \X (0..m)
      BY Zenon DEF Cells
    <3> HIDE DEF l, m
    <3>3. \A p \in (0..l) \X (0..m) : p[1] + p[2] \in Nat
      BY <3>1
    <3>4. \A p \in Cells(s, t) : p[1] + p[2] \in Nat
      BY <3>2, <3>3, Zenon
    <3> QED BY <3>4
  <2>2. PICK k \in bad : \A j \in bad : k <= j
    <3> HIDE DEF bad
    <3> QED BY <1>1, <2>1, LeastNatural, Zenon
  <2>3. PICK p \in Cells(s, t) : k = p[1] + p[2] /\ p \notin H
    BY <2>2
  <2>4. ASSUME NEW v \in Cells(s, t), v[1] + v[2] < p[1] + p[2], v \notin H PROVE FALSE
    <3>1. v[1] + v[2] \in bad
      BY <2>4
    <3>2. v[1] + v[2] \in Nat /\ k \in Nat /\ k <= v[1] + v[2]
      BY <2>1, <2>2, <3>1
    <3> QED BY <2>3, <2>4, <3>2
  <2> QED BY <2>3, <2>4, Zenon
<1>2. ASSUME NEW p \in Cells(s, t) PROVE p \in H
  <2>1. p \in H \/ p[1] + p[2] \in bad
    OBVIOUS
  <2> QED BY <1>1, <2>1
<1> QED
  BY <1>2

(* The edits on the way back from a cell make t up to it of s up to it.       *)
LEMMA BacktrackMakes ==
  ASSUME NEW T, NEW s \in Seq(T), NEW t \in Seq(T), NEW table, IsTable(s, t, table)
  PROVE  \A p \in Cells(s, t) : Makes(s, t, T, Backtrack(table, t, p), p[1], p[2])
<1>1. Len(s) \in Nat /\ Len(t) \in Nat
  OBVIOUS
<1>2. PICK f : GoesBack(s, t, table, f)
  BY <1>1, BacktrackIs, Zenon
<1>3. /\ \A p \in Cells(s, t) : Backtrack(table, t, p) = f[p]
      /\ \A p \in Cells(s, t) : f[p] = OnTheWay(table, t, f, p)
  BY <1>2, Zenon DEF GoesBack
<1> DEFINE Good(p) == Makes(s, t, T, f[p], p[1], p[2])
           H == {p \in Cells(s, t) : Good(p)}
<1>4. ASSUME NEW p \in Cells(s, t), \A v \in Cells(s, t) : v[1] + v[2] < p[1] + p[2] => Good(v)
      PROVE  Good(p)
  <2> DEFINE x == p[1]
             y == p[2]
             prev == table[p].prev
             a == prev[1]
             b == prev[2]
  <2>1. x \in 0..Len(s) /\ y \in 0..Len(t) /\ p = <<x, y>>
    BY DEF Cells
  <2>2. CASE p = Origin
    <3>1. f[p] = <<>> /\ x = 0 /\ y = 0
      <4>1. f[p] = <<>>
        BY <1>3, <2>2, Zenon DEF OnTheWay, Origin
      <4>2. x = 0 /\ y = 0
        BY <2>2 DEF Origin
      <4> QED BY <4>1, <4>2, Zenon
    <3>2. Copies(s, 0, t, 0, 0)
      <4>1. 0 \in Nat /\ 0 <= Len(s) /\ 0 <= Len(t)
        BY <1>1
      <4> QED BY <1>1, <4>1, CopiesNone, Zenon
    <3>3. Makes(s, t, T, <<>>, 0, 0)
      BY <3>2, MakesEmpty, Zenon
    <3> QED BY <3>1, <3>3, Zenon
  <2>3. CASE p # Origin
    <3>1. Earlier(prev, p) /\ table[p] \in Cell /\ Leads(s, t, p, table[p])
      BY <2>3, Zenon DEF IsTable, Leads
    <3>2. prev \in Nat \X Nat /\ table[p].op \in {"M", "X"}
      BY <3>1 DEF Cell
    <3>3. /\ a \in Nat /\ b \in Nat /\ a <= x /\ b <= y /\ prev = <<a, b>>
          /\ a + b < x + y
      <4> HIDE DEF prev
      <4>1. prev[1] \in Nat /\ prev[2] \in Nat /\ prev = <<prev[1], prev[2]>>
        BY <3>2
      <4> QED BY <3>1, <4>1, Zenon DEF Earlier
    <3> HIDE DEF x, y, prev, a, b
    <3>4. prev \in Cells(s, t)
      BY <1>1, <2>1, <3>3 DEF Cells
    <3>5. Makes(s, t, T, f[prev], a, b)
      <4>1. Good(prev)
        BY <1>4, <3>3, <3>4, Zenon DEF x, y, a, b
      <4> QED BY <4>1, Zenon DEF a, b
    <3>6. CASE table[p].op = "M"
      <4>1. x > 0 /\ y > 0 /\ prev = <<x - 1, y - 1>> /\ s[x] = t[y]
        BY <2>3, <3>1, <3>6, Zenon DEF Leads, x, y, prev
      <4>2. a = x - 1 /\ b = y - 1
        BY <3>3, <4>1
      <4>3. Copies(s, a, t, b, 1) /\ a + 1 = x /\ b + 1 = y
        BY <1>1, <2>1, <3>3, <4>1, <4>2 DEF Copies
      <4>4. f[p] = f[prev]
        BY <1>3, <2>3, <3>6, Zenon DEF OnTheWay, Origin, prev
      <4>5. Makes(s, t, T, f[prev], a + 1, b + 1)
        BY <3>5, <4>3, MakesCopied, Zenon
      <4> QED BY <4>3, <4>4, <4>5, Zenon DEF x, y
    <3>7. CASE table[p].op # "M"
      <4> DEFINE d == x - a
                 m == y - b
      <4>1. d \in Nat /\ m \in Nat /\ a + d = x /\ b + m = y /\ a + d <= Len(s) /\ b + m <= Len(t)
        BY <1>1, <2>1, <3>3
      <4>2. f[p] = Append(f[prev], EditOf(t, a, d, b, m))
        <5>1. f[p] = Append(f[prev], [pos |-> a, del |-> d, text |-> SubSeq(t, b + 1, y)])
          BY <1>3, <2>3, <3>7, Zenon DEF OnTheWay, Origin, prev, a, b, x, y
        <5> QED BY <4>1, <5>1, Zenon DEF EditOf
      <4> HIDE DEF d, m
      <4>3. Makes(s, t, T, Append(f[prev], EditOf(t, a, d, b, m)), a + d, b + m)
        BY <3>5, <4>1, MakesEdited, Zenon
      <4> QED BY <4>1, <4>2, <4>3, Zenon DEF x, y
    <3> QED BY <3>6, <3>7
  <2> QED BY <2>2, <2>3
<1>5. \A p \in Cells(s, t) : p \in H
  <2>1. ASSUME NEW p \in Cells(s, t), \A v \in Cells(s, t) : v[1] + v[2] < p[1] + p[2] => v \in H
        PROVE  p \in H
    <3>1. \A v \in Cells(s, t) : v[1] + v[2] < p[1] + p[2] => Good(v)
      BY <2>1, Zenon
    <3>2. Good(p)
      <4> HIDE DEF Good
      <4> QED BY <1>4, <3>1, Zenon
    <3> QED BY <3>2, Zenon
  <2> HIDE DEF H
  <2> QED BY <1>1, <2>1, CellsUp, Zenon
<1> QED
  BY <1>3, <1>5, Zenon

(* The edits make the whole of t of the whole of s, and no two touch.         *)
Turns(s, t, T, es) == Makes(s, t, T, es, Len(s), Len(t)) /\ Apart(es)

(* Merged, they turn the one line into the other.                             *)
LEMMA MergeEditsTurn ==
  ASSUME NEW T, NEW s, NEW t, NEW es, Makes(s, t, T, es, Len(s), Len(t))
  PROVE  Turns(s, t, T, MergeEdits(es))
<1> DEFINE x == Len(s)
           y == Len(t)
           e == EndsAt(es, Len(es))
           n == Len(es)
<1>1. PICK c : /\ Steps(s, t, T, es, c)
               /\ e <= x /\ y = c[n] + (x - e) /\ Copies(s, e, t, c[n], x - e)
  BY Zenon DEF Makes
<1>2. Exactly(s, t, T, MergeEdits(es), e, c[n])
  BY <1>1, MergeEditsMake, Zenon
<1>3. Makes(s, t, T, MergeEdits(es), e, c[n]) /\ Apart(MergeEdits(es))
  BY <1>2, Zenon DEF Exactly
<1>4. e \in 0..x /\ x \in Nat
  BY MakesNumbers, Zenon
<1> HIDE DEF x, y, e, n
<1>5. Makes(s, t, T, MergeEdits(es), e + (x - e), c[n] + (x - e))
  BY <1>1, <1>3, MakesCopied, Zenon
<1>6. e + (x - e) = x
  BY <1>4
<1> QED
  BY <1>1, <1>3, <1>5, <1>6, Zenon DEF Turns, x, y

(* A line is turned into itself by nothing.                                   *)
LEMMA TurnsEqual ==
  ASSUME NEW T, NEW s \in Seq(T)
  PROVE  Turns(s, s, T, <<>>)
<1>1. Copies(s, 0, s, 0, Len(s))
  BY DEF Copies
<1> QED
  BY <1>1, MakesEmpty, Zenon DEF Turns

(* One edit for all of it.                                                   *)
LEMMA TurnsAtOnce ==
  ASSUME NEW T, NEW s \in Seq(T), NEW t \in Seq(T)
  PROVE  Turns(s, t, T, <<[pos |-> 0, del |-> Len(s), text |-> t]>>)
<1> DEFINE x == Len(s)
           y == Len(t)
           op == [pos |-> 0, del |-> x, text |-> t]
<1>1. Len(s) \in Nat /\ Len(t) \in Nat /\ x \in Nat /\ y \in Nat /\ 0 \in Nat
      /\ 0 + x = x /\ 0 + y = y /\ x <= Len(s) /\ y <= Len(t)
      /\ 0 <= Len(s) /\ 0 <= Len(t)
  OBVIOUS
<1>2. op = EditOf(t, 0, x, 0, y)
  <2>1. SubSeq(t, 0 + 1, 0 + y) = t
    OBVIOUS
  <2> QED BY <2>1, Zenon DEF EditOf
<1>3. <<op>> = Append(<<>>, op)
  OBVIOUS
<1> HIDE DEF x, y, op
<1>4. Copies(s, 0, t, 0, 0)
  BY <1>1, CopiesNone, Zenon
<1>5. Makes(s, t, T, <<>>, 0, 0)
  BY <1>4, MakesEmpty, Zenon
<1>6. Apart(<<>>)
  BY <1>4, MakesEmpty, Zenon
<1>7. Exactly(s, t, T, Append(<<>>, EditOf(t, 0, x, 0, y)), 0 + x, 0 + y)
  BY <1>1, <1>5, <1>6, ExactlyNew, Zenon
<1>8. Exactly(s, t, T, <<op>>, x, y)
  BY <1>1, <1>2, <1>3, <1>7, Zenon
<1> QED
  BY <1>8, Zenon DEF Exactly, Turns, op, x, y

(* The substitution matcher turns any line into any other.                    *)
THEOREM SubstitutionTurns ==
  ASSUME NEW T, NEW s \in Seq(T), NEW t \in Seq(T)
  PROVE  Turns(s, t, T, SubstitutionMatch(s, t).ops) /\ SubstitutionMatch(s, t).cost \in Nat
<1> DEFINE table == Table(s, t)
           end == <<Len(s), Len(t)>>
           match == SubstitutionMatch(s, t)
<1>1. IsTable(s, t, table)
  BY TableIsTable, Zenon
<1>2. Len(s) \in Nat /\ Len(t) \in Nat
  OBVIOUS
<1>3. match = IF s = t THEN [ops |-> <<>>, cost |-> 0]
              ELSE IF s = <<>> \/ t = <<>>
              THEN [ops |-> <<[pos |-> 0, del |-> Len(s), text |-> t]>>, cost |-> EditCost + 2 + Len(t)]
              ELSE [ops |-> MergeEdits(Backtrack(table, t, end)), cost |-> table[end].cost]
  BY Zenon DEF SubstitutionMatch
<1> HIDE DEF match
<1>4. CASE s = t
  <2>1. match.ops = <<>> /\ match.cost = 0
    BY <1>3, <1>4
  <2>2. Turns(s, t, T, <<>>)
    BY <1>4, TurnsEqual, Zenon
  <2>3. match.cost \in Nat
    BY <2>1
  <2> QED BY <2>1, <2>2, <2>3, Zenon DEF match
<1>5. CASE s # t /\ (s = <<>> \/ t = <<>>)
  <2> DEFINE one == <<[pos |-> 0, del |-> Len(s), text |-> t]>>
             price == EditCost + 2 + Len(t)
  <2>1. match = [ops |-> one, cost |-> price]
    BY <1>3, <1>5, Zenon
  <2>2. price \in Nat
    BY <1>2 DEF EditCost
  <2>3. Turns(s, t, T, one)
    BY TurnsAtOnce, Zenon
  <2> HIDE DEF one, price
  <2>4. match.ops = one /\ match.cost = price
    BY <2>1
  <2> QED BY <2>2, <2>3, <2>4, Zenon DEF match
<1>6. CASE s # t /\ ~(s = <<>> \/ t = <<>>)
  <2> DEFINE merged == MergeEdits(Backtrack(table, t, end))
             price == table[end].cost
  <2>1. match = [ops |-> merged, cost |-> price]
    BY <1>3, <1>6, Zenon
  <2>2. price \in Nat
    <3>1. end \in Cells(s, t) /\ table \in [Cells(s, t) -> Cell]
      BY <1>1, <1>2 DEF Cells, IsTable
    <3>2. table[end] \in Cell
      BY <3>1, Zenon
    <3> QED BY <3>2 DEF Cell
  <2>3. Turns(s, t, T, merged)
    <3>1. Makes(s, t, T, Backtrack(table, t, end), Len(s), Len(t))
      <4>1. end \in Cells(s, t) /\ end[1] = Len(s) /\ end[2] = Len(t)
        BY <1>2 DEF Cells
      <4> HIDE DEF end
      <4> QED BY <1>1, <4>1, BacktrackMakes, Zenon
    <3> QED BY <3>1, MergeEditsTurn, Zenon
  <2> HIDE DEF merged, price
  <2>4. match.ops = merged /\ match.cost = price
    BY <2>1
  <2> QED BY <2>2, <2>3, <2>4, Zenon DEF match
<1> QED
  BY <1>4, <1>5, <1>6

(***************************************************************************)
(* Grams, matches and runs                                                 *)
(***************************************************************************)

(* Character z of a line with its pads.                                      *)
At(s, z) ==
  IF z <= Q - 1 THEN StartPad
  ELSE IF z <= (Q - 1) + Len(s) THEN s[z - (Q - 1)]
  ELSE EndPad

(* A line without the characters that pad lines.                              *)
Plain(s) == \A z \in 1..Len(s) : s[z] # StartPad /\ s[z] # EndPad

(* Gram x of s is gram y of t.                                               *)
SameGram(s, t, x, y) ==
  /\ x \in Nat /\ y \in Nat /\ x < Len(s) + (Q - 1) /\ y < Len(t) + (Q - 1)
  /\ \A j \in 1..Q : At(s, x + j) = At(t, y + j)

(* A character so many times.                                                 *)
LEMMA RepeatIs ==
  ASSUME NEW c, NEW n \in Nat, NEW T, c \in T
  PROVE  Repeat(c, n) \in Seq(T) /\ Len(Repeat(c, n)) = n /\ \A z \in 1..n : Repeat(c, n)[z] = c
BY DEF Repeat

(* The line with its pads is At, place by place.                              *)
LEMMA PaddedIs ==
  ASSUME NEW T, NEW s \in Seq(T)
  PROVE  LET p == Repeat(StartPad, Q - 1) \o s \o Repeat(EndPad, Q - 1)
         IN  /\ p \in Seq(T \cup {StartPad, EndPad}) /\ Len(p) = Len(s) + 2 * (Q - 1)
             /\ \A z \in 1..Len(p) : p[z] = At(s, z)
<1> DEFINE U == T \cup {StartPad, EndPad}
           k == Q - 1
           a == Repeat(StartPad, k)
           b == Repeat(EndPad, k)
           u == a \o s
           p == u \o b
           l == Len(s)
<1>1. k \in Nat /\ k = Q - 1 /\ l \in Nat /\ s \in Seq(U) /\ StartPad \in U /\ EndPad \in U
  BY QAssumption
<1>2. a \in Seq(U) /\ Len(a) = k /\ \A z \in 1..k : a[z] = StartPad
  <2> HIDE DEF k, U
  <2> QED BY <1>1, RepeatIs
<1>3. b \in Seq(U) /\ Len(b) = k /\ \A z \in 1..k : b[z] = EndPad
  <2> HIDE DEF k, U
  <2> QED BY <1>1, RepeatIs
<1> HIDE DEF a, b, U
<1>4. u \in Seq(U) /\ Len(u) = k + l /\ \A z \in 1..(k + l) : u[z] = IF z <= k THEN a[z] ELSE s[z - k]
  <2> HIDE DEF k
  <2> QED BY <1>1, <1>2, ConcatIs
<1> HIDE DEF u
<1>5. p \in Seq(U) /\ Len(p) = k + l + k
      /\ \A z \in 1..(k + l + k) : p[z] = IF z <= k + l THEN u[z] ELSE b[z - (k + l)]
  <2> HIDE DEF k, l
  <2>1. /\ u \o b \in Seq(U) /\ Len(u \o b) = Len(u) + Len(b)
        /\ \A z \in 1..(Len(u) + Len(b)) : (u \o b)[z] = IF z <= Len(u) THEN u[z] ELSE b[z - Len(u)]
    BY <1>3, <1>4, ConcatIs, Zenon
  <2> QED BY <1>3, <1>4, <2>1, Zenon DEF p
<1> HIDE DEF p
<1>6. ASSUME NEW z \in 1..(k + l + k) PROVE p[z] = At(s, z)
  <2> HIDE DEF k, l
  <2>1. CASE z <= k
    <3>1. z \in 1..k /\ z \in 1..(k + l) /\ z <= k + l
      BY <1>1, <2>1
    <3>2. p[z] = StartPad
      BY <1>2, <1>4, <1>5, <2>1, <3>1, Zenon
    <3> QED BY <1>1, <2>1, <3>2, Zenon DEF At
  <2>2. CASE ~(z <= k) /\ z <= k + l
    <3>1. z \in 1..(k + l)
      BY <1>1, <2>2
    <3>2. p[z] = s[z - k]
      BY <1>4, <1>5, <2>2, <3>1, Zenon
    <3> QED BY <1>1, <2>2, <3>2, Zenon DEF At, l
  <2>3. CASE ~(z <= k) /\ ~(z <= k + l)
    <3>1. z - (k + l) \in 1..k
      BY <1>1, <2>3
    <3>2. p[z] = EndPad
      BY <1>3, <1>5, <2>3, <3>1, Zenon
    <3> QED BY <1>1, <2>3, <3>2, Zenon DEF At, l
  <2> QED BY <2>1, <2>2, <2>3
<1>7. k + l + k = l + 2 * (Q - 1)
  BY <1>1
<1>8. p \in Seq(U) /\ Len(p) = l + 2 * (Q - 1) /\ \A z \in 1..Len(p) : p[z] = At(s, z)
  <2> HIDE DEF k, l
  <2> QED BY <1>5, <1>6, <1>7, Zenon
<1> QED
  BY <1>8, Zenon DEF p, u, a, b, U

(* Gram z holds the Q characters from z on.                                  *)
LEMMA QgramsAre ==
  ASSUME NEW T, NEW s \in Seq(T)
  PROVE  /\ Len(Qgrams(s)) = Len(s) + (Q - 1)
         /\ \A z \in 1..(Len(s) + (Q - 1)) :
              \A j \in 1..Q : Qgrams(s)[z][j] = At(s, (z - 1) + j)
<1> DEFINE U == T \cup {StartPad, EndPad}
           p == Repeat(StartPad, Q - 1) \o s \o Repeat(EndPad, Q - 1)
           l == Len(s)
           k == Len(p)
<1>1. p \in Seq(U) /\ k = l + 2 * (Q - 1) /\ \A z \in 1..k : p[z] = At(s, z)
  BY PaddedIs, Zenon
<1>2. Qgrams(s) = [z \in 1..(k - Q + 1) |-> SubSeq(p, z, z + Q - 1)]
  BY Zenon DEF Qgrams
<1>3. l \in Nat /\ Q \in Nat \ {0}
  BY QAssumption
<1> HIDE DEF U, p, l
<1>4. k - Q + 1 = l + (Q - 1) /\ k - Q + 1 \in Nat
  BY <1>1, <1>3
<1>5. Len(Qgrams(s)) = l + (Q - 1)
  BY <1>2, <1>4
<1>6. ASSUME NEW z \in 1..(l + (Q - 1)), NEW j \in 1..Q PROVE Qgrams(s)[z][j] = At(s, (z - 1) + j)
  <2>1. Qgrams(s)[z] = SubSeq(p, z, z + Q - 1)
    BY <1>2, <1>4
  <2>2. z + Q - 1 \in 1..k /\ z \in 1..k /\ j \in 1..((z + Q - 1) - z + 1) /\ (z - 1) + j \in 1..k
        /\ z + j - 1 = (z - 1) + j
    BY <1>1, <1>3
  <2>3. SubSeq(p, z, z + Q - 1)[j] = p[z + j - 1]
    BY <1>1, <2>2
  <2> QED BY <1>1, <2>1, <2>2, <2>3
<1> QED
  BY <1>5, <1>6, Zenon DEF l

(* Grams that are equal are equal in every character.                         *)
LEMMA EqualGramsSame ==
  ASSUME NEW T, NEW s \in Seq(T), NEW t \in Seq(T),
         NEW z \in 1..(Len(s) + (Q - 1)), NEW j \in 1..(Len(t) + (Q - 1)), Qgrams(s)[z] = Qgrams(t)[j]
  PROVE  SameGram(s, t, z - 1, j - 1)
<1>1. /\ \A k \in 1..Q : Qgrams(s)[z][k] = At(s, (z - 1) + k)
      /\ \A k \in 1..Q : Qgrams(t)[j][k] = At(t, (j - 1) + k)
  BY QgramsAre, Zenon
<1>2. \A k \in 1..Q : At(s, (z - 1) + k) = At(t, (j - 1) + k)
  BY <1>1, Zenon
<1>3. z - 1 \in Nat /\ j - 1 \in Nat /\ z - 1 < Len(s) + (Q - 1) /\ j - 1 < Len(t) + (Q - 1)
  BY QAssumption
<1> QED
  BY <1>2, <1>3, Zenon DEF SameGram

(* Counting up: what holds of 0, and of k when it holds of k - 1, holds up   *)
(* to n.                                                                     *)
LEMMA CountUp ==
  ASSUME NEW n \in Nat, NEW H, 0 \in H, \A k \in 1..n : k - 1 \in H => k \in H
  PROVE  \A k \in 0..n : k \in H
<1> DEFINE bad == {k \in 0..n : k \notin H}
<1>1. SUFFICES ASSUME bad # {} PROVE FALSE
  OBVIOUS
<1>2. bad \in SUBSET Nat
  OBVIOUS
<1>3. PICK m \in bad : \A k \in bad : m <= k
  <2> HIDE DEF bad
  <2> QED BY <1>1, <1>2, LeastNatural, Zenon
<1>4. m \in 1..n /\ m - 1 \in 0..n /\ ~(m <= m - 1)
  BY <1>3
<1> QED
  BY <1>3, <1>4

(* A match: a gram of s and the gram of t that equals it, by their places.    *)
Match(s, t) == {m \in [x : Nat, y : Nat] : SameGram(s, t, m.x, m.y)}

(* The least of a set of naturals is in it.                                   *)
LEMMA LeastIs ==
  ASSUME NEW S \in SUBSET Nat, S # {}
  PROVE  Min(S) \in S
<1>1. \E m \in S : \A k \in S : m <= k
  BY LeastNatural, Zenon
<1> QED
  BY <1>1, Zenon DEF Min

(* What is taken at a gram is a match.                                        *)
LEMMA TakeTyped ==
  ASSUME NEW T, NEW s \in Seq(T), NEW t \in Seq(T), NEW taken \in Seq(Match(s, t)),
         NEW z \in 1..(Len(s) + (Q - 1))
  PROVE  Take(Qgrams(s), Qgrams(t), taken, z) \in Seq(Match(s, t))
<1> DEFINE from == IF taken = <<>> THEN 1 ELSE Last(taken).y + 2
           rest == {j \in from..Len(Qgrams(t)) : Qgrams(t)[j] = Qgrams(s)[z]}
           j == Min(rest)
           new == [x |-> z - 1, y |-> j - 1]
<1>1. Take(Qgrams(s), Qgrams(t), taken, z) = IF rest = {} THEN taken ELSE Append(taken, new)
  BY Zenon DEF Take
<1>2. Len(Qgrams(t)) = Len(t) + (Q - 1) /\ Len(t) + (Q - 1) \in Nat
  BY QgramsAre, QAssumption
<1>3. from \in Nat \ {0}
  <2>1. CASE taken = <<>>
    BY <2>1
  <2>2. CASE taken # <<>>
    <3>1. Last(taken) \in Match(s, t)
      BY <2>2, FrontIs, Zenon
    <3>2. Last(taken).y \in Nat
      BY <3>1 DEF Match
    <3> QED BY <2>2, <3>2
  <2> QED BY <2>1, <2>2
<1>4. rest \in SUBSET Nat
  <2> HIDE DEF from
  <2> QED BY <1>2, <1>3
<1>5. CASE rest # {}
  <2>1. j \in rest
    <3> HIDE DEF rest
    <3> QED BY <1>4, <1>5, LeastIs, Zenon
  <2>2. j \in 1..(Len(t) + (Q - 1)) /\ Qgrams(s)[z] = Qgrams(t)[j]
    <3> HIDE DEF from, j
    <3> QED BY <1>2, <1>3, <2>1
  <2> HIDE DEF j
  <2>3. SameGram(s, t, z - 1, j - 1)
    BY <2>2, EqualGramsSame, Zenon
  <2>4. z - 1 \in Nat /\ j - 1 \in Nat
    BY <2>2, QAssumption
  <2>5. new \in [x : Nat, y : Nat] /\ new.x = z - 1 /\ new.y = j - 1
    BY <2>4
  <2> HIDE DEF new
  <2>6. new \in Match(s, t)
    BY <2>3, <2>5, Zenon DEF Match
  <2> HIDE DEF rest
  <2> QED BY <1>1, <1>5, <2>6, AppendIs, ZenonT(40)
<1>6. CASE rest = {}
  BY <1>1, <1>6, Zenon
<1> QED
  BY <1>5, <1>6

(* So all that is taken are matches.                                          *)
LEMMA MatchesTyped ==
  ASSUME NEW T, NEW s \in Seq(T), NEW t \in Seq(T)
  PROVE  QgramMatches(s, t) \in Seq(Match(s, t))
<1> DEFINE n == Len(Qgrams(s))
<1>1. n = Len(s) + (Q - 1) /\ n \in Nat
  BY QgramsAre, QAssumption
<1>2. PICK f : /\ QgramMatches(s, t) = f[n]
               /\ f[0] = <<>>
               /\ \A k \in 1..n : f[k] = Take(Qgrams(s), Qgrams(t), f[k - 1], k)
  BY <1>1, TakenIs, Zenon
<1> HIDE DEF n
<1> DEFINE H == {k \in 0..n : f[k] \in Seq(Match(s, t))}
<1>3. 0 \in H
  <2>1. <<>> \in Seq(Match(s, t)) /\ 0 \in 0..n
    BY <1>1
  <2> QED BY <1>2, <2>1, Zenon
<1>4. ASSUME NEW k \in 1..n, k - 1 \in H PROVE k \in H
  <2>1. f[k - 1] \in Seq(Match(s, t)) /\ k \in 0..n
    BY <1>1, <1>4
  <2>2. f[k] \in Seq(Match(s, t))
    BY <1>1, <1>2, <2>1, TakeTyped, Zenon
  <2> QED BY <2>1, <2>2
<1>5. n \in 0..n
  BY <1>1
<1>6. \A k \in 0..n : k \in H
  <2> HIDE DEF H
  <2> QED BY <1>1, <1>3, <1>4, CountUp, Zenon
<1> QED
  BY <1>2, <1>5, <1>6

(* Merging runs from the last match to the first, step by step.               *)
LEMMA MergedRunsIs ==
  ASSUME NEW ms, Len(ms) \in Nat
  PROVE  \E f : /\ MergedRuns(ms) = Reverse(f[Len(ms)])
                /\ f[0] = <<>>
                /\ \A k \in 1..Len(ms) : f[k] = Joined(f[k - 1], ms[Len(ms) + 1 - k])
<1> DEFINE n == Len(ms)
           First == <<>>
           Step(u, k) == Joined(u, ms[Len(ms) + 1 - k])
           Up(m, f) == f = [k \in 0..m |-> IF k = 0 THEN First ELSE Step(f[k - 1], k)]
           bad == {m \in 0..n : ~\E f : Up(m, f)}
<1>1. n \in 0..n
  OBVIOUS
<1> HIDE DEF Step, First, n
<1>2. ASSUME bad # {} PROVE FALSE
  <2>1. bad \in SUBSET Nat
    BY <1>1
  <2>2. PICK m \in bad : \A j \in bad : m <= j
    <3> HIDE DEF bad
    <3> QED BY <1>2, <2>1, LeastNatural, Zenon
  <2>3. m \in 0..n /\ ~\E f : Up(m, f)
    BY <2>2
  <2>4. m # 0
    <3>1. Up(0, [k \in 0..0 |-> First])
      OBVIOUS
    <3> QED BY <2>3, <3>1
  <2>5. m - 1 \in 0..n /\ m - 1 \notin bad
    BY <1>1, <2>2, <2>3, <2>4
  <2>6. PICK f : Up(m - 1, f)
    BY <2>5
  <2> DEFINE h == [k \in 0..m |-> IF k = m THEN Step(f[m - 1], m) ELSE f[k]]
  <2>7. \A k \in 0..(m - 1) : f[k] = IF k = 0 THEN First ELSE Step(f[k - 1], k)
    BY <2>6
  <2>8. \A k \in 0..m : h[k] = IF k = 0 THEN First ELSE Step(h[k - 1], k)
    <3> TAKE k \in 0..m
    <3>1. k \in 0..(m - 1) \/ k = m
      BY <2>3
    <3>2. k # 0 => (k - 1 \in 0..m /\ k - 1 # m /\ h[k - 1] = f[k - 1])
      BY <2>3
    <3>3. CASE k = m
      BY <2>4, <3>2, <3>3
    <3>4. CASE k # m
      <4>1. k \in 0..(m - 1) /\ h[k] = f[k]
        BY <3>1, <3>4
      <4> QED BY <2>7, <3>2, <4>1
    <3> QED BY <3>3, <3>4
  <2>9. Up(m, h)
    BY <2>8
  <2> QED BY <2>3, <2>9
<1>3. \E f : Up(n, f)
  BY <1>1, <1>2
<1> DEFINE c == CHOOSE f : Up(n, f)
<1>4. Up(n, c)
  BY <1>3
<1>5. c[0] = First /\ \A k \in 1..n : c[k] = Step(c[k - 1], k)
  <2> HIDE DEF c
  <2> QED BY <1>1, <1>4
<1>6. MergedRuns(ms) = Reverse(c[n])
  BY DEF MergedRuns, Step, First, n
<1> HIDE DEF c
<1> QED
  BY <1>5, <1>6, Zenon DEF Step, First, n

(* The price of edits, step by step.                                           *)
LEMMA QgramCostIs ==
  ASSUME NEW es, Len(es) \in Nat
  PROVE  \E f : /\ QgramCost(es) = f[Len(es)]
                /\ f[0] = 5
                /\ \A k \in 1..Len(es) : f[k] = f[k - 1] + 3 + Len(es[k].text)
<1> DEFINE n == Len(es)
           First == 5
           Step(u, k) == u + 3 + Len(es[k].text)
           Up(m, f) == f = [k \in 0..m |-> IF k = 0 THEN First ELSE Step(f[k - 1], k)]
           bad == {m \in 0..n : ~\E f : Up(m, f)}
<1>1. n \in 0..n
  OBVIOUS
<1> HIDE DEF Step, First, n
<1>2. ASSUME bad # {} PROVE FALSE
  <2>1. bad \in SUBSET Nat
    BY <1>1
  <2>2. PICK m \in bad : \A j \in bad : m <= j
    <3> HIDE DEF bad
    <3> QED BY <1>2, <2>1, LeastNatural, Zenon
  <2>3. m \in 0..n /\ ~\E f : Up(m, f)
    BY <2>2
  <2>4. m # 0
    <3>1. Up(0, [k \in 0..0 |-> First])
      OBVIOUS
    <3> QED BY <2>3, <3>1
  <2>5. m - 1 \in 0..n /\ m - 1 \notin bad
    BY <1>1, <2>2, <2>3, <2>4
  <2>6. PICK f : Up(m - 1, f)
    BY <2>5
  <2> DEFINE h == [k \in 0..m |-> IF k = m THEN Step(f[m - 1], m) ELSE f[k]]
  <2>7. \A k \in 0..(m - 1) : f[k] = IF k = 0 THEN First ELSE Step(f[k - 1], k)
    BY <2>6
  <2>8. \A k \in 0..m : h[k] = IF k = 0 THEN First ELSE Step(h[k - 1], k)
    <3> TAKE k \in 0..m
    <3>1. k \in 0..(m - 1) \/ k = m
      BY <2>3
    <3>2. k # 0 => (k - 1 \in 0..m /\ k - 1 # m /\ h[k - 1] = f[k - 1])
      BY <2>3
    <3>3. CASE k = m
      BY <2>4, <3>2, <3>3
    <3>4. CASE k # m
      <4>1. k \in 0..(m - 1) /\ h[k] = f[k]
        BY <3>1, <3>4
      <4> QED BY <2>7, <3>2, <4>1
    <3> QED BY <3>3, <3>4
  <2>9. Up(m, h)
    BY <2>8
  <2> QED BY <2>3, <2>9
<1>3. \E f : Up(n, f)
  BY <1>1, <1>2
<1> DEFINE c == CHOOSE f : Up(n, f)
<1>4. Up(n, c)
  BY <1>3
<1>5. c[0] = First /\ \A k \in 1..n : c[k] = Step(c[k - 1], k)
  <2> HIDE DEF c
  <2> QED BY <1>1, <1>4
<1>6. QgramCost(es) = c[n]
  BY DEF QgramCost, Step, First, n
<1> HIDE DEF c
<1> QED
  BY <1>5, <1>6, Zenon DEF Step, First, n

(* The n + 1 grams of s from gram x on are those of t from gram y on.         *)
Linked(s, t, x, y, n) == n \in Nat /\ \A d \in 0..n : SameGram(s, t, x + d, y + d)

(* A run: matches in a row, from the first to the last.                       *)
MatchRuns(s, t) ==
  {r \in [last : Match(s, t), first : Match(s, t)] :
     \E n \in Nat : /\ r.last.x = r.first.x + n /\ r.last.y = r.first.y + n
                    /\ Linked(s, t, r.first.x, r.first.y, n)}

(* Every run is clear of the next, which lies before it in both lines.        *)
Descending(runs) == \A k \in 1..(Len(runs) - 1) : ClearOf(runs[k], runs[k + 1].last)

(* What a match is.                                                           *)
LEMMA MatchIs ==
  ASSUME NEW s, NEW t, NEW m \in Match(s, t)
  PROVE  m.x \in Nat /\ m.y \in Nat /\ SameGram(s, t, m.x, m.y)
BY DEF Match

(* A match alone is a run.                                                    *)
LEMMA RunOfOne ==
  ASSUME NEW s, NEW t, NEW m \in Match(s, t)
  PROVE  [last |-> m, first |-> m] \in MatchRuns(s, t)
<1> DEFINE r == [last |-> m, first |-> m]
<1>1. m.x \in Nat /\ m.y \in Nat /\ SameGram(s, t, m.x, m.y)
  BY MatchIs, Zenon
<1>2. m.x + 0 = m.x /\ m.y + 0 = m.y /\ 0 \in Nat /\ \A d \in 0..0 : d = 0
  BY <1>1
<1>3. Linked(s, t, m.x, m.y, 0)
  BY <1>1, <1>2, Zenon DEF Linked
<1>4. r.last = m /\ r.first = m /\ r \in [last : Match(s, t), first : Match(s, t)]
  OBVIOUS
<1> HIDE DEF r
<1>5. r \in MatchRuns(s, t)
  BY <1>2, <1>3, <1>4, Zenon DEF MatchRuns
<1> QED
  BY <1>5, Zenon DEF r

(* A run goes on to the match that continues it.                              *)
LEMMA RunLonger ==
  ASSUME NEW s, NEW t, NEW r \in MatchRuns(s, t), NEW m \in Match(s, t), Continues(r, m)
  PROVE  [last |-> r.last, first |-> m] \in MatchRuns(s, t)
<1> DEFINE new == [last |-> r.last, first |-> m]
           x == m.x
           y == m.y
<1>1. x \in Nat /\ y \in Nat /\ SameGram(s, t, x, y)
  BY MatchIs, Zenon
<1>2. PICK n \in Nat : /\ r.last.x = r.first.x + n /\ r.last.y = r.first.y + n
                       /\ Linked(s, t, r.first.x, r.first.y, n)
  BY Zenon DEF MatchRuns
<1>3. r.last \in Match(s, t) /\ r.first.x = x + 1 /\ r.first.y = y + 1
  BY DEF MatchRuns, Continues
<1>4. \A d \in 0..n : SameGram(s, t, (x + 1) + d, (y + 1) + d)
  BY <1>2, <1>3, Zenon DEF Linked
<1>5. new.last = r.last /\ new.first = m /\ new \in [last : Match(s, t), first : Match(s, t)]
  BY <1>3
<1> HIDE DEF new, x, y
<1>6. ASSUME NEW d \in 0..(n + 1) PROVE SameGram(s, t, x + d, y + d)
  <2>1. CASE d = 0
    <3>1. x + d = x /\ y + d = y
      BY <1>1, <2>1
    <3> QED BY <1>1, <3>1, Zenon
  <2>2. CASE d # 0
    <3>1. d - 1 \in 0..n /\ (x + 1) + (d - 1) = x + d /\ (y + 1) + (d - 1) = y + d
      BY <1>1, <2>2
    <3>2. SameGram(s, t, (x + 1) + (d - 1), (y + 1) + (d - 1))
      BY <1>4, <3>1, Zenon
    <3> QED BY <3>1, <3>2, Zenon
  <2> QED BY <2>1, <2>2
<1>7. n + 1 \in Nat /\ (x + 1) + n = x + (n + 1) /\ (y + 1) + n = y + (n + 1)
  BY <1>1, <1>2
<1>8. Linked(s, t, x, y, n + 1)
  BY <1>6, <1>7, Zenon DEF Linked
<1>9. new.last.x = new.first.x + (n + 1) /\ new.last.y = new.first.y + (n + 1) /\ new.first.x = x /\ new.first.y = y
  BY <1>2, <1>3, <1>5, <1>7, Zenon DEF x, y
<1>10. new \in MatchRuns(s, t)
  BY <1>5, <1>7, <1>8, <1>9, Zenon DEF MatchRuns
<1> QED
  BY <1>10, Zenon DEF new

(* One more run, clear of the last, keeps the order.                          *)
LEMMA DescendingAppend ==
  ASSUME NEW S, NEW runs \in Seq(S), Descending(runs), NEW r \in S,
         runs = <<>> \/ ClearOf(Last(runs), r.last)
  PROVE  Descending(Append(runs, r))
<1> DEFINE n == Len(runs)
           p == Append(runs, r)
<1>1. n \in Nat /\ Len(p) = n + 1 /\ p[n + 1] = r /\ \A j \in 1..n : p[j] = runs[j]
  BY AppendIs
<1>2. \A k \in 1..(n - 1) : ClearOf(runs[k], runs[k + 1].last)
  BY Zenon DEF Descending
<1>3. n # 0 => (runs # <<>> /\ Last(runs) = runs[n])
  BY <1>1 DEF Last
<1> HIDE DEF p, n
<1>4. ASSUME NEW k \in 1..n PROVE ClearOf(p[k], p[k + 1].last)
  <2>1. CASE k < n
    <3>1. k \in 1..(n - 1) /\ k + 1 \in 1..n
      BY <1>1, <2>1
    <3> QED BY <1>1, <1>2, <3>1, Zenon
  <2>2. CASE k = n
    <3>1. n # 0
      BY <1>1, <2>2
    <3> QED BY <1>1, <1>3, <2>2, <3>1, Zenon
  <2> QED BY <1>1, <2>1, <2>2
<1>5. Len(p) - 1 = n
  BY <1>1
<1> QED
  BY <1>4, <1>5, Zenon DEF Descending, p

(* So does one less.                                                          *)
LEMMA DescendingFront ==
  ASSUME NEW S, NEW runs \in Seq(S), Descending(runs), runs # <<>>
  PROVE  Descending(Front(runs)) /\ (Front(runs) = <<>> \/ ClearOf(Last(Front(runs)), Last(runs).last))
<1> DEFINE n == Len(runs)
           v == Front(runs)
<1>1. /\ n \in Nat \ {0} /\ v \in Seq(S) /\ Len(v) = n - 1 /\ (\A j \in 1..(n - 1) : v[j] = runs[j])
      /\ Last(runs) = runs[n]
  BY FrontIs, Zenon
<1>2. \A k \in 1..(n - 1) : ClearOf(runs[k], runs[k + 1].last)
  BY Zenon DEF Descending
<1> HIDE DEF n, v
<1>3. ASSUME NEW k \in 1..(Len(v) - 1) PROVE ClearOf(v[k], v[k + 1].last)
  <2>1. k \in 1..(n - 1) /\ k + 1 \in 1..(n - 1)
    BY <1>1
  <2> QED BY <1>1, <1>2, <2>1, Zenon
<1>4. CASE n = 1
  <2>1. v = <<>>
    BY <1>1, <1>4
  <2> QED BY <1>3, <2>1, Zenon DEF Descending, v
<1>5. CASE n # 1
  <2>1. n - 1 \in 1..(n - 1) /\ (n - 1) + 1 = n
    BY <1>1, <1>5
  <2>2. Last(v) = v[n - 1]
    BY <1>1 DEF Last
  <2> QED BY <1>1, <1>2, <1>3, <2>1, <2>2, Zenon DEF Descending, v
<1> QED
  BY <1>4, <1>5

(* A match joins the last run, replaces it, becomes one or is dropped: the    *)
(* order stays.                                                               *)
LEMMA JoinedRuns ==
  ASSUME NEW s, NEW t, NEW runs \in Seq(MatchRuns(s, t)), Descending(runs), NEW m \in Match(s, t)
  PROVE  Joined(runs, m) \in Seq(MatchRuns(s, t)) /\ Descending(Joined(runs, m))
<1> DEFINE run == Last(runs)
           one == [last |-> m, first |-> m]
           longer == [last |-> run.last, first |-> m]
<1>1. Joined(runs, m) = IF runs = <<>> THEN <<one>>
                        ELSE IF Continues(run, m) THEN Append(Front(runs), longer)
                        ELSE IF ClearOf(run, m) THEN Append(runs, one)
                        ELSE runs
  BY Zenon DEF Joined
<1>2. one \in MatchRuns(s, t) /\ one.last = m /\ longer.last = run.last /\ <<one>> = Append(<<>>, one)
  <2>1. one \in MatchRuns(s, t)
    BY RunOfOne, Zenon
  <2> QED BY <2>1
<1>3. CASE runs = <<>>
  <2>1. Joined(runs, m) = Append(runs, one)
    BY <1>1, <1>2, <1>3, Zenon
  <2> HIDE DEF one
  <2>2. Append(runs, one) \in Seq(MatchRuns(s, t))
    BY <1>2, AppendIs, Zenon
  <2>3. Descending(Append(runs, one))
    BY <1>2, <1>3, DescendingAppend, Zenon
  <2> QED BY <2>1, <2>2, <2>3, Zenon
<1>4. CASE runs # <<>> /\ Continues(run, m)
  <2>1. run \in MatchRuns(s, t) /\ Front(runs) \in Seq(MatchRuns(s, t))
    BY <1>4, FrontIs, Zenon
  <2>2. longer \in MatchRuns(s, t)
    <3> HIDE DEF run
    <3> QED BY <1>4, <2>1, RunLonger, Zenon
  <2>3. Joined(runs, m) = Append(Front(runs), longer)
    BY <1>1, <1>4, Zenon
  <2>4. Descending(Front(runs)) /\ (Front(runs) = <<>> \/ ClearOf(Last(Front(runs)), longer.last))
    BY <1>2, <1>4, DescendingFront, Zenon
  <2> HIDE DEF longer
  <2> QED BY <2>1, <2>2, <2>3, <2>4, AppendIs, DescendingAppend, ZenonT(40)
<1>5. CASE runs # <<>> /\ ~Continues(run, m) /\ ClearOf(run, m)
  <2>1. Joined(runs, m) = Append(runs, one) /\ ClearOf(run, one.last)
    BY <1>1, <1>2, <1>5, Zenon
  <2> HIDE DEF one
  <2> QED BY <1>2, <2>1, AppendIs, DescendingAppend, Zenon
<1>6. CASE runs # <<>> /\ ~Continues(run, m) /\ ~ClearOf(run, m)
  BY <1>1, <1>6, Zenon
<1> QED
  BY <1>3, <1>4, <1>5, <1>6, Zenon

(* The runs merged are runs, each clear of the next.                          *)
LEMMA MergedRunsAre ==
  ASSUME NEW T, NEW s \in Seq(T), NEW t \in Seq(T)
  PROVE  \E f : /\ MergedRuns(QgramMatches(s, t)) = Reverse(f)
                /\ f \in Seq(MatchRuns(s, t)) /\ Descending(f)
<1> DEFINE ms == QgramMatches(s, t)
           n == Len(ms)
<1>1. ms \in Seq(Match(s, t))
  BY MatchesTyped, Zenon
<1> HIDE DEF ms
<1>2. n \in Nat
  BY <1>1
<1>3. PICK f : /\ MergedRuns(ms) = Reverse(f[n])
               /\ f[0] = <<>>
               /\ \A k \in 1..n : f[k] = Joined(f[k - 1], ms[n + 1 - k])
  BY <1>2, MergedRunsIs, Zenon
<1> DEFINE H == {k \in 0..n : f[k] \in Seq(MatchRuns(s, t)) /\ Descending(f[k])}
<1>4. ASSUME NEW k \in 1..n PROVE ms[n + 1 - k] \in Match(s, t) /\ k \in 0..n
  BY <1>1, <1>2
<1>5. 0 \in 0..n /\ n \in 0..n
  BY <1>2
<1> HIDE DEF n
<1>6. 0 \in H
  <2>1. <<>> \in Seq(MatchRuns(s, t)) /\ \A k \in 1..(Len(<<>>) - 1) : FALSE
    OBVIOUS
  <2> QED BY <1>3, <1>5, <2>1, Zenon DEF Descending
<1>7. ASSUME NEW k \in 1..n, k - 1 \in H PROVE k \in H
  <2>1. f[k - 1] \in Seq(MatchRuns(s, t)) /\ Descending(f[k - 1])
    BY <1>7, Zenon
  <2>2. f[k] = Joined(f[k - 1], ms[n + 1 - k])
    BY <1>3, Zenon
  <2>3. f[k] \in Seq(MatchRuns(s, t)) /\ Descending(f[k])
    BY <1>4, <2>1, <2>2, JoinedRuns, Zenon
  <2> QED BY <1>4, <2>3, Zenon
<1>8. n \in H
  <2> HIDE DEF H
  <2> QED BY <1>2, <1>5, <1>6, <1>7, CountUp, Zenon
<1> QED
  BY <1>3, <1>8, Zenon DEF ms

(***************************************************************************)
(* The stretches the lines share, and the edits between them               *)
(***************************************************************************)

(* The greater and the lesser of two numbers.                                 *)
LEMMA OfTwo ==
  ASSUME NEW a \in Int, NEW b \in Int
  PROVE  Max({a, b}) = (IF a >= b THEN a ELSE b) /\ Min({a, b}) = (IF a <= b THEN a ELSE b)
<1>1. \E m \in {a, b} : \A k \in {a, b} : m >= k
  OBVIOUS
<1>2. \E m \in {a, b} : \A k \in {a, b} : m <= k
  OBVIOUS
<1>3. Max({a, b}) \in {a, b} /\ \A k \in {a, b} : Max({a, b}) >= k
  BY <1>1, Zenon DEF Max
<1>4. Min({a, b}) \in {a, b} /\ \A k \in {a, b} : Min({a, b}) <= k
  BY <1>2, Zenon DEF Min
<1> QED
  BY <1>3, <1>4

(* Equal grams are equal both ways.                                           *)
LEMMA SameGramBack ==
  ASSUME NEW s, NEW t, NEW x, NEW y, SameGram(s, t, x, y)
  PROVE  SameGram(t, s, y, x)
BY Zenon DEF SameGram

(* So are grams in a row.                                                     *)
LEMMA LinkedBack ==
  ASSUME NEW s, NEW t, NEW x, NEW y, NEW n, Linked(s, t, x, y, n)
  PROVE  Linked(t, s, y, x, n)
BY SameGramBack, Zenon DEF Linked

(* A character of the line in a gram is a character of the other line in the *)
(* equal gram: only a pad could lie beside it, and the line holds none.       *)
LEMMA GramCopies ==
  ASSUME NEW s, NEW t, Len(s) \in Nat, Len(t) \in Nat, Plain(s), NEW x, NEW y, SameGram(s, t, x, y),
         NEW a \in Nat, a < Len(s), x - (Q - 1) <= a, a <= x
  PROVE  y + (a - x) \in 0..(Len(t) - 1) /\ s[a + 1] = t[(y + (a - x)) + 1]
<1> DEFINE j == (a - x) + Q
<1>1. x \in Nat /\ y \in Nat /\ \A z \in 1..Q : At(s, x + z) = At(t, y + z)
  BY Zenon DEF SameGram
<1>2. j \in 1..Q /\ x + j = a + Q /\ y + j = (y + (a - x)) + Q /\ a + 1 \in 1..Len(s)
      /\ (a + Q) - (Q - 1) = a + 1 /\ ~(a + Q <= Q - 1) /\ a + Q <= (Q - 1) + Len(s)
  BY <1>1, QAssumption
<1>3. At(s, a + Q) = s[a + 1]
  BY <1>2, Zenon DEF At
<1>4. s[a + 1] # StartPad /\ s[a + 1] # EndPad
  BY <1>2, Zenon DEF Plain
<1> HIDE DEF j
<1> DEFINE b == y + (a - x)
<1>5. At(t, b + Q) = s[a + 1]
  BY <1>1, <1>2, <1>3, Zenon
<1>6. b \in Int
  BY <1>1
<1> HIDE DEF b
<1>7. ~(b + Q <= Q - 1) /\ b + Q <= (Q - 1) + Len(t) /\ t[(b + Q) - (Q - 1)] = s[a + 1]
  BY <1>4, <1>5, Zenon DEF At
<1>8. b \in 0..(Len(t) - 1) /\ (b + Q) - (Q - 1) = b + 1
  BY <1>6, <1>7, QAssumption
<1> QED
  BY <1>7, <1>8, Zenon DEF b

(* A character in one of the grams of a row is one of the other line, in      *)
(* step.                                                                      *)
LEMMA LinkedCopies ==
  ASSUME NEW s, NEW t, Len(s) \in Nat, Len(t) \in Nat, Plain(s), NEW x \in Nat, NEW y \in Nat, NEW n,
         Linked(s, t, x, y, n), NEW a \in Nat, a < Len(s), x - (Q - 1) <= a, a <= x + n
  PROVE  y + (a - x) \in 0..(Len(t) - 1) /\ s[a + 1] = t[(y + (a - x)) + 1]
<1> DEFINE d == IF a <= x THEN 0 ELSE a - x
<1>1. n \in Nat /\ \A z \in 0..n : SameGram(s, t, x + z, y + z)
  BY Zenon DEF Linked
<1>2. d \in 0..n /\ (x + d) - (Q - 1) <= a /\ a <= x + d /\ (y + d) + (a - (x + d)) = y + (a - x)
  BY <1>1, QAssumption
<1> HIDE DEF d
<1>3. SameGram(s, t, x + d, y + d)
  BY <1>1, <1>2, Zenon
<1> DEFINE u == x + d
           v == y + d
<1>4. SameGram(s, t, u, v) /\ u - (Q - 1) <= a /\ a <= u /\ v + (a - u) = y + (a - x)
  BY <1>2, <1>3, Zenon
<1> HIDE DEF u, v
<1>5. v + (a - u) \in 0..(Len(t) - 1) /\ s[a + 1] = t[(v + (a - u)) + 1]
  BY <1>4, GramCopies
<1> QED
  BY <1>4, <1>5, Zenon

(* The bounds of a stretch, as numbers.                                       *)
StretchOf(v, s, t, x, y, n) ==
  /\ v.xBegin = (IF 0 >= x - (Q - 1) THEN 0 ELSE x - (Q - 1))
  /\ v.yBegin = (IF 0 >= y - (Q - 1) THEN 0 ELSE y - (Q - 1))
  /\ v.xEnd = (IF x + n <= Len(s) - 1 THEN x + n ELSE Len(s) - 1)
  /\ v.yEnd = (IF y + n <= Len(t) - 1 THEN y + n ELSE Len(t) - 1)

(* A stretch is as long in the one line as in the other, and the same there;  *)
(* it is empty only if both lines are.                                       *)
Fits(v, s, t) ==
  /\ v.xEnd \in Int /\ v.yEnd \in Int /\ (v.xEnd + 1) - v.xBegin = (v.yEnd + 1) - v.yBegin
  /\ Copies(s, v.xBegin, t, v.yBegin, (v.xEnd + 1) - v.xBegin)
  /\ v.xBegin <= v.xEnd \/ (v.xBegin = 0 /\ v.yBegin = 0)

(* What the code computes for a run is its stretch.                           *)
LEMMA StretchIs ==
  ASSUME NEW s, NEW t, Len(s) \in Nat, Len(t) \in Nat, NEW r \in MatchRuns(s, t), NEW n \in Nat,
         r.last.x = r.first.x + n, r.last.y = r.first.y + n
  PROVE  StretchOf(Stretch(r, s, t), s, t, r.first.x, r.first.y, n)
<1> DEFINE x == r.first.x
           y == r.first.y
<1>1. r.first \in Match(s, t)
  BY DEF MatchRuns
<1>2. x \in Nat /\ y \in Nat
  BY <1>1, MatchIs, Zenon
<1>3. Stretch(r, s, t) = [xBegin |-> Max({0, x - (Q - 1)}), xEnd |-> Min({x + n, Len(s) - 1}),
                          yBegin |-> Max({0, y - (Q - 1)}), yEnd |-> Min({y + n, Len(t) - 1})]
  BY Zenon DEF Stretch
<1> HIDE DEF x, y
<1>4. x - (Q - 1) \in Int /\ y - (Q - 1) \in Int /\ x + n \in Int /\ y + n \in Int /\ 0 \in Int
      /\ Len(s) - 1 \in Int /\ Len(t) - 1 \in Int
  BY <1>2, QAssumption
<1>5. /\ Max({0, x - (Q - 1)}) = (IF 0 >= x - (Q - 1) THEN 0 ELSE x - (Q - 1))
      /\ Max({0, y - (Q - 1)}) = (IF 0 >= y - (Q - 1) THEN 0 ELSE y - (Q - 1))
      /\ Min({x + n, Len(s) - 1}) = (IF x + n <= Len(s) - 1 THEN x + n ELSE Len(s) - 1)
      /\ Min({y + n, Len(t) - 1}) = (IF y + n <= Len(t) - 1 THEN y + n ELSE Len(t) - 1)
  BY <1>4, OfTwo, Zenon
<1>6. /\ Stretch(r, s, t).xBegin = Max({0, x - (Q - 1)}) /\ Stretch(r, s, t).yBegin = Max({0, y - (Q - 1)})
      /\ Stretch(r, s, t).xEnd = Min({x + n, Len(s) - 1}) /\ Stretch(r, s, t).yEnd = Min({y + n, Len(t) - 1})
  BY <1>3
<1> QED
  BY <1>5, <1>6, Zenon DEF StretchOf, x, y

(* And that stretch fits.                                                     *)
LEMMA StretchFits ==
  ASSUME NEW s, NEW t, Len(s) \in Nat, Len(t) \in Nat, Plain(s), Plain(t),
         NEW x \in Nat, NEW y \in Nat, NEW n, Linked(s, t, x, y, n),
         NEW v, StretchOf(v, s, t, x, y, n)
  PROVE  Fits(v, s, t)
<1> DEFINE k == Len(s)
           l == Len(t)
           xb == v.xBegin
           yb == v.yBegin
           xe == v.xEnd
           ye == v.yEnd
<1>1. Linked(t, s, y, x, n)
  BY LinkedBack, Zenon
<1>2. /\ xb = (IF 0 >= x - (Q - 1) THEN 0 ELSE x - (Q - 1))
      /\ yb = (IF 0 >= y - (Q - 1) THEN 0 ELSE y - (Q - 1))
      /\ xe = (IF x + n <= k - 1 THEN x + n ELSE k - 1)
      /\ ye = (IF y + n <= l - 1 THEN y + n ELSE l - 1)
  BY Zenon DEF StretchOf
<1>3. /\ \A a \in Nat : (a < k /\ x - (Q - 1) <= a /\ a <= x + n) =>
                          (y + (a - x) \in 0..(l - 1) /\ s[a + 1] = t[(y + (a - x)) + 1])
      /\ \A b \in Nat : (b < l /\ y - (Q - 1) <= b /\ b <= y + n) => (x + (b - y) \in 0..(k - 1))
  <2>1. ASSUME NEW a \in Nat, a < k, x - (Q - 1) <= a, a <= x + n
        PROVE  y + (a - x) \in 0..(l - 1) /\ s[a + 1] = t[(y + (a - x)) + 1]
    BY <2>1, LinkedCopies
  <2>2. ASSUME NEW b \in Nat, b < l, y - (Q - 1) <= b, b <= y + n
        PROVE  x + (b - y) \in 0..(k - 1)
    BY <1>1, <2>2, LinkedCopies
  <2> QED BY <2>1, <2>2, Zenon
<1>4. x < k + (Q - 1) /\ y < l + (Q - 1) /\ n \in Nat /\ k \in Nat /\ l \in Nat
  <2>1. SameGram(s, t, x + 0, y + 0) /\ n \in Nat
    BY DEF Linked
  <2>2. x + 0 = x /\ y + 0 = y
    OBVIOUS
  <2> QED BY <2>1, <2>2, Zenon DEF SameGram
<1> HIDE DEF k, l, xb, yb, xe, ye
<1>5. CASE k # 0 /\ l # 0
  <2>1. /\ xb \in 0..xe /\ xe \in 0..(k - 1) /\ x - (Q - 1) <= xb /\ x - (Q - 1) <= xe
        /\ xb <= x + n /\ xe <= x + n
    BY <1>2, <1>4, <1>5, QAssumption
  <2>2. /\ yb \in 0..ye /\ ye \in 0..(l - 1) /\ y - (Q - 1) <= yb /\ y - (Q - 1) <= ye
        /\ yb <= y + n /\ ye <= y + n
    BY <1>2, <1>4, <1>5, QAssumption
  <2>3. y + (xb - x) \in 0..(l - 1) /\ y + (xe - x) \in 0..(l - 1)
    BY <1>3, <1>4, <2>1
  <2>4. x + (yb - y) \in 0..(k - 1) /\ x + (ye - y) \in 0..(k - 1)
    BY <1>3, <1>4, <2>2
  <2>5. yb = y + (xb - x) /\ ye = y + (xe - x)
    BY <1>2, <1>4, <2>1, <2>2, <2>3, <2>4, QAssumption
  <2>6. (xe + 1) - xb = (ye + 1) - yb /\ xe \in Int /\ ye \in Int /\ xb <= xe
    BY <2>1, <2>2, <2>5
  <2>7. \A j \in 1..((xe + 1) - xb) : s[xb + j] = t[yb + j]
    <3> TAKE j \in 1..((xe + 1) - xb)
    <3> DEFINE a == xb + (j - 1)
    <3>1. a \in Nat /\ a \in xb..xe /\ a + 1 = xb + j
      BY <2>1
    <3>3. a < k /\ x - (Q - 1) <= a /\ a <= x + n
      <4> HIDE DEF a
      <4> QED BY <1>4, <2>1, <3>1, QAssumption
    <3>4. (y + (a - x)) + 1 = yb + j
      BY <2>1, <2>5
    <3> HIDE DEF a
    <3>2. s[a + 1] = t[(y + (a - x)) + 1]
      BY <1>3, <3>1, <3>3, Zenon
    <3> QED BY <3>1, <3>2, <3>4, Zenon
  <2>8. /\ xb \in Nat /\ yb \in Nat /\ (xe + 1) - xb \in Nat /\ xb + ((xe + 1) - xb) <= k
        /\ yb + ((xe + 1) - xb) <= l
    BY <1>4, <2>1, <2>2, <2>5
  <2> QED BY <2>6, <2>7, <2>8, Zenon DEF Fits, Copies, xb, yb, xe, ye, k, l
<1>6. CASE k = 0 \/ l = 0
  <2>1. k = 0 /\ l = 0
    <3>1. CASE k # 0
      <4> DEFINE a == IF x + n <= k - 1 THEN x + n ELSE k - 1
      <4>1. a \in Nat /\ a < k /\ x - (Q - 1) <= a /\ a <= x + n
        BY <1>4, <3>1, QAssumption
      <4> HIDE DEF a
      <4>2. y + (a - x) \in 0..(l - 1)
        BY <1>3, <4>1, Zenon
      <4> QED BY <1>4, <1>6, <3>1, <4>1, <4>2
    <3>2. CASE l # 0
      <4> DEFINE b == IF y + n <= l - 1 THEN y + n ELSE l - 1
      <4>1. b \in Nat /\ b < l /\ y - (Q - 1) <= b /\ b <= y + n
        BY <1>4, <3>2, QAssumption
      <4> HIDE DEF b
      <4>2. x + (b - y) \in 0..(k - 1)
        BY <1>3, <4>1, Zenon
      <4> QED BY <1>4, <1>6, <3>2, <4>1, <4>2
    <3> QED BY <3>1, <3>2
  <2>2. xb = 0 /\ yb = 0 /\ xe = -1 /\ ye = -1
    BY <1>2, <1>4, <2>1, QAssumption
  <2>3. /\ (xe + 1) - xb = 0 /\ (ye + 1) - yb = 0 /\ xe \in Int /\ ye \in Int
        /\ xb \in Nat /\ yb \in Nat /\ xb <= k /\ yb <= l
    BY <2>1, <2>2
  <2>4. Copies(s, xb, t, yb, 0)
    BY <1>4, <2>3, CopiesNone, Zenon DEF k, l
  <2>5. Copies(s, xb, t, yb, (xe + 1) - xb) /\ (xe + 1) - xb = (ye + 1) - yb
    BY <2>3, <2>4, Zenon
  <2> QED BY <2>2, <2>3, <2>5, Zenon DEF Fits, xb, yb, xe, ye
<1> QED
  BY <1>5, <1>6

(* The edits so far make all up to the end of a stretch, and the stretch      *)
(* keeps the last of them from what follows.                                 *)
MakesUpTo(s, t, T, es, pre) ==
  /\ pre.xEnd \in Int /\ pre.yEnd \in Int
  /\ Makes(s, t, T, es, pre.xEnd + 1, pre.yEnd + 1)
  /\ Apart(es)
  /\ es = <<>> \/ EndsAt(es, Len(es)) < pre.xEnd + 1

(* A stretch lies behind another in both lines.                               *)
Beside(pre, next) == pre.xEnd + 1 <= next.xBegin /\ pre.yEnd + 1 <= next.yBegin

(* One more edit or none.                                                     *)
LEMMA OneMore ==
  ASSUME NEW T, NEW es \in Seq(T), NEW op \in T
  PROVE  es \o <<op>> = Append(es, op) /\ es \o <<>> = es
OBVIOUS

(* p makes so much, its edits are apart, and the last ends there.             *)
Ends(s, t, T, p, x, y) == Makes(s, t, T, p, x, y) /\ Apart(p) /\ EndsAt(p, Len(p)) = x

(* An edit behind the others, written as the code does.                       *)
LEMMA EditedApart ==
  ASSUME NEW s, NEW t, NEW T, NEW es, NEW x, NEW y, Makes(s, t, T, es, x, y), Apart(es),
         es = <<>> \/ EndsAt(es, Len(es)) < x,
         NEW d \in Nat, NEW m \in Nat, x + d <= Len(s), y + m <= Len(t)
  PROVE  Ends(s, t, T, es \o <<EditOf(t, x, d, y, m)>>, x + d, y + m)
<1> DEFINE op == EditOf(t, x, d, y, m)
<1>1. s \in Seq(T) /\ t \in Seq(T) /\ es \in Seq(Edits(T)) /\ x \in Nat /\ y \in Nat
  BY MakesNumbers, Zenon
<1>2. IsEditOf(op, T, t, x, d, y, m)
  BY <1>1, EditOfTyped, Zenon
<1>3. op \in Edits(T) /\ op.pos = x /\ EditEnd(op) = x + d
  BY <1>2, Zenon DEF IsEditOf
<1>4. Makes(s, t, T, Append(es, op), x + d, y + m)
  BY <1>1, MakesEdited, Zenon
<1> HIDE DEF op
<1>5. Apart(Append(es, op))
  BY <1>1, <1>3, ApartEdited, Zenon
<1>6. EndsAt(Append(es, op), Len(Append(es, op))) = x + d
  BY <1>1, <1>3, AppendEnds, Zenon
<1>7. Append(es, op) = es \o <<op>>
  BY <1>1, <1>3, OneMore, Zenon
<1> QED
  BY <1>4, <1>5, <1>6, <1>7, Zenon DEF Ends, op

(* The edit between two stretches makes all up to the end of the second.      *)
LEMMA BetweenMakes ==
  ASSUME NEW s, NEW t, NEW T, NEW es, NEW pre, NEW next,
         MakesUpTo(s, t, T, es, pre), Fits(next, s, t), Beside(pre, next)
  PROVE  MakesUpTo(s, t, T, es \o Between(pre, next, t), next)
<1> DEFINE x == pre.xEnd + 1
           y == pre.yEnd + 1
           xb == next.xBegin
           yb == next.yBegin
           k == (next.xEnd + 1) - xb
           d == xb - pre.xEnd - 1
           m == yb - pre.yEnd - 1
<1>1. /\ pre.xEnd \in Int /\ pre.yEnd \in Int /\ Makes(s, t, T, es, x, y) /\ Apart(es)
      /\ es = <<>> \/ EndsAt(es, Len(es)) < x
  BY Zenon DEF MakesUpTo
<1>2. /\ next.xEnd \in Int /\ next.yEnd \in Int /\ k = (next.yEnd + 1) - yb
      /\ Copies(s, xb, t, yb, k)
      /\ xb <= next.xEnd \/ (xb = 0 /\ yb = 0)
  BY Zenon DEF Fits
<1>3. x <= xb /\ y <= yb
  BY Zenon DEF Beside
<1>4. /\ xb \in Nat /\ yb \in Nat /\ k \in Nat /\ xb + k <= Len(s) /\ yb + k <= Len(t)
  BY <1>2, Zenon DEF Copies
<1>5. /\ s \in Seq(T) /\ t \in Seq(T) /\ es \in Seq(Edits(T)) /\ x \in Nat /\ y \in Nat
      /\ EndsAt(es, Len(es)) \in 0..x
  BY <1>1, MakesNumbers, Zenon
<1>6. Len(s) \in Nat /\ Len(t) \in Nat
  BY <1>5
<1>7. /\ d \in Nat /\ m \in Nat /\ x + d = xb /\ y + m = yb /\ xb <= Len(s) /\ yb <= Len(t)
  <2> DEFINE a == pre.xEnd
             b == pre.yEnd
  <2>1. a \in Int /\ b \in Int /\ x = a + 1 /\ y = b + 1 /\ d = xb - a - 1 /\ m = yb - b - 1
    BY <1>1, Zenon
  <2>2. /\ xb \in Nat /\ yb \in Nat /\ k \in Nat /\ xb + k <= Len(s) /\ yb + k <= Len(t)
        /\ x \in Nat /\ y \in Nat /\ x <= xb /\ y <= yb /\ Len(s) \in Nat /\ Len(t) \in Nat
    BY <1>3, <1>4, <1>5, <1>6, Zenon
  <2> HIDE DEF a, b, x, y, d, m, xb, yb, k
  <2> QED BY <2>1, <2>2
<1>8. xb + k = next.xEnd + 1 /\ yb + k = next.yEnd + 1
  <2> DEFINE a == next.xEnd
             b == next.yEnd
  <2>1. a \in Int /\ b \in Int /\ k = (a + 1) - xb /\ k = (b + 1) - yb
    BY <1>2, Zenon
  <2>2. xb \in Nat /\ yb \in Nat /\ k \in Nat
    BY <1>4, Zenon
  <2>3. xb + k = a + 1 /\ yb + k = b + 1
    <3> HIDE DEF a, b, xb, yb, k
    <3> QED BY <2>1, <2>2
  <2> QED BY <2>3, Zenon
<1>9. Between(pre, next, t) = IF xb = 0 /\ yb = 0 THEN <<>> ELSE <<EditOf(t, x, d, y, m)>>
  BY Zenon DEF Between, EditOf, Substr
<1> HIDE DEF x, y, d, m, k, xb, yb
<1>10. CASE xb = 0 /\ yb = 0
  <2>1. x = 0 /\ y = 0
    BY <1>3, <1>5, <1>10
  <2>2. es = <<>>
    BY <1>1, <1>5, <2>1
  <2>3. Between(pre, next, t) = <<>> /\ es \o <<>> = es
    BY <1>9, <1>10, <2>2
  <2>5. Makes(s, t, T, es, xb, yb)
    BY <1>1, <1>10, <2>1, Zenon
  <2>4. Makes(s, t, T, es, xb + k, yb + k)
    BY <1>2, <2>5, MakesCopied, Zenon
  <2> QED BY <1>1, <1>2, <1>8, <2>2, <2>3, <2>4, Zenon DEF MakesUpTo
<1>11. CASE ~(xb = 0 /\ yb = 0)
  <2> DEFINE p == es \o <<EditOf(t, x, d, y, m)>>
  <2>1. x + d <= Len(s) /\ y + m <= Len(t)
    BY <1>7
  <2>3. es \o Between(pre, next, t) = p
    BY <1>9, <1>11, Zenon
  <2>7. Ends(s, t, T, p, x + d, y + m)
    BY <1>1, <1>7, <2>1, EditedApart, Zenon
  <2> HIDE DEF p
  <2>2. Makes(s, t, T, p, xb, yb) /\ Apart(p) /\ EndsAt(p, Len(p)) = xb
    BY <1>7, <2>7, Zenon DEF Ends
  <2>4. Makes(s, t, T, p, xb + k, yb + k)
    BY <1>2, <2>2, MakesCopied, Zenon
  <2>5. xb < next.xEnd + 1
    BY <1>2, <1>4, <1>11
  <2>6. EndsAt(p, Len(p)) < next.xEnd + 1
    BY <2>2, <2>5, Zenon
  <2> QED BY <1>1, <1>2, <1>8, <2>2, <2>3, <2>4, <2>6, Zenon DEF MakesUpTo
<1> QED
  BY <1>10, <1>11

(* The edit after the last stretch completes the line.                        *)
LEMMA AfterTurns ==
  ASSUME NEW s, NEW t, NEW T, NEW es, NEW pre, MakesUpTo(s, t, T, es, pre)
  PROVE  Turns(s, t, T, es \o After(pre, s, t))
<1> DEFINE x == pre.xEnd + 1
           y == pre.yEnd + 1
           d == Len(s) - pre.xEnd - 1
           m == Len(t) - pre.yEnd - 1
<1>1. /\ pre.xEnd \in Int /\ pre.yEnd \in Int /\ Makes(s, t, T, es, x, y) /\ Apart(es)
      /\ es = <<>> \/ EndsAt(es, Len(es)) < x
  BY Zenon DEF MakesUpTo
<1>2. /\ s \in Seq(T) /\ t \in Seq(T) /\ es \in Seq(Edits(T)) /\ x \in Nat /\ y \in Nat
      /\ x <= Len(s) /\ y <= Len(t)
  BY <1>1, MakesNumbers, Zenon
<1>3. Len(s) \in Nat /\ Len(t) \in Nat
  BY <1>2
<1>4. d \in Nat /\ m \in Nat /\ x + d = Len(s) /\ y + m = Len(t) /\ pre.yEnd + 2 = y + 1
  <2> DEFINE a == pre.xEnd
             b == pre.yEnd
  <2>1. /\ a \in Int /\ b \in Int /\ x = a + 1 /\ y = b + 1 /\ d = Len(s) - a - 1 /\ m = Len(t) - b - 1
    BY <1>1, Zenon
  <2>2. pre.yEnd = b
    OBVIOUS
  <2> HIDE DEF a, b, x, y, d, m
  <2> QED BY <1>2, <1>3, <2>1, <2>2
<1>5. After(pre, s, t) = IF Len(s) = x /\ Len(t) = y THEN <<>>
                         ELSE <<EditOf(t, x, d, y, m)>>
  BY <1>4, Zenon DEF After, EditOf
<1> HIDE DEF x, y, d, m
<1>6. CASE Len(s) = x /\ Len(t) = y
  <2>1. After(pre, s, t) = <<>> /\ es \o <<>> = es
    BY <1>2, <1>5, <1>6
  <2> QED BY <1>1, <1>6, <2>1, Zenon DEF Turns
<1>7. CASE ~(Len(s) = x /\ Len(t) = y)
  <2> DEFINE p == es \o <<EditOf(t, x, d, y, m)>>
  <2>1. x + d <= Len(s) /\ y + m <= Len(t)
    BY <1>3, <1>4
  <2>2. Ends(s, t, T, p, x + d, y + m)
    BY <1>1, <1>4, <2>1, EditedApart, Zenon
  <2>3. es \o After(pre, s, t) = p
    BY <1>5, <1>7, Zenon
  <2> HIDE DEF p
  <2> QED BY <1>4, <2>2, <2>3, Zenon DEF Turns, Ends
<1> QED
  BY <1>6, <1>7

(* The stretch of a run lies within its grams.                                *)
StretchFor(v, r, s, t) ==
  /\ Fits(v, s, t)
  /\ v.xBegin \in Nat /\ v.yBegin \in Nat /\ v.xEnd \in Int /\ v.yEnd \in Int
  /\ r.first.x \in Nat /\ r.first.y \in Nat /\ r.last.x \in Nat /\ r.last.y \in Nat
  /\ r.first.x - (Q - 1) <= v.xBegin /\ r.first.y - (Q - 1) <= v.yBegin
  /\ v.xEnd <= r.last.x /\ v.yEnd <= r.last.y

(* The stretch of a run is one.                                               *)
LEMMA StretchForRun ==
  ASSUME NEW s, NEW t, Len(s) \in Nat, Len(t) \in Nat, Plain(s), Plain(t), NEW r \in MatchRuns(s, t)
  PROVE  StretchFor(Stretch(r, s, t), r, s, t)
<1> DEFINE v == Stretch(r, s, t)
           x == r.first.x
           y == r.first.y
<1>1. PICK n \in Nat : /\ r.last.x = x + n /\ r.last.y = y + n
                       /\ Linked(s, t, x, y, n)
  BY Zenon DEF MatchRuns
<1>2. r.first \in Match(s, t)
  BY DEF MatchRuns
<1>3. x \in Nat /\ y \in Nat
  BY <1>2, MatchIs, Zenon
<1>4. StretchOf(v, s, t, x, y, n)
  BY <1>1, StretchIs, Zenon
<1>5. Fits(v, s, t)
  <2> HIDE DEF v, x, y
  <2> QED BY <1>1, <1>3, <1>4, StretchFits, Zenon
<1> DEFINE xb == v.xBegin
           yb == v.yBegin
           xe == v.xEnd
           ye == v.yEnd
<1>6. /\ xb = (IF 0 >= x - (Q - 1) THEN 0 ELSE x - (Q - 1))
      /\ yb = (IF 0 >= y - (Q - 1) THEN 0 ELSE y - (Q - 1))
      /\ xe = (IF x + n <= Len(s) - 1 THEN x + n ELSE Len(s) - 1)
      /\ ye = (IF y + n <= Len(t) - 1 THEN y + n ELSE Len(t) - 1)
  BY <1>4, Zenon DEF StretchOf
<1> HIDE DEF xb, yb, xe, ye, x, y, v
<1>7. /\ xb \in Nat /\ yb \in Nat /\ xe \in Int /\ ye \in Int /\ x + n \in Nat /\ y + n \in Nat
      /\ x - (Q - 1) <= xb /\ y - (Q - 1) <= yb /\ xe <= x + n /\ ye <= y + n
  BY <1>3, <1>6, QAssumption
<1> QED
  BY <1>1, <1>3, <1>5, <1>7, Zenon DEF StretchFor, xb, yb, xe, ye, x, y, v

(* Stretches of runs that are clear lie beside each other.                    *)
LEMMA ClearBeside ==
  ASSUME NEW s, NEW t, NEW v, NEW r, NEW q2, NEW r2, StretchFor(v, r, s, t), StretchFor(q2, r2, s, t),
         ClearOf(r2, r.last)
  PROVE  Beside(v, q2)
<1>1. /\ v.xEnd \in Int /\ v.yEnd \in Int /\ r.last.x \in Nat /\ r.last.y \in Nat
      /\ v.xEnd <= r.last.x /\ v.yEnd <= r.last.y
  BY Zenon DEF StretchFor
<1>2. /\ q2.xBegin \in Nat /\ q2.yBegin \in Nat /\ r2.first.x \in Nat /\ r2.first.y \in Nat
      /\ r2.first.x - (Q - 1) <= q2.xBegin /\ r2.first.y - (Q - 1) <= q2.yBegin
  BY Zenon DEF StretchFor
<1>3. r2.first.x > r.last.x + (Q - 1) /\ r2.first.y > r.last.y + (Q - 1)
  BY Zenon DEF ClearOf
<1>4. v.xEnd + 1 <= q2.xBegin /\ v.yEnd + 1 <= q2.yBegin
  BY <1>1, <1>2, <1>3, QAssumption
<1> QED
  BY <1>4, Zenon DEF Beside

(* The runs, now from the left, each clear of the one before.                 *)
Ascending(runs) == \A k \in 1..(Len(runs) - 1) : ClearOf(runs[k + 1], runs[k].last)

(* Turned around, the runs ascend.                                            *)
LEMMA ReverseAscending ==
  ASSUME NEW S, NEW f \in Seq(S), Descending(f)
  PROVE  Reverse(f) \in Seq(S) /\ Ascending(Reverse(f))
<1> DEFINE n == Len(f)
           g == Reverse(f)
<1>1. n \in Nat /\ g = [k \in 1..n |-> f[(n - k) + 1]] /\ \A k \in 1..n : f[k] \in S
  BY DEF Reverse
<1>2. \A k \in 1..(n - 1) : ClearOf(f[k], f[k + 1].last)
  BY Zenon DEF Descending
<1> HIDE DEF n
<1>3. Len(g) = n /\ g \in Seq(S) /\ \A k \in 1..n : g[k] = f[(n - k) + 1]
  <2>1. \A k \in 1..n : (n - k) + 1 \in 1..n
    BY <1>1
  <2> QED BY <1>1, <2>1
<1> HIDE DEF g
<1>4. ASSUME NEW k \in 1..(n - 1) PROVE ClearOf(g[k + 1], g[k].last)
  <2>1. /\ k \in 1..n /\ k + 1 \in 1..n /\ n - k \in 1..(n - 1)
        /\ (n - (k + 1)) + 1 = n - k
    BY <1>1
  <2>2. g[k] = f[(n - k) + 1] /\ g[k + 1] = f[n - k]
    BY <1>3, <2>1, Zenon
  <2> QED BY <1>2, <2>1, <2>2, Zenon
<1> QED
  BY <1>3, <1>4, Zenon DEF Ascending, g

(* Before the first stretch nothing is made.                                  *)
LEMMA NothingYet ==
  ASSUME NEW T, NEW s \in Seq(T), NEW t \in Seq(T)
  PROVE  MakesUpTo(s, t, T, <<>>, NoStretch)
<1>1. NoStretch.xEnd = -1 /\ NoStretch.yEnd = -1 /\ -1 \in Int /\ -1 + 1 = 0
  BY DEF NoStretch
<1>2. Copies(s, 0, t, 0, 0)
  BY DEF Copies
<1>3. Makes(s, t, T, <<>>, 0, 0) /\ Apart(<<>>)
  BY <1>2, MakesEmpty, Zenon
<1> QED
  BY <1>1, <1>3, Zenon DEF MakesUpTo

(* A piece put behind nothing.                                                *)
LEMMA OnePiece ==
  ASSUME NEW pre, NEW next, NEW t
  PROVE  <<>> \o Between(pre, next, t) = Between(pre, next, t)
BY DEF Between

(* The pieces make what their stretches reach.                                *)
LEMMA PiecesMake ==
  ASSUME NEW T, NEW s \in Seq(T), NEW t \in Seq(T), NEW n \in Nat \ {0}, NEW st, NEW pieces,
         Len(pieces) = n, pieces[1] = Between(NoStretch, st[1], t), Beside(NoStretch, st[1]),
         \A k \in 2..n : pieces[k] = Between(st[k - 1], st[k], t) /\ Beside(st[k - 1], st[k]),
         \A k \in 1..n : Fits(st[k], s, t)
  PROVE  MakesUpTo(s, t, T, FlattenSeq(pieces), st[n])
<1>1. PICK g : /\ FlattenSeq(pieces) = g[n]
               /\ g[1] = pieces[1]
               /\ \A k \in 2..n : g[k] = g[k - 1] \o pieces[k]
  <2>1. Len(pieces) \in Nat \ {0}
    OBVIOUS
  <2>2. \E g : /\ FlattenSeq(pieces) = g[Len(pieces)]
               /\ g[1] = pieces[1]
               /\ \A k \in 2..Len(pieces) : g[k] = g[k - 1] \o pieces[k]
    BY <2>1, FlattenIs, Zenon
  <2> QED BY <2>2, Zenon
<1> DEFINE H == {k \in 0..n : k = 0 \/ MakesUpTo(s, t, T, g[k], st[k])}
<1>2. 0 \in H
  OBVIOUS
<1>3. MakesUpTo(s, t, T, g[1], st[1])
  <2>1. 1 \in 1..n
    OBVIOUS
  <2>2. MakesUpTo(s, t, T, <<>>, NoStretch)
    BY NothingYet, Zenon
  <2>3. Fits(st[1], s, t)
    BY <2>1, Zenon
  <2>4. MakesUpTo(s, t, T, <<>> \o Between(NoStretch, st[1], t), st[1])
    BY <2>2, <2>3, BetweenMakes
  <2>5. <<>> \o Between(NoStretch, st[1], t) = Between(NoStretch, st[1], t)
    BY OnePiece
  <2> QED BY <1>1, <2>4, <2>5
<1>4. ASSUME NEW k \in 1..n, k - 1 \in H PROVE k \in H
  <2>1. k \in 0..n /\ k # 0
    OBVIOUS
  <2>2. CASE k = 1
    BY <1>3, <2>1, <2>2, Zenon
  <2>3. CASE k # 1
    <3>1. k \in 2..n /\ k - 1 # 0
      BY <2>3
    <3>2. MakesUpTo(s, t, T, g[k - 1], st[k - 1])
      BY <1>4, <3>1, Zenon
    <3>3. MakesUpTo(s, t, T, g[k - 1] \o Between(st[k - 1], st[k], t), st[k])
      BY <3>1, <3>2, BetweenMakes, Zenon
    <3>4. MakesUpTo(s, t, T, g[k], st[k])
      BY <1>1, <3>1, <3>3, Zenon
    <3> QED BY <2>1, <3>4, Zenon
  <2> QED BY <2>2, <2>3
<1>5. n \in Nat /\ n \in 0..n /\ n # 0
  OBVIOUS
<1>6. n \in H
  <2> HIDE DEF H
  <2> QED BY <1>2, <1>4, <1>5, CountUp, Zenon
<1> QED
  BY <1>1, <1>5, <1>6, Zenon

(* The v-gram matcher turns any line into any other, when neither holds one   *)
(* of the characters that pad them.                                          *)
THEOREM QgramTurns ==
  ASSUME NEW T, NEW s \in Seq(T), NEW t \in Seq(T), Plain(s), Plain(t)
  PROVE  Turns(s, t, T, QgramOplist(s, t))
<1> DEFINE runs == MergedRuns(QgramMatches(s, t))
           n == Len(runs)
           st == [k \in 1..n |-> Stretch(runs[k], s, t)]
           pre(k) == IF k = 1 THEN NoStretch ELSE st[k - 1]
           pieces == [k \in 1..n |-> Between(pre(k), st[k], t)]
<1>1. QgramOplist(s, t) = FlattenSeq(pieces) \o After(pre(n + 1), s, t)
  BY Zenon DEF QgramOplist
<1>2. runs \in Seq(MatchRuns(s, t)) /\ Ascending(runs)
  BY MergedRunsAre, ReverseAscending, Zenon
<1>3. Len(s) \in Nat /\ Len(t) \in Nat
  OBVIOUS
<1> HIDE DEF runs
<1>4. n \in Nat /\ Len(pieces) = n /\ \A k \in 1..n : runs[k] \in MatchRuns(s, t) /\ st[k] = Stretch(runs[k], s, t)
  BY <1>2
<1>5. \A k \in 1..n : pieces[k] = Between(pre(k), st[k], t)
  BY Zenon
<1>6. \A k \in 1..(n - 1) : ClearOf(runs[k + 1], runs[k].last)
  BY <1>2, Zenon DEF Ascending
<1>7. CASE n = 0
  <2>1. pieces = <<>> /\ pre(n + 1) = NoStretch
    BY <1>7
  <2>2. FlattenSeq(pieces) = <<>>
    <3> HIDE DEF pieces
    <3> QED BY <2>1 DEF FlattenSeq
  <2>3. MakesUpTo(s, t, T, <<>>, NoStretch)
    BY NothingYet, Zenon
  <2>4. Turns(s, t, T, <<>> \o After(NoStretch, s, t))
    BY <2>3, AfterTurns
  <2> HIDE DEF pieces, pre
  <2> QED BY <1>1, <2>1, <2>2, <2>4
<1>8. CASE n # 0
  <2>1. n + 1 # 1 /\ (n + 1) - 1 = n /\ n \in Nat \ {0} /\ 1 \in 1..n
    BY <1>4, <1>8
  <2>2. pre(n + 1) = st[n] /\ pre(1) = NoStretch
    BY <2>1, Zenon
  <2>3. \A k \in 2..n : k \in 1..n /\ k # 1 /\ k - 1 \in 1..(n - 1) /\ k - 1 \in 1..n /\ (k - 1) + 1 = k
    BY <1>4
  <2>4. pieces[1] = Between(NoStretch, st[1], t) /\ \A k \in 2..n : pieces[k] = Between(st[k - 1], st[k], t)
    BY <1>5, <2>1, <2>3, Zenon
  <2> HIDE DEF st, pieces, pre, n
  <2>5. \A k \in 1..n : StretchFor(st[k], runs[k], s, t)
    BY <1>3, <1>4, StretchForRun, Zenon
  <2>6. \A k \in 1..n : Fits(st[k], s, t)
    BY <2>5, Zenon DEF StretchFor
  <2>7. ASSUME NEW k \in 2..n PROVE Beside(st[k - 1], st[k])
    BY <1>6, <2>3, <2>5, ClearBeside, Zenon
  <2>8. Beside(NoStretch, st[1])
    <3>1. st[1].xBegin \in Nat /\ st[1].yBegin \in Nat
      BY <2>1, <2>5, Zenon DEF StretchFor
    <3>2. NoStretch.xEnd = -1 /\ NoStretch.yEnd = -1
      BY DEF NoStretch
    <3> QED BY <3>1, <3>2 DEF Beside
  <2>9. MakesUpTo(s, t, T, FlattenSeq(pieces), st[n])
    BY <1>4, <2>1, <2>4, <2>6, <2>7, <2>8, PiecesMake, Zenon
  <2> QED BY <1>1, <2>2, <2>9, AfterTurns, Zenon
<1> QED
  BY <1>7, <1>8

(* The parts of two lines are the same.                                       *)
SameText(s, x, t, y, k) == SubSeq(s, x + 1, x + k) = SubSeq(t, y + 1, y + k)

(* A stretch of a text, by its characters.                                    *)
LEMMA PartOfText ==
  ASSUME NEW T, NEW s \in Seq(T), NEW x \in Nat, NEW k \in Nat, x + k <= Len(s)
  PROVE  /\ SubSeq(s, x + 1, x + k) \in Seq(T) /\ Len(SubSeq(s, x + 1, x + k)) = k
         /\ \A j \in 1..k : SubSeq(s, x + 1, x + k)[j] = s[x + j]
  OBVIOUS

(* A copy as parts of the two lines.                                          *)
LEMMA CopiesText ==
  ASSUME NEW T, NEW s \in Seq(T), NEW t \in Seq(T), NEW x, NEW y, NEW k, Copies(s, x, t, y, k)
  PROVE  SameText(s, x, t, y, k)
<1> DEFINE u == SubSeq(s, x + 1, x + k)
           v == SubSeq(t, y + 1, y + k)
<1>1. /\ x \in Nat /\ y \in Nat /\ k \in Nat /\ x + k <= Len(s) /\ y + k <= Len(t)
      /\ \A j \in 1..k : s[x + j] = t[y + j]
  BY Zenon DEF Copies
<1>2. /\ u \in Seq(T) /\ v \in Seq(T) /\ Len(u) = k /\ Len(v) = k
      /\ \A j \in 1..k : u[j] = s[x + j] /\ v[j] = t[y + j]
  <2>1. u \in Seq(T) /\ Len(u) = k /\ \A j \in 1..k : u[j] = s[x + j]
    BY <1>1, PartOfText
  <2>2. v \in Seq(T) /\ Len(v) = k /\ \A j \in 1..k : v[j] = t[y + j]
    BY <1>1, PartOfText
  <2> QED BY <2>1, <2>2
<1> HIDE DEF u, v
<1>3. \A j \in 1..k : u[j] = v[j]
  BY <1>1, <1>2
<1>4. u = v
  BY <1>2, <1>3, SeqEqual, Zenon
<1> QED
  BY <1>4, Zenon DEF u, v, SameText

(* The beginning of a line and what follows.                                  *)
LEMMA TextGrows ==
  ASSUME NEW T, NEW t \in Seq(T), NEW a \in Nat, NEW k \in Nat, a + k <= Len(t)
  PROVE  SubSeq(t, 1, a) \o SubSeq(t, a + 1, a + k) = SubSeq(t, 1, a + k)
<1>1. SubSeq(t, 0 + 1, 0 + a) \o SubSeq(t, (0 + a) + 1, (0 + a) + k) = SubSeq(t, 0 + 1, 0 + (a + k))
  BY SplitText
<1>2. 0 + 1 = 1 /\ 0 + a = a /\ 0 + (a + k) = a + k
  OBVIOUS
<1> QED
  BY <1>1, <1>2

(***************************************************************************)
(* What the table of the substitution matcher costs                        *)
(***************************************************************************)

(* What a cell costs over the one it leads to.                                *)
Added(table, p) ==
  LET cell == table[p]
      prev == table[cell.prev]
  IN  IF cell.op = "M" THEN 0
      ELSE (IF prev.op = "M" THEN EditCost ELSE 0) + (p[2] - cell.prev[2])

(* A cell costs what the one it leads to costs, and what is added.            *)
Priced(table, p) ==
  /\ p = Origin => table[p].op = "M" /\ table[p].cost = 0
  /\ p # Origin => table[p].cost = table[table[p].prev].cost + Added(table, p)

(* The place of a cell in the order of filling; 0 on the edge.                *)
Turn(p, m) == IF p[1] = 0 \/ p[2] = 0 THEN 0 ELSE (p[1] - 1) * m + p[2]

(* All cells with their turn up to k are priced.                              *)
PricedTo(s, t, table, k) == \A p \in Cells(s, t) : Turn(p, Len(t)) <= k => Priced(table, p)

(* A row comes after the ones above.                                          *)
LEMMA RowsApart ==
  ASSUME NEW m \in Nat, NEW a \in Nat \ {0}, NEW x \in Nat, a < x, NEW b \in 1..m, NEW y \in 1..m
  PROVE  (a - 1) * m + b < (x - 1) * m + y
<1>1. PICK d \in Nat : x - 1 = a + d
  <2>1. x - 1 - a \in Nat /\ x - 1 = a + (x - 1 - a)
    OBVIOUS
  <2> QED BY <2>1
<1>2. (a + d) * m = a * m + d * m /\ a * m \in Nat /\ d * m \in Nat /\ (a - 1) * m = a * m - m
  OBVIOUS
<1> QED
  BY <1>1, <1>2

(* The turn of a cell is a number.                                            *)
LEMMA TurnOf ==
  ASSUME NEW m \in Nat, NEW p \in Nat \X (0..m)
  PROVE  /\ Turn(p, m) \in Nat
         /\ p[1] # 0 /\ p[2] # 0 => Turn(p, m) = (p[1] - 1) * m + p[2] /\ Turn(p, m) > 0
<1>1. p[1] \in Nat /\ p[2] \in 0..m
  OBVIOUS
<1>2. CASE p[1] = 0 \/ p[2] = 0
  BY <1>2 DEF Turn
<1>3. CASE p[1] # 0 /\ p[2] # 0
  <2> DEFINE r == p[1] - 1
  <2>1. r \in Nat
    BY <1>1, <1>3
  <2>2. r * m \in Nat
    BY <2>1
  <2>3. Turn(p, m) = r * m + p[2]
    BY <1>3, Zenon DEF Turn
  <2> HIDE DEF r
  <2>4. Turn(p, m) \in Nat /\ Turn(p, m) > 0
    BY <1>1, <1>3, <2>2, <2>3
  <2> QED BY <2>3, <2>4, Zenon DEF r
<1> QED
  BY <1>2, <1>3

(* An earlier cell has its turn earlier, and no two cells the same.           *)
LEMMA TurnsApart ==
  ASSUME NEW m \in Nat, NEW p \in Nat \X (0..m), NEW v \in Nat \X (0..m), p[1] # 0, p[2] # 0
  PROVE  /\ Earlier(v, p) => Turn(v, m) < Turn(p, m)
         /\ Turn(v, m) = Turn(p, m) => v = p
<1>1. p[1] \in Nat /\ p[2] \in 1..m /\ v[1] \in Nat /\ v[2] \in 0..m /\ p = <<p[1], p[2]>> /\ v = <<v[1], v[2]>>
  OBVIOUS
<1>2. Turn(p, m) = (p[1] - 1) * m + p[2] /\ Turn(p, m) > 0 /\ Turn(p, m) \in Nat /\ Turn(v, m) \in Nat
  BY TurnOf
<1>3. CASE v[1] = 0 \/ v[2] = 0
  BY <1>2, <1>3 DEF Turn
<1>4. CASE v[1] # 0 /\ v[2] # 0
  <2>1. Turn(v, m) = (v[1] - 1) * m + v[2]
    BY <1>4, TurnOf
  <2> DEFINE a == v[1]
             b == v[2]
             x == p[1]
             y == p[2]
             z == (a - 1) * m
             j == (x - 1) * m
  <2>2. /\ a \in Nat \ {0} /\ b \in 1..m /\ x \in Nat \ {0} /\ y \in 1..m
    BY <1>1, <1>4
  <2>3. z \in Int /\ j \in Int /\ (a = x => z = j)
    BY <2>2
  <2>4. /\ a < x => z + b < j + y
        /\ x < a => j + y < z + b
    <3> HIDE DEF a, b, x, y
    <3> QED BY <2>2, RowsApart
  <2>5. Turn(p, m) = j + y /\ Turn(v, m) = z + b
    BY <1>2, <2>1, Zenon
  <2>6. Earlier(v, p) => a <= x /\ b <= y /\ a + b < x + y
    BY Zenon DEF Earlier
  <2> HIDE DEF a, b, x, y, z, j
  <2>7. (a <= x /\ b <= y /\ a + b < x + y) => z + b < j + y
    BY <2>2, <2>3, <2>4
  <2>8. z + b = j + y => a = x /\ b = y
    BY <2>2, <2>3, <2>4
  <2> QED BY <1>1, <2>5, <2>6, <2>7, <2>8, Zenon DEF a, b, x, y
<1> QED
  BY <1>3, <1>4

(* The edge is priced.                                                        *)
LEMMA EdgePriced ==
  ASSUME NEW s, NEW t, Len(s) \in Nat, Len(t) \in Nat, NEW table,
         table = [p \in Cells(s, t) |-> Edge(p[1], p[2])]
  PROVE  PricedTo(s, t, table, 0)
<1> SUFFICES ASSUME NEW p \in Cells(s, t), Turn(p, Len(t)) <= 0 PROVE Priced(table, p)
  BY Zenon DEF PricedTo
<1> DEFINE x == p[1]
           y == p[2]
           cell == table[p]
           v == cell.prev
<1>1. x \in 0..Len(s) /\ y \in 0..Len(t) /\ p = <<x, y>> /\ p \in Nat \X (0..Len(t))
  BY DEF Cells
<1>2. x = 0 \/ y = 0
  <2>1. x # 0 /\ y # 0 => Turn(p, Len(t)) > 0 /\ Turn(p, Len(t)) \in Nat
    BY <1>1, TurnOf, Zenon
  <2> QED BY <2>1
<1>3. \A r \in Cells(s, t) : table[r] = Edge(r[1], r[2])
  OBVIOUS
<1>4. cell = Edge(x, y)
  BY <1>3, Zenon
<1> HIDE DEF cell
<1>5. CASE x = 0 /\ y = 0
  <2>1. cell = [op |-> "M", prev |-> <<0, 0>>, cost |-> 0]
    BY <1>4, <1>5, Zenon DEF Edge, MatchCell
  <2>2. p = Origin
    BY <1>1, <1>5, Zenon DEF Origin
  <2>3. cell.op = "M" /\ cell.cost = 0
    BY <2>1
  <2> QED BY <2>2, <2>3, Zenon DEF Priced, cell
<1>6. CASE x = 0 /\ y # 0
  <2> DEFINE r == <<0, y - 1>>
  <2>1. cell = [op |-> "X", prev |-> r, cost |-> EditCost + y]
    BY <1>4, <1>6, Zenon DEF Edge, EditCell
  <2>2. r \in Cells(s, t) /\ r[1] = 0 /\ r[2] = y - 1 /\ p # Origin /\ y \in Nat \ {0}
    BY <1>1, <1>6 DEF Cells, Origin
  <2>3. table[r] = Edge(0, y - 1)
    BY <1>3, <2>2, Zenon
  <2>4. cell.op = "X" /\ cell.prev = r /\ cell.cost = EditCost + y
    BY <2>1
  <2>5. y - 1 = 0 => table[r].op = "M" /\ table[r].cost = 0
    BY <2>3 DEF Edge, MatchCell
  <2>6. y - 1 # 0 => table[r].op = "X" /\ table[r].cost = EditCost + (y - 1)
    BY <2>3 DEF Edge, EditCell
  <2>7. cell.cost = table[r].cost + ((IF table[r].op = "M" THEN EditCost ELSE 0) + (y - r[2]))
    <3> HIDE DEF r, y
    <3> QED BY <2>2, <2>4, <2>5, <2>6 DEF EditCost
  <2>8. "X" # "M"
    OBVIOUS
  <2> HIDE DEF r
  <2> QED BY <2>2, <2>4, <2>7, <2>8, Zenon DEF Priced, Added, cell
<1>7. CASE x # 0
  <2> DEFINE r == <<x - 1, 0>>
  <2>1. cell = [op |-> "X", prev |-> r, cost |-> EditCost]
    BY <1>4, <1>7, Zenon DEF Edge, EditCell
  <2>2. r \in Cells(s, t) /\ r[1] = x - 1 /\ r[2] = 0 /\ p # Origin /\ x \in Nat \ {0} /\ y = 0
    BY <1>1, <1>2, <1>7 DEF Cells, Origin
  <2>3. table[r] = Edge(x - 1, 0)
    BY <1>3, <2>2, Zenon
  <2>4. cell.op = "X" /\ cell.prev = r /\ cell.cost = EditCost
    BY <2>1
  <2>5. x - 1 = 0 => table[r].op = "M" /\ table[r].cost = 0
    BY <2>3 DEF Edge, MatchCell
  <2>6. x - 1 # 0 => table[r].op = "X" /\ table[r].cost = EditCost
    BY <2>3 DEF Edge, EditCell
  <2>7. cell.cost = table[r].cost + ((IF table[r].op = "M" THEN EditCost ELSE 0) + (y - r[2]))
    <3> HIDE DEF r, y
    <3> QED BY <2>2, <2>4, <2>5, <2>6 DEF EditCost
  <2>8. "X" # "M"
    OBVIOUS
  <2> HIDE DEF r
  <2> QED BY <2>2, <2>4, <2>7, <2>8, Zenon DEF Priced, Added, cell
<1> QED
  BY <1>5, <1>6, <1>7

(* Filling the next cell prices it and leaves the earlier ones priced.        *)
LEMMA FilledPriced ==
  ASSUME NEW s, NEW t, NEW table, IsTable(s, t, table), Len(s) \in Nat, Len(t) \in Nat,
         NEW x \in 1..Len(s), NEW y \in 1..Len(t), PricedTo(s, t, table, Turn(<<x, y>>, Len(t)) - 1)
  PROVE  PricedTo(s, t, Filled(table, s, t, x, y), Turn(<<x, y>>, Len(t)))
<1> DEFINE cell == FilledCell(table, s, t, x, y)
           g == Filled(table, s, t, x, y)
           a == <<x, y>>
           m == Len(t)
<1>1. IsTable(s, t, g)
  BY FilledIsTable, Zenon
<1>2. a \in Cells(s, t) /\ a[1] = x /\ a[2] = y /\ a \in Nat \X (0..m) /\ a # Origin /\ x # 0 /\ y # 0
  BY DEF Cells, Origin
<1>3. g[a] = cell /\ \A p \in Cells(s, t) : p # a => g[p] = table[p]
  <2>1. table \in [Cells(s, t) -> Cell] /\ g = [table EXCEPT ![a] = cell]
    BY Zenon DEF IsTable, Filled
  <2> HIDE DEF cell, g, a
  <2> QED BY <1>2, <2>1
<1>4. ASSUME NEW p \in Cells(s, t), p # Origin
      PROVE  g[p].prev \in Cells(s, t) /\ Earlier(g[p].prev, p)
  <2> HIDE DEF g
  <2>1. g[p] \in Cell /\ Earlier(g[p].prev, p)
    BY <1>1, <1>4, Zenon DEF IsTable, Leads
  <2>2. g[p].prev \in Nat \X Nat
    BY <2>1 DEF Cell
  <2> DEFINE v == g[p].prev
  <2>3. v \in Nat \X Nat /\ Earlier(v, p)
    BY <2>1, <2>2, Zenon
  <2> HIDE DEF v
  <2>4. v \in Cells(s, t)
    BY <2>3 DEF Earlier, Cells
  <2> QED BY <2>1, <2>4, Zenon DEF v
<1>5. \A p \in Cells(s, t) : p \in Nat \X (0..m)
  BY DEF Cells
<1> HIDE DEF g, a
<1>6. Priced(g, a)
  <2> DEFINE v == cell.prev
  <2>1. v \in Cells(s, t) /\ v # a
    <3>1. v \in Cells(s, t) /\ Earlier(v, a)
      BY <1>2, <1>3, <1>4, Zenon
    <3>2. ~Earlier(a, a)
      BY <1>2 DEF Earlier
    <3> QED BY <3>1, <3>2, Zenon
  <2>2. g[v] = table[v]
    BY <1>3, <2>1, Zenon
  <2> DEFINE R == SearchRange(s, t, x, y)
             price(p) == table[p].cost + (IF table[p].op = "M" THEN EditCost ELSE 0) + (y - p[2])
             best == CHOOSE p \in R : \A r \in R : price(p) < price(r) \/ (price(p) = price(r) /\ NoLaterThan(p, r))
  <2>3. cell = IF s[x] = t[y] THEN MatchCell(<<x - 1, y - 1>>, table[<<x - 1, y - 1>>].cost)
               ELSE EditCell(best, price(best))
    BY Zenon DEF FilledCell
  <2>4. table[v] \in Cell /\ v[2] \in Nat
    BY <2>1 DEF IsTable, Cells
  <2>5. table[v].cost \in Nat
    BY <2>4 DEF Cell
  <2>6. CASE s[x] = t[y]
    <3> DEFINE w == <<x - 1, y - 1>>
               l == table[w].cost
    <3>1. cell = [op |-> "M", prev |-> w, cost |-> l]
      BY <2>3, <2>6, Zenon DEF MatchCell
    <3> HIDE DEF w, l
    <3>2. cell.op = "M" /\ cell.prev = w /\ cell.cost = l
      BY <3>1
    <3>3. cell.cost = table[v].cost
      BY <3>2, Zenon DEF l
    <3>4. cell.cost = table[v].cost + 0
      BY <2>5, <3>3
    <3> QED BY <1>2, <1>3, <2>2, <3>2, <3>4, Zenon DEF Priced, Added
  <2>7. CASE s[x] # t[y]
    <3> HIDE DEF best
    <3>1. cell = [op |-> "X", prev |-> best, cost |-> price(best)]
      BY <2>3, <2>7, Zenon DEF EditCell
    <3>2. cell.op = "X" /\ cell.prev = best /\ cell.cost = price(best) /\ "X" # "M"
      <4> HIDE DEF price
      <4> QED BY <3>1
    <3>3. cell.cost = table[v].cost + (IF table[v].op = "M" THEN EditCost ELSE 0) + (y - v[2])
      BY <3>2, Zenon
    <3>4. cell.cost = table[v].cost + ((IF table[v].op = "M" THEN EditCost ELSE 0) + (y - v[2]))
      <4> DEFINE e == IF table[v].op = "M" THEN EditCost ELSE 0
                 b == table[v].cost
                 d == y - v[2]
      <4>1. e \in Nat
        BY DEF EditCost
      <4>2. b \in Nat /\ d \in Int
        BY <2>4, <2>5
      <4>3. cell.cost = b + e + d
        BY <3>3, Zenon
      <4> HIDE DEF e, b, d
      <4>4. b + e + d = b + (e + d)
        BY <4>1, <4>2
      <4>5. cell.cost = b + (e + d)
        BY <4>3, <4>4
      <4> QED BY <4>5 DEF e, b, d
    <3> HIDE DEF cell
    <3>5. g[a] = cell /\ g[cell.prev] = table[v] /\ cell.op # "M" /\ a[2] = y
      BY <1>2, <1>3, <2>2, <3>2, Zenon
    <3>6. Added(g, a) = (IF table[v].op = "M" THEN EditCost ELSE 0) + (y - v[2])
      BY <3>5, Zenon DEF Added
    <3>7. g[a].cost = g[g[a].prev].cost + Added(g, a)
      BY <3>4, <3>5, <3>6, Zenon
    <3> QED BY <1>2, <3>7, Zenon DEF Priced
  <2> QED BY <2>6, <2>7
<1>7. ASSUME NEW p \in Cells(s, t), Turn(p, m) <= Turn(a, m) PROVE Priced(g, p)
  <2>1. CASE p = a
    BY <1>6, <2>1, Zenon
  <2>2. CASE p # a
    <3>1. Turn(p, m) # Turn(a, m) /\ Turn(p, m) \in Nat /\ Turn(a, m) \in Nat /\ Turn(a, m) > 0
      BY <1>2, <1>5, <2>2, TurnOf, TurnsApart
    <3>2. Turn(p, m) <= Turn(a, m) - 1
      BY <1>7, <3>1
    <3>3. Priced(table, p) /\ g[p] = table[p]
      BY <1>3, <2>2, <3>2, Zenon DEF PricedTo, a
    <3>4. CASE p = Origin
      BY <3>3, <3>4, Zenon DEF Priced
    <3>5. CASE p # Origin
      <4> DEFINE v == g[p].prev
      <4>1. v \in Cells(s, t) /\ Earlier(v, p)
        BY <1>4, <3>5, Zenon
      <4>2. v # a
        <5>1. SUFFICES ASSUME v = a PROVE FALSE
          OBVIOUS
        <5>2. a[1] <= p[1] /\ a[2] <= p[2] /\ p[1] \in Nat /\ p[2] \in Nat
          BY <1>5, <4>1, <5>1 DEF Earlier
        <5>3. p[1] # 0 /\ p[2] # 0
          BY <1>2, <5>2
        <5>4. Turn(a, m) < Turn(p, m)
          BY <1>2, <1>5, <4>1, <5>1, <5>3, TurnsApart, Zenon
        <5> QED BY <3>1, <3>2, <5>4
      <4>3. g[v] = table[v]
        BY <1>3, <4>1, <4>2, Zenon
      <4> QED BY <3>3, <3>5, <4>3, Zenon DEF Priced, Added
    <3> QED BY <3>4, <3>5
  <2> QED BY <2>1, <2>2
<1> QED
  BY <1>7, Zenon DEF PricedTo, g, a

(* The whole table is priced when it is filled.                               *)
LEMMA TablePriced ==
  ASSUME NEW T, NEW s \in Seq(T), NEW t \in Seq(T)
  PROVE  \A p \in Cells(s, t) : Priced(Table(s, t), p)
<1> DEFINE l == Len(s)
           m == Len(t)
           n == l * m
<1>1. l \in Nat /\ m \in Nat /\ n \in Nat
  OBVIOUS
<1>2. PICK f : FillsTable(s, t, f)
  BY <1>1, TableIs, Zenon
<1>3. /\ Table(s, t) = f[n] /\ f[0] = [p \in Cells(s, t) |-> Edge(p[1], p[2])]
      /\ \A k \in 1..n : f[k] = Filled(f[k - 1], s, t, 1 + ((k - 1) \div m), 1 + ((k - 1) % m))
  BY <1>2, Zenon DEF FillsTable, Cells
<1> HIDE DEF n
<1> DEFINE H == {k \in 0..n : IsTable(s, t, f[k]) /\ PricedTo(s, t, f[k], k)}
<1>4. 0 \in H
  <2>1. ASSUME NEW p \in Cells(s, t) PROVE Edge(p[1], p[2]) \in Cell /\ Leads(s, t, p, Edge(p[1], p[2]))
    <3>1. p[1] \in Nat /\ p[2] \in Nat /\ p = <<p[1], p[2]>>
      BY <1>1 DEF Cells
    <3> QED BY <3>1, EdgeLeads, Zenon
  <2>2. f[0] \in [Cells(s, t) -> Cell] /\ \A p \in Cells(s, t) : f[0][p] = Edge(p[1], p[2])
    BY <1>3, <2>1
  <2>3. IsTable(s, t, f[0])
    BY <2>1, <2>2, Zenon DEF IsTable
  <2>4. PricedTo(s, t, f[0], 0)
    BY <1>1, <1>3, EdgePriced, Zenon
  <2>5. 0 \in 0..n
    BY <1>1
  <2> QED BY <2>3, <2>4, <2>5, Zenon
<1>5. ASSUME NEW k \in 1..n, k - 1 \in H PROVE k \in H
  <2>1. IsTable(s, t, f[k - 1]) /\ PricedTo(s, t, f[k - 1], k - 1)
    BY <1>5, Zenon
  <2> DEFINE a == (k - 1) \div m
             b == (k - 1) % m
             x == 1 + a
             y == 1 + b
  <2>2. m # 0 /\ k - 1 \in Nat /\ k - 1 < l * m
    BY <1>1 DEF n
  <2>3. a \in 0..(l - 1) /\ b \in 0..(m - 1)
    BY <1>1, <2>2, DivWithin
  <2>4. k - 1 = m * a + b
    BY <1>1, <2>2
  <2>5. f[k] = Filled(f[k - 1], s, t, x, y)
    BY <1>3, Zenon
  <2> HIDE DEF a, b, l, m, n
  <2>6. x \in 1..l /\ y \in 1..m /\ x # 0 /\ y # 0 /\ x - 1 = a
    BY <1>1, <2>3
  <2>7. <<x, y>>[1] = x /\ <<x, y>>[2] = y
    OBVIOUS
  <2> HIDE DEF x
  <2>8. Turn(<<x, y>>, m) = (x - 1) * m + y
    BY <2>6, <2>7, Zenon DEF Turn
  <2>9. a * m + y = k
    <3>1. a * m = m * a /\ a * m \in Nat
      BY <1>1, <2>3
    <3> QED BY <2>3, <2>4, <3>1
  <2>10. Turn(<<x, y>>, m) = k
    BY <2>6, <2>8, <2>9, Zenon
  <2> HIDE DEF y
  <2>11. IsTable(s, t, f[k])
    BY <1>1, <2>1, <2>5, <2>6, FilledIsTable, Zenon DEF l, m
  <2>12. PricedTo(s, t, f[k], k)
    BY <1>1, <2>1, <2>5, <2>6, <2>10, FilledPriced, Zenon DEF l, m
  <2>13. k \in 0..n
    BY <1>1
  <2> QED BY <2>11, <2>12, <2>13, Zenon
<1>6. n \in 0..n /\ n \in Nat
  BY <1>1 DEF n
<1>7. PricedTo(s, t, f[n], n)
  <2>1. n \in H
    <3> HIDE DEF H
    <3> QED BY <1>4, <1>5, <1>6, CountUp, Zenon
  <2> QED BY <2>1, Zenon
<1>8. ASSUME NEW p \in Cells(s, t) PROVE Turn(p, m) <= n
  <2> DEFINE x == p[1]
             y == p[2]
  <2>1. x \in 0..l /\ y \in 0..m
    BY DEF Cells
  <2>2. CASE x = 0 \/ y = 0
    BY <1>1, <2>2 DEF Turn, n
  <2>3. CASE x # 0 /\ y # 0
    <3>1. Turn(p, m) = (x - 1) * m + y
      BY <2>3, Zenon DEF Turn
    <3> HIDE DEF x, y, l, m
    <3>2. PICK d \in Nat : l = x + d
      <4>1. l - x \in Nat /\ l = x + (l - x)
        BY <1>1, <2>1
      <4> QED BY <4>1
    <3>3. (x + d) * m = x * m + d * m /\ x * m \in Nat /\ d * m \in Nat /\ (x - 1) * m = x * m - m
      BY <1>1, <2>1
    <3> QED BY <1>1, <2>1, <3>1, <3>2, <3>3 DEF n
  <2> QED BY <2>2, <2>3
<1> QED
  BY <1>3, <1>7, <1>8, Zenon DEF PricedTo

(***************************************************************************)
(* Edits that are applied one after the other                              *)
(***************************************************************************)

(* The edits lead from s to t: c[k] of t is there when k of them are applied, *)
(* and what follows the last is copied.                                      *)
LeadsTo(s, t, T, edits, c) ==
  LET n == Len(edits)
      rest == Len(s) - EndsAt(edits, n)
  IN  /\ Steps(s, t, T, edits, c) /\ rest \in Nat
      /\ Copies(s, EndsAt(edits, n), t, c[n], rest) /\ Len(t) = c[n] + rest

(* Edits that turn s into t lead from s to t.                                *)
LEMMA TurnsLead ==
  ASSUME NEW T, NEW s, NEW t, NEW edits, Turns(s, t, T, edits)
  PROVE  \E c : LeadsTo(s, t, T, edits, c)
<1> DEFINE n == Len(edits)
           e == EndsAt(edits, n)
<1>1. Apart(edits) /\ Makes(s, t, T, edits, Len(s), Len(t))
  BY Zenon DEF Turns
<1>2. PICK c : /\ Steps(s, t, T, edits, c) /\ Len(s) \in Nat
               /\ e <= Len(s) /\ Len(t) = c[n] + (Len(s) - e)
               /\ Copies(s, e, t, c[n], Len(s) - e)
  BY <1>1, Zenon DEF Makes
<1>3. Len(s) - e \in Nat
  BY <1>2, Zenon DEF Copies
<1> QED
  BY <1>2, <1>3, Zenon DEF LeadsTo

(* Where recovery is when k edits are applied.                               *)
Halfway(t, edits, c, k, at, text) == at = EndsAt(edits, k) /\ text = SubSeq(t, 1, c[k])

(* Nothing is made before the first edit.                                    *)
LEMMA StartsEmpty ==
  ASSUME NEW T, NEW s, NEW t, NEW edits, NEW c, LeadsTo(s, t, T, edits, c)
  PROVE  Halfway(t, edits, c, 0, 0, <<>>)
<1>1. c[0] = 0 /\ t \in Seq(T)
  BY Zenon DEF LeadsTo, Steps
<1>2. SubSeq(t, 1, 0) = <<>>
  BY <1>1
<1>3. EndsAt(edits, 0) = 0
  BY DEF EndsAt
<1> QED
  BY <1>1, <1>2, <1>3, Zenon DEF Halfway

(* An edit puts the next part of t: what lies before it in s, and its text.   *)
LEMMA EditPuts ==
  ASSUME NEW T, NEW s, NEW t, NEW edits, NEW c, LeadsTo(s, t, T, edits, c), NEW k \in 1..Len(edits),
         NEW x, NEW text, Halfway(t, edits, c, k - 1, x, text)
  PROVE  Halfway(t, edits, c, k, edits[k].pos + edits[k].del,
                 text \o Substr(s, x, edits[k].pos - x) \o edits[k].text)
<1> DEFINE op == edits[k]
<1>1. /\ s \in Seq(T) /\ t \in Seq(T) /\ edits \in Seq(Edits(T))
      /\ c \in [0..Len(edits) -> Nat] /\ \A j \in 1..Len(edits) : Spells(s, t, edits, c, j)
  BY Zenon DEF LeadsTo, Steps
<1>2. k \in 0..Len(edits) /\ k - 1 \in 0..Len(edits) /\ k # 0 /\ Len(edits) \in Nat
  BY <1>1
<1>3. op \in Edits(T)
  BY <1>1
<1>4. /\ op.pos \in Nat /\ op.text \in Seq(T) /\ Len(op.text) \in Nat /\ EditEnd(op) = op.pos + op.del
  BY <1>3, EditTyped, Zenon
<1> DEFINE a == c[k - 1]
           d == op.pos - x
           m == Len(op.text)
<1>5. a \in Nat /\ c[k] \in Nat
  BY <1>1, <1>2
<1>6. x = EndsAt(edits, k - 1) /\ text = SubSeq(t, 1, a)
  BY Zenon DEF Halfway
<1>7. /\ x <= op.pos /\ Copies(s, x, t, a, d)
      /\ c[k] = a + d + m /\ c[k] <= Len(t) /\ op.text = SubSeq(t, a + d + 1, c[k])
  BY <1>1, <1>6, Zenon DEF Spells
<1>8. /\ x \in Nat /\ d \in Nat /\ a + d <= Len(t)
  BY <1>7, Zenon DEF Copies
<1>9. Substr(s, x, d) = SubSeq(t, a + 1, a + d)
  <2>1. SubSeq(s, x + 1, x + d) = SubSeq(t, a + 1, a + d)
    <3> HIDE DEF a, d
    <3>1. Copies(s, x, t, a, d) /\ s \in Seq(T) /\ t \in Seq(T)
      BY <1>1, <1>7
    <3>2. SameText(s, x, t, a, d)
      BY <3>1, CopiesText, Zenon
    <3> QED BY <3>2, Zenon DEF SameText
  <2> QED BY <2>1, Zenon DEF Substr
<1>10. SubSeq(t, 1, a) \o SubSeq(t, a + 1, a + d) = SubSeq(t, 1, a + d)
  BY <1>1, <1>5, <1>8, TextGrows, Zenon
<1>11. /\ SubSeq(t, 1, a + d) \o SubSeq(t, (a + d) + 1, (a + d) + m) = SubSeq(t, 1, (a + d) + m)
       /\ c[k] = (a + d) + m /\ a + d + 1 = (a + d) + 1
  <2> DEFINE b == c[k]
  <2>1. a \in Nat /\ d \in Nat /\ m \in Nat /\ b = a + d + m /\ b <= Len(t) /\ Len(t) \in Nat
    BY <1>1, <1>4, <1>5, <1>7, <1>8
  <2> HIDE DEF a, d, m, b
  <2>2. a + d \in Nat /\ (a + d) + m <= Len(t) /\ b = (a + d) + m /\ a + d + 1 = (a + d) + 1
    BY <2>1
  <2>3. SubSeq(t, 1, a + d) \o SubSeq(t, (a + d) + 1, (a + d) + m) = SubSeq(t, 1, (a + d) + m)
    BY <1>1, <2>1, <2>2, TextGrows
  <2> QED BY <2>2, <2>3, Zenon DEF b
<1>12. text \o Substr(s, x, d) \o op.text = SubSeq(t, 1, c[k])
  BY <1>6, <1>7, <1>9, <1>10, <1>11, Zenon
<1>13. EditEnd(op) = EndsAt(edits, k)
  BY <1>2, Zenon DEF EndsAt
<1> QED
  BY <1>4, <1>12, <1>13, Zenon DEF Halfway

(* What is left of s completes t.                                            *)
Completes(s, t, x, text) == text \o SubSeq(s, x + 1, Len(s)) = t

(* So recovery ends with t.                                                   *)
LEMMA RestPuts ==
  ASSUME NEW T, NEW s, NEW t, NEW edits, NEW c, LeadsTo(s, t, T, edits, c),
         NEW x, NEW text, Halfway(t, edits, c, Len(edits), x, text)
  PROVE  Completes(s, t, x, text)
<1> DEFINE n == Len(edits)
           a == c[n]
           r == Len(s) - x
<1>1. x = EndsAt(edits, n) /\ text = SubSeq(t, 1, a)
  BY Zenon DEF Halfway
<1>2. /\ s \in Seq(T) /\ t \in Seq(T) /\ edits \in Seq(Edits(T)) /\ c \in [0..n -> Nat]
      /\ r \in Nat /\ Copies(s, x, t, a, r) /\ Len(t) = a + r
  BY <1>1, Zenon DEF LeadsTo, Steps
<1>3. a \in Nat /\ x \in Nat
  BY <1>2, Zenon DEF Copies
<1>4. x + r = Len(s) /\ Len(s) \in Nat /\ a + r <= Len(t)
  BY <1>2, <1>3
<1>5. SubSeq(s, x + 1, x + r) = SubSeq(t, a + 1, a + r)
  <2> HIDE DEF a, r
  <2>1. Copies(s, x, t, a, r) /\ s \in Seq(T) /\ t \in Seq(T)
    BY <1>2
  <2>2. SameText(s, x, t, a, r)
    BY <2>1, CopiesText, Zenon
  <2> QED BY <2>2, Zenon DEF SameText
<1>6. SubSeq(t, 1, a) \o SubSeq(t, a + 1, a + r) = SubSeq(t, 1, a + r)
  BY <1>2, <1>3, <1>4, TextGrows, Zenon
<1>7. SubSeq(t, 1, Len(t)) = t
  BY <1>2
<1> QED
  BY <1>1, <1>2, <1>4, <1>5, <1>6, <1>7, Zenon DEF Completes

(***************************************************************************)
(* LineEdits: the edits of a line, found and applied                       *)
(***************************************************************************)
(***************************************************************************)
(* The cost of edits                                                       *)
(***************************************************************************)
(* The price of edits, step by step.                                          *)
LEMMA PriceIs ==
  ASSUME NEW edits, Len(edits) \in Nat
  PROVE  \E f : /\ Price(edits) = f[Len(edits)]
                /\ f[0] = 0
                /\ \A k \in 1..Len(edits) : f[k] = f[k - 1] + 3 + Len(edits[k].text)
<1> DEFINE n == Len(edits)
           First == 0
           Step(u, k) == u + 3 + Len(edits[k].text)
           Up(m, f) == f = [k \in 0..m |-> IF k = 0 THEN First ELSE Step(f[k - 1], k)]
           bad == {m \in 0..n : ~\E f : Up(m, f)}
<1>1. n \in 0..n
  OBVIOUS
<1> HIDE DEF Step, First, n
<1>2. ASSUME bad # {} PROVE FALSE
  <2>1. bad \in SUBSET Nat
    BY <1>1
  <2>2. PICK m \in bad : \A j \in bad : m <= j
    <3> HIDE DEF bad
    <3> QED BY <1>2, <2>1, LeastNatural, Zenon
  <2>3. m \in 0..n /\ ~\E f : Up(m, f)
    BY <2>2
  <2>4. m # 0
    <3>1. Up(0, [k \in 0..0 |-> First])
      OBVIOUS
    <3> QED BY <2>3, <3>1
  <2>5. m - 1 \in 0..n /\ m - 1 \notin bad
    BY <1>1, <2>2, <2>3, <2>4
  <2>6. PICK f : Up(m - 1, f)
    BY <2>5
  <2> DEFINE h == [k \in 0..m |-> IF k = m THEN Step(f[m - 1], m) ELSE f[k]]
  <2>7. \A k \in 0..(m - 1) : f[k] = IF k = 0 THEN First ELSE Step(f[k - 1], k)
    BY <2>6
  <2>8. \A k \in 0..m : h[k] = IF k = 0 THEN First ELSE Step(h[k - 1], k)
    <3> TAKE k \in 0..m
    <3>1. k \in 0..(m - 1) \/ k = m
      BY <2>3
    <3>2. k # 0 => (k - 1 \in 0..m /\ k - 1 # m /\ h[k - 1] = f[k - 1])
      BY <2>3
    <3>3. CASE k = m
      BY <2>4, <3>2, <3>3
    <3>4. CASE k # m
      <4>1. k \in 0..(m - 1) /\ h[k] = f[k]
        BY <3>1, <3>4
      <4> QED BY <2>7, <3>2, <4>1
    <3> QED BY <3>3, <3>4
  <2>9. Up(m, h)
    BY <2>8
  <2> QED BY <2>3, <2>9
<1>3. \E f : Up(n, f)
  BY <1>1, <1>2
<1> DEFINE c == CHOOSE f : Up(n, f)
<1>4. Up(n, c)
  BY <1>3
<1>5. c[0] = First /\ \A k \in 1..n : c[k] = Step(c[k - 1], k)
  <2> HIDE DEF c
  <2> QED BY <1>1, <1>4
<1>6. Price(edits) = c[n]
  BY DEF Price, Step, First, n
<1> HIDE DEF c
<1> QED
  BY <1>5, <1>6, Zenon DEF Step, First, n

(* The price is a number, and what the v-gram matcher charges is five more.   *)
LEMMA PriceNatural ==
  ASSUME NEW T, NEW edits \in Seq(Edits(T))
  PROVE  Price(edits) \in Nat /\ QgramCost(edits) = Price(edits) + 5
<1> DEFINE n == Len(edits)
           w(k) == Len(edits[k].text)
<1>1. n \in Nat /\ n \in 0..n
  OBVIOUS
<1>2. PICK f : /\ Price(edits) = f[n]
               /\ f[0] = 0
               /\ \A k \in 1..n : f[k] = f[k - 1] + 3 + w(k)
  BY <1>1, PriceIs, Zenon
<1>3. PICK g : /\ QgramCost(edits) = g[n]
               /\ g[0] = 5
               /\ \A k \in 1..n : g[k] = g[k - 1] + 3 + w(k)
  BY <1>1, QgramCostIs, Zenon
<1>4. \A k \in 1..n : w(k) \in Nat
  <2>1. \A k \in 1..n : edits[k] \in Edits(T)
    OBVIOUS
  <2> QED BY <2>1, EditTyped, Zenon
<1> DEFINE H == {k \in 0..n : f[k] \in Nat /\ g[k] = f[k] + 5}
<1> HIDE DEF n, w
<1>5. 0 \in H
  BY <1>1, <1>2, <1>3
<1>6. ASSUME NEW k \in 1..n, k - 1 \in H PROVE k \in H
  <2>1. f[k - 1] \in Nat /\ g[k - 1] = f[k - 1] + 5 /\ k \in 0..n
    BY <1>1, <1>6
  <2>2. w(k) \in Nat /\ f[k] = f[k - 1] + 3 + w(k) /\ g[k] = g[k - 1] + 3 + w(k)
    BY <1>2, <1>3, <1>4, Zenon
  <2>3. f[k] \in Nat /\ g[k] = f[k] + 5
    BY <2>1, <2>2
  <2> QED BY <2>1, <2>3
<1>7. n \in H
  <2> HIDE DEF H
  <2> QED BY <1>1, <1>5, <1>6, CountUp, Zenon
<1> QED
  BY <1>2, <1>3, <1>7, Zenon

(* No edits cost nothing.                                                     *)
LEMMA PriceNone == Price(<<>>) = 0
<1>1. Len(<<>>) = 0 /\ Len(<<>>) \in Nat
  OBVIOUS
<1> QED
  BY <1>1, PriceIs, Zenon

(* One more edit costs three and its text.                                    *)
LEMMA PriceAppend ==
  ASSUME NEW T, NEW edits \in Seq(Edits(T)), NEW op \in Edits(T)
  PROVE  Price(Append(edits, op)) = Price(edits) + 3 + Len(op.text)
<1> DEFINE n == Len(edits)
           p == Append(edits, op)
<1>1. n \in Nat /\ Len(p) = n + 1 /\ Len(p) \in Nat /\ p[n + 1] = op /\ \A k \in 1..n : p[k] = edits[k]
  BY AppendIs
<1> HIDE DEF p
<1>2. PICK f : /\ Price(edits) = f[n]
               /\ f[0] = 0
               /\ \A k \in 1..n : f[k] = f[k - 1] + 3 + Len(edits[k].text)
  BY <1>1, PriceIs, Zenon
<1>3. PICK g : /\ Price(p) = g[Len(p)]
               /\ g[0] = 0
               /\ \A k \in 1..Len(p) : g[k] = g[k - 1] + 3 + Len(p[k].text)
  BY <1>1, PriceIs, Zenon
<1> HIDE DEF n
<1> DEFINE H == {k \in 0..n : g[k] = f[k]}
<1>4. 0 \in H
  BY <1>1, <1>2, <1>3
<1>5. ASSUME NEW k \in 1..n, k - 1 \in H PROVE k \in H
  <2>1. k \in 0..n /\ k \in 1..Len(p) /\ g[k - 1] = f[k - 1]
    BY <1>1, <1>5
  <2> QED BY <1>1, <1>2, <1>3, <2>1, Zenon
<1>6. g[n] = f[n]
  <2>1. n \in 0..n
    BY <1>1
  <2>2. n \in H
    <3> HIDE DEF H
    <3> QED BY <1>1, <1>4, <1>5, <2>1, CountUp, Zenon
  <2> QED BY <2>2
<1>7. n + 1 \in 1..Len(p) /\ (n + 1) - 1 = n
  BY <1>1
<1> QED
  BY <1>1, <1>2, <1>3, <1>6, <1>7, Zenon DEF p

(* Merging one more edit.                                                     *)
LEMMA MergeAppend ==
  ASSUME NEW T, NEW edits \in Seq(T), NEW op \in T
  PROVE  MergeEdits(Append(edits, op)) = MergedWith(MergeEdits(edits), op)
<1> DEFINE n == Len(edits)
           p == Append(edits, op)
<1>1. n \in Nat /\ Len(p) = n + 1 /\ Len(p) \in Nat /\ p[n + 1] = op /\ \A k \in 1..n : p[k] = edits[k]
  BY AppendIs
<1> HIDE DEF p
<1>2. PICK f : /\ MergeEdits(edits) = f[n]
               /\ f[0] = <<>>
               /\ \A k \in 1..n : f[k] = MergedWith(f[k - 1], edits[k])
  BY <1>1, MergeEditsIs, Zenon
<1>3. PICK g : /\ MergeEdits(p) = g[Len(p)]
               /\ g[0] = <<>>
               /\ \A k \in 1..Len(p) : g[k] = MergedWith(g[k - 1], p[k])
  BY <1>1, MergeEditsIs, Zenon
<1> HIDE DEF n
<1> DEFINE H == {k \in 0..n : g[k] = f[k]}
<1>4. 0 \in H
  BY <1>1, <1>2, <1>3
<1>5. ASSUME NEW k \in 1..n, k - 1 \in H PROVE k \in H
  <2>1. k \in 0..n /\ k \in 1..Len(p) /\ g[k - 1] = f[k - 1]
    BY <1>1, <1>5
  <2> QED BY <1>1, <1>2, <1>3, <2>1, Zenon
<1>6. g[n] = f[n]
  <2>1. n \in 0..n
    BY <1>1
  <2>2. n \in H
    <3> HIDE DEF H
    <3> QED BY <1>1, <1>4, <1>5, <2>1, CountUp, Zenon
  <2> QED BY <2>2
<1>7. n + 1 \in 1..Len(p) /\ (n + 1) - 1 = n
  BY <1>1
<1> QED
  BY <1>1, <1>2, <1>3, <1>6, <1>7, Zenon DEF p

(* A sequence is its front and its last.                                      *)
LEMMA FrontLast ==
  ASSUME NEW T, NEW u \in Seq(T), u # <<>>
  PROVE  u = Append(Front(u), Last(u)) /\ Front(u) \in Seq(T) /\ Last(u) \in T
<1> DEFINE n == Len(u)
           v == Front(u)
           p == Append(v, Last(u))
<1>1. /\ n \in Nat \ {0} /\ v \in Seq(T) /\ Len(v) = n - 1 /\ (\A j \in 1..(n - 1) : v[j] = u[j])
      /\ Last(u) = u[n] /\ Last(u) \in T
  BY FrontIs, Zenon
<1>2. p \in Seq(T) /\ Len(p) = Len(v) + 1 /\ p[Len(v) + 1] = Last(u) /\ \A j \in 1..Len(v) : p[j] = v[j]
  <2> HIDE DEF v
  <2> QED BY <1>1, AppendIs
<1> HIDE DEF n, v, p
<1>3. Len(p) = n /\ \A j \in 1..n : p[j] = u[j]
  BY <1>1, <1>2
<1>4. p = u
  BY <1>2, <1>3, SeqEqual, Zenon DEF n
<1> QED
  BY <1>1, <1>4, Zenon DEF p, v

(* One more edit costs its text, and its position when it does not touch.     *)
MergePaid(u, op, r, T) ==
  /\ r \in Seq(Edits(T)) /\ r # <<>> /\ EndsAt(r, Len(r)) = EditEnd(op)
  /\ Price(r) = Price(u) + ((IF u # <<>> /\ EndsAt(u, Len(u)) = op.pos THEN 0 ELSE EditCost) + Len(op.text))

(* Merging an edit in costs so much.                                          *)
LEMMA MergedWithPaid ==
  ASSUME NEW T, NEW u \in Seq(Edits(T)), NEW op \in Edits(T)
  PROVE  MergePaid(u, op, MergedWith(u, op), T)
<1> DEFINE v == Front(u)
           a == Last(u)
           new == [pos |-> a.pos, del |-> a.del + op.del, text |-> a.text \o op.text]
           r == MergedWith(u, op)
           touch == u # <<>> /\ a.pos + a.del = op.pos
<1>1. r = IF touch THEN Append(v, new) ELSE Append(u, op)
  BY Zenon DEF MergedWith
<1>2. u # <<>> => u = Append(v, a) /\ v \in Seq(Edits(T)) /\ a \in Edits(T) /\ EndsAt(u, Len(u)) = a.pos + a.del
  <2> HAVE u # <<>>
  <2>1. u = Append(v, a) /\ v \in Seq(Edits(T)) /\ a \in Edits(T)
    BY FrontLast, Zenon
  <2>2. EndsAt(Append(v, a), Len(Append(v, a))) = EditEnd(a)
    BY <2>1, AppendEnds, Zenon
  <2> QED BY <2>1, <2>2, Zenon DEF EditEnd
<1>3. op.text \in Seq(T) /\ Len(op.text) \in Nat /\ op.pos \in Nat /\ op.del \in Nat /\ EditEnd(op) = op.pos + op.del
  BY EditTyped, Zenon
<1>4. Price(u) \in Nat /\ EditCost = 3 /\ EditCost \in Nat
  BY PriceNatural DEF EditCost
<1> DEFINE e == Len(op.text)
<1> HIDE DEF r
<1>5. CASE touch
  <2>1. v \in Seq(Edits(T)) /\ a \in Edits(T) /\ u = Append(v, a)
    BY <1>2, <1>5, Zenon
  <2>2. a.text \in Seq(T) /\ Len(a.text) \in Nat /\ a.pos \in Nat /\ a.del \in Nat
    BY <2>1, EditTyped, Zenon
  <2>3. Price(u) = Price(v) + 3 + Len(a.text) /\ Price(v) \in Nat
    BY <2>1, PriceAppend, PriceNatural, Zenon
  <2> HIDE DEF a, v
  <2>4. a.text \o op.text \in Seq(T) /\ Len(a.text \o op.text) = Len(a.text) + e /\ a.del + op.del \in Nat
    BY <1>3, <2>2
  <2>5. new \in Edits(T) /\ new.text = a.text \o op.text /\ new.pos = a.pos /\ new.del = a.del + op.del
    BY <2>2, <2>4 DEF Edits
  <2> HIDE DEF new
  <2>6. EditEnd(new) = EditEnd(op)
    <3>1. EditEnd(new) = a.pos + (a.del + op.del) /\ a.pos + a.del = op.pos
      BY <1>5, <2>5, Zenon DEF EditEnd
    <3> QED BY <1>3, <2>2, <3>1
  <2>7. r = Append(v, new)
    BY <1>1, <1>5, Zenon
  <2>8. r \in Seq(Edits(T)) /\ EndsAt(r, Len(r)) = EditEnd(op) /\ r # <<>>
    <3>1. r \in Seq(Edits(T)) /\ r # <<>>
      BY <2>1, <2>5, <2>7
    <3> QED BY <2>1, <2>5, <2>6, <2>7, <3>1, AppendEnds, Zenon
  <2>9. Price(r) = Price(v) + 3 + Len(new.text)
    BY <2>1, <2>5, <2>7, PriceAppend, Zenon
  <2>10. Price(r) = Price(u) + (0 + e)
    <3>1. Len(new.text) = Len(a.text) + e
      BY <2>4, <2>5, Zenon
    <3> DEFINE l == Len(a.text)
    <3>2. /\ e \in Nat /\ l \in Nat /\ Price(v) \in Nat /\ Price(u) = Price(v) + 3 + l
          /\ Price(r) = Price(v) + 3 + (l + e)
      BY <1>3, <2>2, <2>3, <2>9, <3>1, Zenon
    <3> HIDE DEF e, l
    <3> QED BY <3>2
  <2>11. u # <<>> /\ EndsAt(u, Len(u)) = op.pos
    BY <1>2, <1>5, Zenon DEF a
  <2> QED BY <2>8, <2>10, <2>11, Zenon DEF MergePaid, r
<1>6. CASE ~touch
  <2>1. r = Append(u, op)
    BY <1>1, <1>6, Zenon
  <2>2. r \in Seq(Edits(T)) /\ EndsAt(r, Len(r)) = EditEnd(op) /\ r # <<>>
    <3>1. r \in Seq(Edits(T)) /\ r # <<>>
      BY <2>1
    <3> QED BY <2>1, <3>1, AppendEnds, Zenon
  <2>3. Price(r) = Price(u) + 3 + e
    BY <2>1, PriceAppend, Zenon
  <2>4. Price(r) = Price(u) + (EditCost + e)
    BY <1>3, <1>4, <2>3, SMTT(40)
  <2>5. ~(u # <<>> /\ EndsAt(u, Len(u)) = op.pos)
    BY <1>2, <1>6, Zenon
  <2> QED BY <2>2, <2>4, <2>5, Zenon DEF MergePaid, r
<1> QED
  BY <1>5, <1>6

(* The merged edits on the way back from a cell cost what the cell says, and  *)
(* the last of them ends at a cell of an edit and before one of a match.      *)
Pays(T, cell, g, x) ==
  /\ g \in Seq(Edits(T)) /\ Price(g) = cell.cost
  /\ cell.op = "X" => g # <<>> /\ EndsAt(g, Len(g)) = x
  /\ cell.op = "M" => g = <<>> \/ EndsAt(g, Len(g)) < x

(* No edits merge into none.                                                  *)
LEMMA MergeNone == MergeEdits(<<>>) = <<>>
<1>1. Len(<<>>) = 0 /\ Len(<<>>) \in Nat
  OBVIOUS
<1> QED
  BY <1>1, MergeEditsIs, Zenon

(* A match on the way costs nothing.                                          *)
LEMMA PaysMatch ==
  ASSUME NEW T, NEW cell, NEW g, NEW a \in Nat, Pays(T, cell, g, a), cell.op \in {"M", "X"},
         NEW next, next.op = "M", next.cost = cell.cost
  PROVE  Pays(T, next, g, a + 1)
<1>1. g \in Seq(Edits(T)) /\ Price(g) = next.cost
  BY Zenon DEF Pays
<1>2. ASSUME g # <<>> PROVE EndsAt(g, Len(g)) < a + 1
  <2> DEFINE e == EndsAt(g, Len(g))
  <2>1. e \in Nat
    <3>1. Len(g) \in 0..Len(g)
      BY <1>1
    <3> QED BY <1>1, <3>1, EndNatural, Zenon
  <2>2. e = a \/ e < a
    BY <1>2, Zenon DEF Pays
  <2> HIDE DEF e
  <2>3. e < a + 1
    BY <2>1, <2>2
  <2> QED BY <2>3, Zenon DEF e
<1>3. next.op # "X"
  OBVIOUS
<1> QED
  BY <1>1, <1>2, <1>3, Zenon DEF Pays

(* An edit on the way costs its text, and three unless it touches the last.   *)
LEMMA PaysEdit ==
  ASSUME NEW T, NEW cell, NEW g, NEW a \in Nat, Pays(T, cell, g, a), cell.op \in {"M", "X"},
         NEW op \in Edits(T), op.pos = a, NEW x, x = EditEnd(op),
         NEW next, next.op = "X",
         next.cost = cell.cost + ((IF cell.op = "M" THEN EditCost ELSE 0) + Len(op.text))
  PROVE  Pays(T, next, MergedWith(g, op), x)
<1> DEFINE r == MergedWith(g, op)
<1>1. g \in Seq(Edits(T)) /\ Price(g) = cell.cost
  BY Zenon DEF Pays
<1>2. MergePaid(g, op, r, T)
  BY <1>1, MergedWithPaid, Zenon
<1>3. (g # <<>> /\ EndsAt(g, Len(g)) = op.pos) <=> cell.op # "M"
  <2>1. CASE cell.op = "M"
    <3>1. g # <<>> => EndsAt(g, Len(g)) < a
      BY <2>1, Zenon DEF Pays
    <3>2. ~(a < a)
      OBVIOUS
    <3> QED BY <2>1, <3>1, <3>2, Zenon
  <2>2. CASE cell.op # "M"
    <3>1. cell.op = "X"
      BY <2>2
    <3> QED BY <2>2, <3>1, Zenon DEF Pays
  <2> QED BY <2>1, <2>2
<1>4. /\ r \in Seq(Edits(T)) /\ r # <<>> /\ EndsAt(r, Len(r)) = x
      /\ Price(r) = cell.cost + ((IF cell.op = "M" THEN EditCost ELSE 0) + Len(op.text))
  BY <1>1, <1>2, <1>3, Zenon DEF MergePaid
<1>5. next.op # "M"
  OBVIOUS
<1> QED
  BY <1>4, <1>5, Zenon DEF Pays

(* The edits on the way back from a cell cost what the cell says.             *)
LEMMA BacktrackPaid ==
  ASSUME NEW T, NEW s \in Seq(T), NEW t \in Seq(T), NEW table, IsTable(s, t, table),
         \A p \in Cells(s, t) : Priced(table, p)
  PROVE  \A p \in Cells(s, t) : Pays(T, table[p], MergeEdits(Backtrack(table, t, p)), p[1])
<1>1. Len(s) \in Nat /\ Len(t) \in Nat
  OBVIOUS
<1>2. PICK f : GoesBack(s, t, table, f)
  BY <1>1, BacktrackIs, Zenon
<1>3. /\ \A p \in Cells(s, t) : Backtrack(table, t, p) = f[p]
      /\ \A p \in Cells(s, t) : f[p] = OnTheWay(table, t, f, p)
  BY <1>2, Zenon DEF GoesBack
<1>4. \A p \in Cells(s, t) : f[p] \in Seq(Edits(T)) /\ table[p] \in Cell
  <2> TAKE p \in Cells(s, t)
  <2>0. Makes(s, t, T, Backtrack(table, t, p), p[1], p[2]) /\ Backtrack(table, t, p) = f[p]
    BY <1>3, BacktrackMakes, Zenon
  <2>1. Makes(s, t, T, f[p], p[1], p[2])
    BY <2>0
  <2>2. f[p] \in Seq(Edits(T))
    BY <2>1, MakesNumbers, Zenon
  <2>3. table[p] \in Cell
    BY Zenon DEF IsTable
  <2> QED BY <2>2, <2>3
<1> DEFINE Good(p) == Pays(T, table[p], MergeEdits(f[p]), p[1])
           H == {p \in Cells(s, t) : Good(p)}
<1>5. ASSUME NEW p \in Cells(s, t), \A v \in Cells(s, t) : v[1] + v[2] < p[1] + p[2] => Good(v)
      PROVE  Good(p)
  <2> DEFINE x == p[1]
             y == p[2]
             prev == table[p].prev
             a == prev[1]
             b == prev[2]
  <2>1. x \in 0..Len(s) /\ y \in 0..Len(t) /\ p = <<x, y>>
    BY DEF Cells
  <2>2. CASE p = Origin
    <3>1. f[p] = <<>>
      BY <1>3, <2>2, Zenon DEF OnTheWay, Origin
    <3>2. MergeEdits(f[p]) = <<>> /\ Price(<<>>) = 0
      BY <3>1, MergeNone, PriceNone, Zenon
    <3>3. table[p].op = "M" /\ table[p].cost = 0
      BY <2>2, Zenon DEF Priced
    <3>4. <<>> \in Seq(Edits(T)) /\ "M" # "X"
      OBVIOUS
    <3> QED BY <3>2, <3>3, <3>4, Zenon DEF Pays
  <2>3. CASE p # Origin
    <3>1. Earlier(prev, p) /\ table[p] \in Cell /\ Leads(s, t, p, table[p])
      BY <2>3, Zenon DEF IsTable, Leads
    <3>2. prev \in Nat \X Nat /\ table[p].op \in {"M", "X"}
      BY <3>1 DEF Cell
    <3>3. /\ a \in Nat /\ b \in Nat /\ a <= x /\ b <= y /\ prev = <<a, b>>
          /\ a + b < x + y
      <4> HIDE DEF prev
      <4>1. prev[1] \in Nat /\ prev[2] \in Nat /\ prev = <<prev[1], prev[2]>>
        BY <3>2
      <4> QED BY <3>1, <4>1, Zenon DEF Earlier
    <3>4. table[p].cost = table[prev].cost + Added(table, p)
      BY <2>3, Zenon DEF Priced
    <3> HIDE DEF x, y, prev, a, b
    <3>5. prev \in Cells(s, t)
      BY <1>1, <2>1, <3>3 DEF Cells
    <3>6. Pays(T, table[prev], MergeEdits(f[prev]), a)
      <4>1. Good(prev)
        BY <1>5, <3>3, <3>5, Zenon DEF x, y, a, b
      <4> QED BY <4>1, Zenon DEF a, b
    <3>7. table[prev].op \in {"M", "X"} /\ table[prev].cost \in Nat
      <4>1. table[prev] \in Cell
        BY <1>4, <3>5, Zenon
      <4> QED BY <4>1 DEF Cell
    <3>8. CASE table[p].op = "M"
      <4>1. x > 0 /\ y > 0 /\ prev = <<x - 1, y - 1>>
        BY <2>3, <3>1, <3>8, Zenon DEF Leads, x, y, prev
      <4>2. a + 1 = x
        BY <2>1, <3>3, <4>1
      <4>3. f[p] = f[prev]
        BY <1>3, <2>3, <3>8, Zenon DEF OnTheWay, Origin, prev
      <4>4. table[p].cost = table[prev].cost
        <5>1. table[p].cost = table[prev].cost + 0
          BY <3>4, <3>8, Zenon DEF Added
        <5> QED BY <3>7, <5>1
      <4>5. Pays(T, table[p], MergeEdits(f[prev]), a + 1)
        BY <3>3, <3>6, <3>7, <3>8, <4>4, PaysMatch, Zenon
      <4> QED BY <4>2, <4>3, <4>5, Zenon DEF x
    <3>9. CASE table[p].op # "M"
      <4> DEFINE d == x - a
                 text == SubSeq(t, b + 1, y)
                 op == [pos |-> a, del |-> d, text |-> text]
      <4>1. d \in Nat /\ a + d = x /\ text \in Seq(T) /\ Len(text) = y - b
        BY <1>1, <2>1, <3>3
      <4>2. f[p] = Append(f[prev], op)
        BY <1>3, <2>3, <3>9, Zenon DEF OnTheWay, Origin, prev, a, b, x, y
      <4> HIDE DEF d, text
      <4>3. op \in Edits(T) /\ op.pos = a /\ op.text = text /\ op.del = d
        BY <3>3, <4>1 DEF Edits
      <4> HIDE DEF op
      <4>4. EditEnd(op) = x
        BY <4>1, <4>3, Zenon DEF EditEnd
      <4>5. table[p].op = "X"
        BY <3>2, <3>9
      <4>6. table[p].cost = table[prev].cost + ((IF table[prev].op = "M" THEN EditCost ELSE 0) + Len(op.text))
        <5>1. Added(table, p) = (IF table[prev].op = "M" THEN EditCost ELSE 0) + (y - b)
          BY <3>9, Zenon DEF Added, prev, b, y
        <5> QED BY <3>4, <4>1, <4>3, <5>1, Zenon
      <4>7. MergeEdits(f[p]) = MergedWith(MergeEdits(f[prev]), op)
        BY <1>4, <3>5, <4>2, <4>3, MergeAppend, Zenon
      <4>8. Pays(T, table[p], MergedWith(MergeEdits(f[prev]), op), x)
        BY <3>3, <3>6, <3>7, <4>3, <4>4, <4>5, <4>6, PaysEdit, Zenon
      <4> QED BY <4>7, <4>8, Zenon DEF x
    <3> QED BY <3>8, <3>9
  <2> QED BY <2>2, <2>3
<1>6. \A p \in Cells(s, t) : p \in H
  <2>1. ASSUME NEW p \in Cells(s, t), \A v \in Cells(s, t) : v[1] + v[2] < p[1] + p[2] => v \in H
        PROVE  p \in H
    <3>1. \A v \in Cells(s, t) : v[1] + v[2] < p[1] + p[2] => Good(v)
      BY <2>1, Zenon
    <3>2. Good(p)
      <4> HIDE DEF Good
      <4> QED BY <1>5, <3>1, Zenon
    <3> QED BY <3>2, Zenon
  <2> HIDE DEF H
  <2> QED BY <1>1, <2>1, CellsUp, Zenon
<1> QED
  BY <1>3, <1>6, Zenon

(* The cost of a substitution match is what its edits take.                   *)
LEMMA SubstitutionPaid ==
  ASSUME NEW T, NEW s \in Seq(T), NEW t \in Seq(T)
  PROVE  LET match == SubstitutionMatch(s, t)
         IN  match.cost = Price(match.ops) + (IF match.ops # <<>> /\ <<>> \in {s, t} THEN 2 ELSE 0)
<1> DEFINE table == Table(s, t)
           end == <<Len(s), Len(t)>>
           match == SubstitutionMatch(s, t)
           extra == IF match.ops # <<>> /\ <<>> \in {s, t} THEN 2 ELSE 0
<1>1. Len(s) \in Nat /\ Len(t) \in Nat
  OBVIOUS
<1>2. match = IF s = t THEN [ops |-> <<>>, cost |-> 0]
              ELSE IF s = <<>> \/ t = <<>>
              THEN [ops |-> <<[pos |-> 0, del |-> Len(s), text |-> t]>>, cost |-> EditCost + 2 + Len(t)]
              ELSE [ops |-> MergeEdits(Backtrack(table, t, end)), cost |-> table[end].cost]
  BY Zenon DEF SubstitutionMatch
<1> HIDE DEF match
<1>3. CASE s = t
  <2>1. match.ops = <<>> /\ match.cost = 0
    BY <1>2, <1>3
  <2> QED BY <2>1, PriceNone DEF match
<1>4. CASE s # t /\ (s = <<>> \/ t = <<>>)
  <2> DEFINE op == [pos |-> 0, del |-> Len(s), text |-> t]
             fee == EditCost + 2 + Len(t)
  <2>1. match = [ops |-> <<op>>, cost |-> fee]
    BY <1>2, <1>4, Zenon
  <2>2. op \in Edits(T) /\ op.text = t /\ <<>> \in Seq(Edits(T))
    BY <1>1 DEF Edits
  <2> HIDE DEF op, fee
  <2>3. match.ops = <<op>> /\ match.cost = fee /\ <<op>> = Append(<<>>, op) /\ <<op>> # <<>>
    BY <2>1
  <2>4. Price(<<op>>) = Price(<<>>) + 3 + Len(t)
    BY <2>2, <2>3, PriceAppend, Zenon
  <2>5. fee = Price(<<op>>) + 2
    BY <1>1, <2>4, PriceNone DEF fee, EditCost
  <2>6. extra = 2
    BY <1>4, <2>3
  <2> QED BY <2>3, <2>5, <2>6, Zenon DEF match
<1>5. CASE s # t /\ ~(s = <<>> \/ t = <<>>)
  <2> DEFINE merged == MergeEdits(Backtrack(table, t, end))
             fee == table[end].cost
  <2>1. match = [ops |-> merged, cost |-> fee]
    BY <1>2, <1>5, Zenon
  <2>2. end \in Cells(s, t)
    BY <1>1 DEF Cells
  <2>3. Pays(T, table[end], merged, end[1])
    <3>1. IsTable(s, t, table) /\ \A p \in Cells(s, t) : Priced(table, p)
      BY TableIsTable, TablePriced, Zenon
    <3> HIDE DEF table, end
    <3> QED BY <2>2, <3>1, BacktrackPaid, Zenon
  <2>4. Price(merged) = fee /\ merged \in Seq(Edits(T))
    BY <2>3, Zenon DEF Pays
  <2> HIDE DEF merged, fee
  <2>5. match.ops = merged /\ match.cost = fee /\ Price(merged) \in Nat
    BY <2>1, <2>4, PriceNatural
  <2>6. extra = 0
    BY <1>5
  <2>7. match.cost = Price(match.ops) + 0
    BY <2>4, <2>5
  <2> QED BY <2>6, <2>7, Zenon DEF match
<1> QED
  BY <1>3, <1>4, <1>5

(***************************************************************************)
(* Matching and recovery                                                   *)
(***************************************************************************)
(* The v-gram matcher takes a pad in a line for one of its own.               *)
Unpadded == matcher = "substitution" \/ (Plain(source) /\ Plain(target))

(* The first k of the edits are applied.                                      *)
Reached(s, t, edits, k, at, text) ==
  /\ Apart(edits) /\ k \in 0..Len(edits)
  /\ \E c : LeadsTo(s, t, LineCharacters, edits, c) /\ Halfway(t, edits, c, k, at, text)

(* On the way, and at its end.                                                *)
Following == cost \in Nat /\ Reached(source, target, ops, applied, oldPos, result)

Followed ==
  /\ Apart(ops) /\ cost \in Nat /\ applied \in 0..Len(ops)
  /\ \E c : LeadsTo(source, target, LineCharacters, ops, c)
  /\ oldPos = Len(source) /\ result = target

(* The lines, the matcher and the phase.                                      *)
OfLines ==
  /\ source \in Lines /\ target \in Lines /\ matcher \in {"qgram", "substitution"}
  /\ phase \in {"match", "recover", "done", "thrown"}

(* Nothing is found and nothing applied yet.                                  *)
Nothing == ops = <<>> /\ cost = 0 /\ applied = 0 /\ oldPos = 0 /\ result = <<>>

(* The inductive invariant: from the match on, the edits lead from the        *)
(* reference to the line, and recovery is on that way.                        *)
EditsInv ==
  /\ OfLines
  /\ phase \in {"match", "thrown"} => Nothing
  /\ phase = "recover" /\ Unpadded => Following
  /\ phase = "done" /\ Unpadded => Followed

(* A line is a sequence of characters.                                        *)
LEMMA LineTyped ==
  ASSUME NEW l \in Lines
  PROVE  l \in Seq(LineCharacters) /\ Len(l) \in Nat
<1>1. l \in Seq(LineCharacters)
  BY LinesAssumption
<1> QED
  BY <1>1

(* Edits that turn the reference into the line can be followed.              *)
LEMMA TurnsReached ==
  ASSUME NEW s, NEW t, NEW edits, Turns(s, t, LineCharacters, edits)
  PROVE  Reached(s, t, edits, 0, 0, <<>>)
<1>1. PICK c : LeadsTo(s, t, LineCharacters, edits, c)
  BY TurnsLead, Zenon
<1>2. Halfway(t, edits, c, 0, 0, <<>>)
  BY <1>1, StartsEmpty, Zenon
<1>3. edits \in Seq(Edits(LineCharacters))
  BY <1>1, Zenon DEF LeadsTo, Steps
<1>4. 0 \in 0..Len(edits)
  BY <1>3
<1> QED
  BY <1>1, <1>2, <1>4, Zenon DEF Reached, Turns

(* Applying the next edit makes the next part of the line.                    *)
LEMMA ApplyFollows ==
  ASSUME Following, ApplyEdit
  PROVE  Following'
<1> DEFINE k == applied + 1
           op == ops[k]
<1>1. /\ applied < Len(ops) /\ applied' = k /\ result' = result \o Substr(source, oldPos, op.pos - oldPos) \o op.text
      /\ oldPos' = op.pos + op.del /\ UNCHANGED <<source, target, cost, ops>>
  BY DEF ApplyEdit
<1>2. Apart(ops) /\ cost \in Nat /\ applied \in 0..Len(ops)
  BY Zenon DEF Following, Reached
<1>3. PICK c : LeadsTo(source, target, LineCharacters, ops, c) /\ Halfway(target, ops, c, applied, oldPos, result)
  BY Zenon DEF Following, Reached
<1>4. ops \in Seq(Edits(LineCharacters))
  BY <1>3, Zenon DEF LeadsTo, Steps
<1>5. k \in 1..Len(ops) /\ k \in 0..Len(ops) /\ k - 1 = applied
  BY <1>1, <1>2, <1>4
<1>6. Halfway(target, ops, c, k, oldPos', result')
  <2>1. Halfway(target, ops, c, k - 1, oldPos, result)
    BY <1>3, <1>5, Zenon
  <2>2. Halfway(target, ops, c, k, op.pos + op.del,
                result \o Substr(source, oldPos, op.pos - oldPos) \o op.text)
    BY <1>3, <1>5, <2>1, EditPuts, Zenon
  <2> QED BY <1>1, <2>2, Zenon
<1>7. source' = source /\ target' = target /\ ops' = ops /\ cost' = cost
  BY <1>1, Zenon
<1>8. LeadsTo(source', target', LineCharacters, ops', c) /\ Halfway(target', ops', c, applied', oldPos', result')
  BY <1>1, <1>3, <1>6, <1>7, Zenon
<1>9. Apart(ops') /\ cost' \in Nat /\ applied' \in 0..Len(ops')
  BY <1>1, <1>2, <1>5, <1>7, Zenon
<1> QED
  BY <1>8, <1>9, Zenon DEF Following, Reached

(* Copying the rest completes it.                                             *)
LEMMA RestFollows ==
  ASSUME Following, CopyRest
  PROVE  Followed'
<1>1. /\ applied = Len(ops) /\ result' = result \o SubSeq(source, oldPos + 1, Len(source))
      /\ oldPos' = Len(source) /\ UNCHANGED <<source, target, cost, ops, applied>>
  BY DEF CopyRest
<1>2. Apart(ops) /\ cost \in Nat /\ applied \in 0..Len(ops)
  BY Zenon DEF Following, Reached
<1>3. PICK c : LeadsTo(source, target, LineCharacters, ops, c) /\ Halfway(target, ops, c, applied, oldPos, result)
  BY Zenon DEF Following, Reached
<1>4. result' = target
  <2>1. Halfway(target, ops, c, Len(ops), oldPos, result)
    BY <1>1, <1>3, Zenon
  <2>2. Completes(source, target, oldPos, result)
    BY <1>3, <2>1, RestPuts, Zenon
  <2> QED BY <1>1, <2>2, Zenon DEF Completes
<1>5. source' = source /\ target' = target /\ ops' = ops /\ cost' = cost /\ applied' = applied
  BY <1>1, Zenon
<1>6. LeadsTo(source', target', LineCharacters, ops', c)
  BY <1>3, <1>5, Zenon
<1> QED
  BY <1>1, <1>2, <1>4, <1>5, <1>6, Zenon DEF Followed

(* The first state is one of them.                                           *)
THEOREM EditsInitially == EditsInit => EditsInv
BY DEF EditsInit, EditsInv, OfLines, Nothing, Following, Followed

(* Every step leads from such a state to such a state.                       *)
THEOREM EditsInductive == EditsInv /\ [EditsNext]_lineVars => EditsInv'
<1> SUFFICES ASSUME EditsInv, [EditsNext]_lineVars PROVE EditsInv'
  OBVIOUS
<1>1. OfLines /\ (phase \in {"match", "thrown"} => Nothing)
  BY Zenon DEF EditsInv
<1>2. source \in Seq(LineCharacters) /\ target \in Seq(LineCharacters)
  BY <1>1, LineTyped DEF OfLines
<1>3. CASE MatchQgram
  <2>1. /\ phase = "match" /\ matcher = "qgram"
        /\ UNCHANGED <<source, target, matcher, applied, oldPos, result>>
    BY <1>3 DEF MatchQgram
  <2>2. Nothing /\ OfLines' /\ (Unpadded' <=> Unpadded)
    BY <1>1, <1>3 DEF MatchQgram, OfLines, Unpadded
  <2>3. CASE NoGram
    <3>1. phase' = "thrown" /\ ops' = ops /\ cost' = cost
      BY <1>3, <2>3, Zenon DEF MatchQgram
    <3> QED BY <2>1, <2>2, <3>1 DEF EditsInv, Nothing
  <2>4. CASE ~NoGram
    <3>1. phase' = "recover" /\ ops' = QgramOplist(source, target) /\ cost' = QgramCost(ops')
      BY <1>3, <2>4, Zenon DEF MatchQgram
    <3>2. ASSUME Unpadded' PROVE Following'
      <4>1. Plain(source) /\ Plain(target)
        BY <2>1, <2>2, <3>2 DEF Unpadded
      <4>2. Turns(source, target, LineCharacters, ops')
        BY <1>2, <3>1, <4>1, QgramTurns, Zenon
      <4>3. ops' \in Seq(Edits(LineCharacters))
        BY <4>2, MakesNumbers, Zenon DEF Turns
      <4>4. cost' \in Nat
        <5>1. Price(ops') \in Nat /\ cost' = Price(ops') + 5
          BY <3>1, <4>3, PriceNatural, Zenon
        <5> QED BY <5>1
      <4>5. Reached(source, target, ops', 0, 0, <<>>)
        BY <4>2, TurnsReached, Zenon
      <4> QED BY <2>1, <2>2, <4>4, <4>5, Zenon DEF Nothing, Following
    <3> QED BY <2>2, <3>1, <3>2 DEF EditsInv
  <2> QED BY <2>3, <2>4
<1>4. CASE MatchSubstitution
  <2>1. /\ phase = "match" /\ matcher = "substitution" /\ phase' = "recover"
        /\ UNCHANGED <<source, target, matcher, applied, oldPos, result>>
        /\ ops' = SubstitutionMatch(source, target).ops /\ cost' = SubstitutionMatch(source, target).cost
    BY <1>4 DEF MatchSubstitution
  <2>2. Nothing /\ OfLines'
    BY <1>1, <2>1 DEF OfLines
  <2>3. Turns(source, target, LineCharacters, ops') /\ cost' \in Nat
    BY <1>2, <2>1, SubstitutionTurns, Zenon
  <2>4. Reached(source, target, ops', 0, 0, <<>>)
    BY <2>3, TurnsReached, Zenon
  <2>5. Following'
    BY <2>1, <2>2, <2>3, <2>4, Zenon DEF Nothing, Following
  <2> QED BY <2>1, <2>2, <2>5 DEF EditsInv
<1>5. CASE ApplyEdit
  <2>1. phase = "recover" /\ UNCHANGED <<source, target, matcher, phase, ops, cost>>
    BY <1>5 DEF ApplyEdit
  <2>2. OfLines' /\ (Unpadded' <=> Unpadded)
    BY <1>1, <2>1 DEF OfLines, Unpadded
  <2>3. ASSUME Unpadded PROVE Following'
    <3>1. Following
      BY <2>1, <2>3, Zenon DEF EditsInv
    <3> QED BY <1>1, <1>5, <3>1, ApplyFollows
  <2> QED BY <2>1, <2>2, <2>3 DEF EditsInv
<1>6. CASE CopyRest
  <2>1. phase = "recover" /\ phase' = "done" /\ UNCHANGED <<source, target, matcher, ops, cost>>
    BY <1>6 DEF CopyRest
  <2>2. OfLines' /\ (Unpadded' <=> Unpadded)
    BY <1>1, <2>1 DEF OfLines, Unpadded
  <2>3. ASSUME Unpadded PROVE Followed'
    <3>1. Following
      BY <2>1, <2>3, Zenon DEF EditsInv
    <3> QED BY <1>1, <1>6, <3>1, RestFollows
  <2> QED BY <2>1, <2>2, <2>3 DEF EditsInv
<1>7. CASE UNCHANGED lineVars
  BY <1>7 DEF lineVars, EditsInv, OfLines, Nothing, Unpadded, Following, Followed
<1>8. CASE EditsEnded
  BY <1>7, <1>8 DEF EditsEnded
<1> QED
  BY <1>3, <1>4, <1>5, <1>6, <1>7, <1>8 DEF EditsNext

(* So every state is one.                                                    *)
LEMMA EditsAlways == EditsSpec => []EditsInv
BY EditsInitially, EditsInductive, PTL DEF EditsSpec

(* The types, and how far the edits have gone in the reference.               *)
THEOREM EditsTyped == EditsSpec => [](Unpadded => EditsTypeOK)
<1>1. ASSUME EditsInv, Unpadded PROVE EditsTypeOK
  <2>1. OfLines
    BY <1>1, Zenon DEF EditsInv
  <2>2. Len(source) \in Nat
    BY <2>1, LineTyped, Zenon DEF OfLines
  <2>3. applied \in 0..Len(ops) /\ oldPos \in 0..Len(source) /\ cost \in Nat
    <3>1. CASE phase \in {"match", "thrown"}
      <4>1. Nothing
        BY <1>1, <3>1, Zenon DEF EditsInv
      <4> QED BY <2>2, <4>1 DEF Nothing
    <3>2. CASE phase = "recover"
      <4>1. Following
        BY <1>1, <3>2, Zenon DEF EditsInv
      <4>2. PICK c : Steps(source, target, LineCharacters, ops, c) /\ oldPos = EndsAt(ops, applied)
        BY <4>1, Zenon DEF Following, Reached, LeadsTo, Halfway
      <4>3. applied \in 0..Len(ops) /\ cost \in Nat
        BY <4>1, Zenon DEF Following, Reached
      <4>4. /\ ops \in Seq(Edits(LineCharacters)) /\ \A k \in 1..Len(ops) : EditEnd(ops[k]) <= Len(source)
        BY <4>2, Zenon DEF Steps, Spells
      <4>5. EndsAt(ops, applied) \in Nat
        BY <4>3, <4>4, EndNatural, Zenon
      <4>6. EndsAt(ops, applied) <= Len(source)
        <5>1. CASE applied = 0
          BY <2>2, <5>1 DEF EndsAt
        <5>2. CASE applied # 0
          <6>1. applied \in 1..Len(ops)
            BY <4>3, <5>2
          <6> QED BY <4>4, <5>2, <6>1, Zenon DEF EndsAt
        <5> QED BY <5>1, <5>2
      <4> QED BY <2>2, <4>2, <4>3, <4>5, <4>6
    <3>3. CASE phase = "done"
      <4>1. Followed
        BY <1>1, <3>3, Zenon DEF EditsInv
      <4> QED BY <2>2, <4>1 DEF Followed
    <3> QED BY <2>1, <3>1, <3>2, <3>3, Zenon DEF OfLines
  <2> QED BY <2>1, <2>3, Zenon DEF OfLines, EditsTypeOK
<1> QED
  BY <1>1, EditsAlways, PTL

(* The edits are in order, none reaches the next and none goes beyond the     *)
(* reference (EditsInOrder): what the codec's steps and recovery's substr     *)
(* rely on.                                                                  *)
THEOREM EditsAlwaysInOrder == EditsSpec => [](Unpadded => EditsInOrder)
<1>1. ASSUME EditsInv, Unpadded PROVE EditsInOrder
  <2>1. CASE phase \in {"match", "thrown"}
    <3>1. Nothing
      BY <1>1, <2>1, Zenon DEF EditsInv
    <3> QED BY <3>1 DEF Nothing, EditsInOrder
  <2>2. CASE phase \in {"recover", "done"}
    <3>1. Apart(ops) /\ \E c : LeadsTo(source, target, LineCharacters, ops, c)
      <4>1. CASE phase = "recover"
        BY <1>1, <4>1, Zenon DEF EditsInv, Following, Reached
      <4>2. CASE phase = "done"
        BY <1>1, <4>2, Zenon DEF EditsInv, Followed
      <4> QED BY <2>2, <4>1, <4>2, Zenon
    <3>2. PICK c : Steps(source, target, LineCharacters, ops, c)
      BY <3>1, Zenon DEF LeadsTo
    <3>3. /\ ops \in Seq(Edits(LineCharacters)) /\ \A k \in 1..Len(ops) : EditEnd(ops[k]) <= Len(source)
      BY <3>2, Zenon DEF Steps, Spells
    <3>4. ASSUME NEW z \in DOMAIN ops
          PROVE  /\ ops[z].del >= 0 /\ ops[z].pos >= 0 /\ ops[z].pos + ops[z].del <= Len(source)
                 /\ z < Len(ops) => ops[z].pos + ops[z].del < ops[z + 1].pos
      <4>1. z \in 1..Len(ops) /\ Len(ops) \in Nat /\ (z < Len(ops) => z \in 1..(Len(ops) - 1))
        BY <3>3
      <4>2. ops[z] \in Edits(LineCharacters)
        BY <3>3, <4>1
      <4>3. ops[z].pos \in Nat /\ ops[z].del \in Nat /\ EditEnd(ops[z]) = ops[z].pos + ops[z].del
        BY <4>2, EditTyped, Zenon
      <4>4. ops[z].pos + ops[z].del <= Len(source)
        BY <3>3, <4>1, <4>3, Zenon
      <4>5. z < Len(ops) => ops[z].pos + ops[z].del < ops[z + 1].pos
        BY <3>1, <4>1, <4>3, Zenon DEF Apart
      <4>6. ops[z].del >= 0 /\ ops[z].pos >= 0
        BY <4>3
      <4> QED BY <4>4, <4>5, <4>6, Zenon
    <3> QED BY <3>4, Zenon DEF EditsInOrder
  <2> QED BY <1>1, <2>1, <2>2 DEF EditsInv, OfLines
<1> QED
  BY <1>1, EditsAlways, PTL

(* Whatever edits the matcher chose, recovery is always at a part of the line *)
(* and ends with all of it (RecoversLine).                                   *)
THEOREM Recovered == EditsSpec => [](Unpadded => RecoversLine)
<1>1. ASSUME EditsInv, Unpadded PROVE RecoversLine
  <2>1. OfLines /\ target \in Seq(LineCharacters)
    BY <1>1, LineTyped DEF EditsInv, OfLines
  <2>2. CASE phase \in {"match", "thrown"}
    <3>1. Nothing
      BY <1>1, <2>2, Zenon DEF EditsInv
    <3> QED BY <2>1, <2>2, <3>1 DEF Nothing, RecoversLine, IsPrefix
  <2>3. CASE phase = "recover"
    <3>1. Following
      BY <1>1, <2>3, Zenon DEF EditsInv
    <3>2. PICK c : Steps(source, target, LineCharacters, ops, c) /\ result = SubSeq(target, 1, c[applied])
      BY <3>1, Zenon DEF Following, Reached, LeadsTo, Halfway
    <3>3. applied \in 0..Len(ops)
      BY <3>1, Zenon DEF Following, Reached
    <3>4. c[applied] \in Nat /\ c[applied] <= Len(target)
      <4>1. /\ c \in [0..Len(ops) -> Nat] /\ c[0] = 0 /\ \A k \in 1..Len(ops) : c[k] <= Len(target)
        BY <3>2, Zenon DEF Steps, Spells
      <4> QED BY <2>1, <3>3, <4>1
    <3>5. IsPrefix(result, target)
      <4> DEFINE a == c[applied]
      <4>1. result = SubSeq(target, 1, a) /\ a \in Nat /\ a <= Len(target)
        BY <3>2, <3>4, Zenon
      <4> HIDE DEF a
      <4>2. Len(result) = a /\ SubSeq(result, 1, a) = result
        BY <2>1, <4>1
      <4> QED BY <4>1, <4>2, Zenon DEF IsPrefix
    <3> QED BY <2>3, <3>5 DEF RecoversLine
  <2>4. CASE phase = "done"
    <3>1. Followed
      BY <1>1, <2>4, Zenon DEF EditsInv
    <3> QED BY <2>1, <3>1 DEF Followed, RecoversLine, IsPrefix
  <2> QED BY <2>1, <2>2, <2>3, <2>4 DEF OfLines
<1> QED
  BY <1>1, EditsAlways, PTL

(* The cost the compressor decides by is what the edits take in the archive   *)
(* (CostIsPaid), for the substitution matcher over every table it fills.      *)
THEOREM Paid == EditsSpec => [](Unpadded => CostIsPaid)
<1> DEFINE PInv == OfLines /\ (Unpadded => CostIsPaid)
<1>1. EditsInit => PInv
  BY DEF EditsInit, OfLines, CostIsPaid
<1>2. PInv /\ [EditsNext]_lineVars => PInv'
  <2> SUFFICES ASSUME PInv, [EditsNext]_lineVars PROVE PInv'
    OBVIOUS
  <2>1. source \in Seq(LineCharacters) /\ target \in Seq(LineCharacters)
    BY LineTyped DEF OfLines
  <2>2. CASE MatchQgram
    <3>1. /\ matcher' = "qgram" /\ source' = source /\ target' = target /\ OfLines'
          /\ phase' \in {"recover", "thrown"}
      BY <2>2 DEF MatchQgram, OfLines
    <3>2. phase' = "recover" => ops' = QgramOplist(source, target) /\ cost' = QgramCost(ops')
      BY <2>2 DEF MatchQgram
    <3>3. ASSUME phase' = "recover", Unpadded' PROVE cost' = Price(ops') + 5
      <4>1. Plain(source) /\ Plain(target)
        BY <3>1, <3>3 DEF Unpadded
      <4>2. Turns(source, target, LineCharacters, ops')
        BY <2>1, <3>2, <3>3, <4>1, QgramTurns, Zenon
      <4>3. ops' \in Seq(Edits(LineCharacters))
        BY <4>2, MakesNumbers, Zenon DEF Turns
      <4> QED BY <3>2, <3>3, <4>3, PriceNatural, Zenon
    <3>4. Unpadded' => CostIsPaid'
      BY <3>1, <3>3 DEF CostIsPaid
    <3> QED BY <3>1, <3>4
  <2>3. CASE MatchSubstitution
    <3>1. /\ matcher' = "substitution" /\ source' = source /\ target' = target /\ OfLines'
          /\ ops' = SubstitutionMatch(source, target).ops /\ cost' = SubstitutionMatch(source, target).cost
      BY <2>3 DEF MatchSubstitution, OfLines
    <3>2. cost' = Price(ops') + (IF ops' # <<>> /\ <<>> \in {source', target'} THEN 2 ELSE 0)
      BY <2>1, <3>1, SubstitutionPaid, ZenonT(40)
    <3>3. CostIsPaid'
      BY <3>1, <3>2 DEF CostIsPaid
    <3> QED BY <3>1, <3>3
  <2>4. CASE ApplyEdit \/ CopyRest
    <3>1. /\ UNCHANGED <<source, target, matcher, ops, cost>>
          /\ phase = "recover" /\ phase' \in {"recover", "done"}
      BY <2>4 DEF ApplyEdit, CopyRest
    <3>2. OfLines' /\ (Unpadded' <=> Unpadded)
      BY <3>1 DEF OfLines, Unpadded
    <3>3. CostIsPaid => CostIsPaid'
      BY <3>1 DEF CostIsPaid
    <3> QED BY <3>2, <3>3
  <2>5. CASE UNCHANGED lineVars \/ EditsEnded
    BY <2>5 DEF EditsEnded, lineVars, OfLines, Unpadded, CostIsPaid
  <2> QED BY <2>2, <2>3, <2>4, <2>5 DEF EditsNext
<1>3. PInv => (Unpadded => CostIsPaid)
  OBVIOUS
<1> QED
  BY <1>1, <1>2, <1>3, PTL DEF EditsSpec

(***************************************************************************)
(* ReferenceChoice: the window, the cache and the nearest line             *)
(***************************************************************************)
(* Recovery, edit by edit: f[k] is what the first k edits have made.          *)
LEMMA PatchedIs ==
  ASSUME NEW edits, NEW ref, Len(edits) \in Nat
  PROVE  \E f : /\ Patched(edits, ref) = f[Len(edits)].text \o SubSeq(ref, f[Len(edits)].at + 1, Len(ref))
                /\ f[0] = [text |-> <<>>, at |-> 0]
                /\ \A k \in 1..Len(edits) : f[k] = Applied(f[k - 1], edits[k], ref)
<1> DEFINE n == Len(edits)
           First == [text |-> <<>>, at |-> 0]
           Step(u, k) == Applied(u, edits[k], ref)
           Up(m, f) == f = [k \in 0..m |-> IF k = 0 THEN First ELSE Step(f[k - 1], k)]
           bad == {m \in 0..n : ~\E f : Up(m, f)}
<1>1. n \in 0..n
  OBVIOUS
<1> HIDE DEF Step, First, n
<1>2. ASSUME bad # {} PROVE FALSE
  <2>1. bad \in SUBSET Nat
    BY <1>1
  <2>2. PICK m \in bad : \A j \in bad : m <= j
    <3> HIDE DEF bad
    <3> QED BY <1>2, <2>1, LeastNatural, Zenon
  <2>3. m \in 0..n /\ ~\E f : Up(m, f)
    BY <2>2
  <2>4. m # 0
    <3>1. Up(0, [k \in 0..0 |-> First])
      OBVIOUS
    <3> QED BY <2>3, <3>1
  <2>5. m - 1 \in 0..n /\ m - 1 \notin bad
    BY <1>1, <2>2, <2>3, <2>4
  <2>6. PICK f : Up(m - 1, f)
    BY <2>5
  <2> DEFINE h == [k \in 0..m |-> IF k = m THEN Step(f[m - 1], m) ELSE f[k]]
  <2>7. \A k \in 0..(m - 1) : f[k] = IF k = 0 THEN First ELSE Step(f[k - 1], k)
    BY <2>6
  <2>8. \A k \in 0..m : h[k] = IF k = 0 THEN First ELSE Step(h[k - 1], k)
    <3> TAKE k \in 0..m
    <3>1. k \in 0..(m - 1) \/ k = m
      BY <2>3
    <3>2. k # 0 => (k - 1 \in 0..m /\ k - 1 # m /\ h[k - 1] = f[k - 1])
      BY <2>3
    <3>3. CASE k = m
      BY <2>4, <3>2, <3>3
    <3>4. CASE k # m
      <4>1. k \in 0..(m - 1) /\ h[k] = f[k]
        BY <3>1, <3>4
      <4> QED BY <2>7, <3>2, <4>1
    <3> QED BY <3>3, <3>4
  <2>9. Up(m, h)
    BY <2>8
  <2> QED BY <2>3, <2>9
<1>3. \E f : Up(n, f)
  BY <1>1, <1>2
<1> DEFINE c == CHOOSE f : Up(n, f)
<1>4. Up(n, c)
  BY <1>3
<1>5. c[0] = First /\ \A k \in 1..n : c[k] = Step(c[k - 1], k)
  <2> HIDE DEF c
  <2> QED BY <1>1, <1>4
<1>6. Patched(edits, ref) = c[n].text \o SubSeq(ref, c[n].at + 1, Len(ref))
  BY DEF Patched, Step, First, n
<1> HIDE DEF c
<1> QED
  BY <1>5, <1>6, Zenon DEF Step, First, n

(* The records decoded one by one: f[k] is the lines of the first k.          *)
LEMMA RebuiltIs ==
  ASSUME NEW recs, Len(recs) \in Nat
  PROVE  \E f : /\ Rebuilt(recs) = f[Len(recs)]
                /\ f[0] = <<>>
                /\ \A k \in 1..Len(recs) : f[k] = Restored(f[k - 1], recs[k])
<1> DEFINE n == Len(recs)
           First == <<>>
           Step(u, k) == Restored(u, recs[k])
           Up(m, f) == f = [k \in 0..m |-> IF k = 0 THEN First ELSE Step(f[k - 1], k)]
           bad == {m \in 0..n : ~\E f : Up(m, f)}
<1>1. n \in 0..n
  OBVIOUS
<1> HIDE DEF Step, First, n
<1>2. ASSUME bad # {} PROVE FALSE
  <2>1. bad \in SUBSET Nat
    BY <1>1
  <2>2. PICK m \in bad : \A j \in bad : m <= j
    <3> HIDE DEF bad
    <3> QED BY <1>2, <2>1, LeastNatural, Zenon
  <2>3. m \in 0..n /\ ~\E f : Up(m, f)
    BY <2>2
  <2>4. m # 0
    <3>1. Up(0, [k \in 0..0 |-> First])
      OBVIOUS
    <3> QED BY <2>3, <3>1
  <2>5. m - 1 \in 0..n /\ m - 1 \notin bad
    BY <1>1, <2>2, <2>3, <2>4
  <2>6. PICK f : Up(m - 1, f)
    BY <2>5
  <2> DEFINE h == [k \in 0..m |-> IF k = m THEN Step(f[m - 1], m) ELSE f[k]]
  <2>7. \A k \in 0..(m - 1) : f[k] = IF k = 0 THEN First ELSE Step(f[k - 1], k)
    BY <2>6
  <2>8. \A k \in 0..m : h[k] = IF k = 0 THEN First ELSE Step(h[k - 1], k)
    <3> TAKE k \in 0..m
    <3>1. k \in 0..(m - 1) \/ k = m
      BY <2>3
    <3>2. k # 0 => (k - 1 \in 0..m /\ k - 1 # m /\ h[k - 1] = f[k - 1])
      BY <2>3
    <3>3. CASE k = m
      BY <2>4, <3>2, <3>3
    <3>4. CASE k # m
      <4>1. k \in 0..(m - 1) /\ h[k] = f[k]
        BY <3>1, <3>4
      <4> QED BY <2>7, <3>2, <4>1
    <3> QED BY <3>3, <3>4
  <2>9. Up(m, h)
    BY <2>8
  <2> QED BY <2>3, <2>9
<1>3. \E f : Up(n, f)
  BY <1>1, <1>2
<1> DEFINE c == CHOOSE f : Up(n, f)
<1>4. Up(n, c)
  BY <1>3
<1>5. c[0] = First /\ \A k \in 1..n : c[k] = Step(c[k - 1], k)
  <2> HIDE DEF c
  <2> QED BY <1>1, <1>4
<1>6. Rebuilt(recs) = c[n]
  BY DEF Rebuilt, Step, First, n
<1> HIDE DEF c
<1> QED
  BY <1>5, <1>6, Zenon DEF Step, First, n

(* Edits that turn one line into another do so when recovery applies them.    *)
LEMMA PatchedTurns ==
  ASSUME NEW T, NEW s, NEW t, NEW edits, Turns(s, t, T, edits)
  PROVE  Patched(edits, s) = t
<1> DEFINE n == Len(edits)
<1>1. PICK c : LeadsTo(s, t, T, edits, c)
  BY TurnsLead, Zenon
<1>2. edits \in Seq(Edits(T))
  BY <1>1, Zenon DEF LeadsTo, Steps
<1>3. n \in Nat /\ n \in 0..n
  BY <1>2
<1>4. PICK f : /\ Patched(edits, s) = f[n].text \o SubSeq(s, f[n].at + 1, Len(s))
               /\ f[0] = [text |-> <<>>, at |-> 0]
               /\ \A k \in 1..n : f[k] = Applied(f[k - 1], edits[k], s)
  BY <1>3, PatchedIs, Zenon
<1> DEFINE H == {k \in 0..n : Halfway(t, edits, c, k, f[k].at, f[k].text)}
<1> HIDE DEF n
<1>5. 0 \in H
  <2>1. Halfway(t, edits, c, 0, 0, <<>>)
    BY <1>1, StartsEmpty, Zenon
  <2>2. f[0].at = 0 /\ f[0].text = <<>> /\ 0 \in 0..n
    BY <1>3, <1>4
  <2> QED BY <2>1, <2>2
<1>6. ASSUME NEW k \in 1..n, k - 1 \in H PROVE k \in H
  <2> DEFINE x == f[k - 1].at
             text == f[k - 1].text
  <2>1. Halfway(t, edits, c, k - 1, x, text) /\ k \in 0..n /\ k \in 1..Len(edits)
    BY <1>3, <1>6 DEF n
  <2>2. Halfway(t, edits, c, k, edits[k].pos + edits[k].del, text \o Substr(s, x, edits[k].pos - x) \o edits[k].text)
    <3> HIDE DEF x, text
    <3> QED BY <1>1, <2>1, EditPuts, Zenon
  <2>3. f[k].at = edits[k].pos + edits[k].del /\ f[k].text = text \o Substr(s, x, edits[k].pos - x) \o edits[k].text
    <3>1. f[k] = Applied(f[k - 1], edits[k], s)
      BY <1>4
    <3> DEFINE y == edits[k].pos + edits[k].del
               z == text \o Substr(s, x, edits[k].pos - x) \o edits[k].text
    <3>2. f[k] = [text |-> z, at |-> y]
      BY <3>1, Zenon DEF Applied
    <3> HIDE DEF y, z
    <3>3. f[k].at = y /\ f[k].text = z
      BY <3>2
    <3> QED BY <3>3, Zenon DEF y, z
  <2>4. Halfway(t, edits, c, k, f[k].at, f[k].text)
    BY <2>2, <2>3, Zenon
  <2> QED BY <2>1, <2>4
<1>7. n \in H
  <2> HIDE DEF H
  <2> QED BY <1>3, <1>5, <1>6, CountUp, Zenon
<1>8. Halfway(t, edits, c, Len(edits), f[n].at, f[n].text)
  BY <1>7 DEF n
<1>9. Completes(s, t, f[n].at, f[n].text)
  BY <1>1, <1>8, RestPuts, Zenon
<1> QED
  BY <1>4, <1>9, Zenon DEF Completes

(* One record more gives one line more.                                      *)
LEMMA RebuiltAppend ==
  ASSUME NEW T, NEW recs \in Seq(T), NEW r \in T
  PROVE  Rebuilt(Append(recs, r)) = Restored(Rebuilt(recs), r)
<1> DEFINE n == Len(recs)
           p == Append(recs, r)
<1>1. n \in Nat /\ Len(p) = n + 1 /\ Len(p) \in Nat /\ p[n + 1] = r /\ \A k \in 1..n : p[k] = recs[k]
  BY AppendIs
<1> HIDE DEF p
<1>2. PICK f : /\ Rebuilt(recs) = f[n]
               /\ f[0] = <<>>
               /\ \A k \in 1..n : f[k] = Restored(f[k - 1], recs[k])
  BY <1>1, RebuiltIs, Zenon
<1>3. PICK g : /\ Rebuilt(p) = g[Len(p)]
               /\ g[0] = <<>>
               /\ \A k \in 1..Len(p) : g[k] = Restored(g[k - 1], p[k])
  BY <1>1, RebuiltIs, Zenon
<1> HIDE DEF n
<1> DEFINE H == {k \in 0..n : g[k] = f[k]}
<1>4. 0 \in H
  BY <1>1, <1>2, <1>3
<1>5. ASSUME NEW k \in 1..n, k - 1 \in H PROVE k \in H
  <2>1. k \in 0..n /\ k \in 1..Len(p) /\ g[k - 1] = f[k - 1]
    BY <1>1, <1>5
  <2> QED BY <1>1, <1>2, <1>3, <2>1, Zenon
<1>6. g[n] = f[n]
  <2>1. n \in 0..n
    BY <1>1
  <2>2. n \in H
    <3> HIDE DEF H
    <3> QED BY <1>1, <1>4, <1>5, <2>1, CountUp, Zenon
  <2> QED BY <2>2
<1>7. n + 1 \in 1..Len(p) /\ (n + 1) - 1 = n
  BY <1>1
<1> QED
  BY <1>1, <1>2, <1>3, <1>6, <1>7, Zenon DEF p

(* No record, no line.                                                       *)
LEMMA RebuiltNone == Rebuilt(<<>>) = <<>>
<1>1. Len(<<>>) = 0 /\ Len(<<>>) \in Nat
  OBVIOUS
<1> QED
  BY <1>1, RebuiltIs, Zenon

(* The lines and the options.                                                *)
Given == input \in Seq(Seq(Characters)) /\ approx \in BOOLEAN /\ kind \in {"cosine", "minhash", "qgram"}

(* How far reading and coding have come.                                     *)
Progress ==
  /\ stage \in {"read", "compare", "done"}
  /\ fetched \in 0..Len(input) /\ block \in 0..fetched /\ Len(records) \in block..fetched
  /\ stage # "compare" => Len(records) = fetched
  /\ stage = "compare" => Len(records) < fetched

(* The window holds the last of the lines coded.                             *)
Windowed ==
  /\ q \in Seq(Seq(Characters))
  /\ Len(q) = (IF Len(records) < WindowSize THEN Len(records) ELSE WindowSize)
  /\ \A j \in 1..Len(q) : q[j] = input[(Len(records) - Len(q)) + j]

(* The search is at line i of the window, and begin is one before it.         *)
Searched == i \in 0..Len(q) /\ begin \in -1..(i - 1)

(* The records, of whatever edits; a coded one refers into the window.       *)
Recorded ==
  \E S : records \in Seq(S) /\ \A r \in S : r.method = 0 => r.begin \in 0..(WindowSize - 1)

(* The loop between two steps.                                                *)
LInv == Given /\ Progress /\ Windowed /\ Searched /\ Recorded

(* The sizes are positive.                                                    *)
LEMMA Numbers ==
  /\ WindowSize \in Nat \ {0} /\ BlockSize \in Nat \ {0} /\ Q \in Nat \ {0}
BY ChoiceAssumption, QAssumption

(* It holds at first.                                                         *)
LEMMA LInit == Init => LInv
<1> SUFFICES ASSUME Init PROVE LInv
  OBVIOUS
<1>1. /\ stage = "read" /\ fetched = 0 /\ block = 0 /\ records = <<>> /\ q = <<>> /\ i = 0 /\ begin = -1
      /\ kind \in {"cosine", "minhash", "qgram"}
  BY DEF Init
<1>2. input \in Seq(Seq(Characters)) /\ approx \in BOOLEAN
  <2>1. PICK run \in Runs : input = run.input /\ approx = run.approx
    BY DEF Init
  <2> QED BY <2>1, RunsAssumption
<1>3. Given
  BY <1>1, <1>2 DEF Given
<1>4. Len(records) = 0 /\ Len(q) = 0 /\ Len(input) \in Nat /\ records \in Seq({}) /\ q \in Seq(Seq(Characters))
  BY <1>1, <1>2
<1>5. Progress
  BY <1>1, <1>4 DEF Progress
<1>6. Windowed
  BY <1>1, <1>4, Numbers DEF Windowed
<1>7. Searched
  BY <1>1, <1>4 DEF Searched
<1>8. Recorded
  BY <1>4 DEF Recorded
<1> QED
  BY <1>3, <1>5, <1>6, <1>7, <1>8 DEF LInv

(* The line to be coded is one of the file, and so is what it is compared with. *)
LEMMA LineIs ==
  ASSUME LInv, Comparing
  PROVE  /\ Len(records) + 1 \in 1..Len(input) /\ line = input[Len(records) + 1]
         /\ line \in Seq(Characters) /\ Len(records) \in Nat /\ Len(q) \in Nat
         /\ \A j \in 1..Len(q) : /\ (Len(records) - Len(q)) + j \in 1..Len(input)
                                 /\ q[j] = input[(Len(records) - Len(q)) + j]
<1>1. input \in Seq(Seq(Characters)) /\ Len(input) \in Nat
  BY DEF LInv, Given
<1>2. fetched \in 0..Len(input) /\ block \in 0..fetched /\ Len(records) \in block..fetched /\ Len(records) < fetched
  BY DEF LInv, Progress, Comparing
<1>3. q \in Seq(Seq(Characters)) /\ Len(q) = (IF Len(records) < WindowSize THEN Len(records) ELSE WindowSize)
  BY DEF LInv, Windowed
<1>4. \A j \in 1..Len(q) : q[j] = input[(Len(records) - Len(q)) + j]
  BY DEF LInv, Windowed
<1>5. Len(records) \in Nat /\ Len(q) \in Nat /\ Len(q) <= Len(records) /\ Len(records) + 1 \in 1..Len(input)
  BY <1>1, <1>2, <1>3, Numbers
<1>6. \A j \in 1..Len(q) : (Len(records) - Len(q)) + j \in 1..Len(input)
  BY <1>1, <1>5
<1>7. line = input[Len(records) + 1]
  BY DEF line
<1>8. line \in Seq(Characters)
  BY <1>1, <1>5, <1>7
<1> QED
  BY <1>4, <1>5, <1>6, <1>7, <1>8

(* What is coded: the line itself, or the edits of the line of the window.    *)
IsRecord(r, b) ==
  \/ r.method = 1 /\ r.line = line
  \/ /\ r.method = 0 /\ r.begin = b /\ b # -1
     /\ r.ops = (IF approx THEN QgramOplist(q[b + 1], line) ELSE SubstitutionMatch(q[b + 1], line).ops)

(* The edits a line of the window is matched by.                              *)
LEMMA MatchedIs ==
  ASSUME NEW b
  PROVE  Matched(b).ops = IF approx THEN QgramOplist(q[b + 1], line) ELSE SubstitutionMatch(q[b + 1], line).ops
<1> DEFINE edits == QgramOplist(q[b + 1], line)
           sub == SubstitutionMatch(q[b + 1], line)
           found == CHOOSE y \in {[ops |-> v, cost |-> QgramCost(v)] : v \in {edits}} : TRUE
<1>1. Matched(b) = IF approx THEN found ELSE sub
  BY Zenon DEF Matched, With
<1>2. found.ops = edits
  <2> HIDE DEF edits
  <2>1. found = [ops |-> edits, cost |-> QgramCost(edits)]
    OBVIOUS
  <2> QED BY <2>1
<1> HIDE DEF found, edits, sub
<1>3. Matched(b).ops = IF approx THEN edits ELSE sub.ops
  BY <1>1, <1>2, Zenon
<1> QED
  BY <1>3, Zenon DEF edits, sub

(* The record of a line is one of the two.                                    *)
LEMMA RecordIs ==
  ASSUME NEW b
  PROVE  IsRecord(RecordAgainst(b), b)
<1> DEFINE match == Matched(b)
           coded == [method |-> 0, begin |-> b, ops |-> match.ops]
<1>1. RecordAgainst(b) = IF b = -1 THEN Raw ELSE IF match.cost > Len(line) THEN Raw ELSE coded
  BY DEF RecordAgainst, With
<1>2. IsRecord(Raw, b)
  BY DEF IsRecord, Raw
<1>3. b # -1 => IsRecord(coded, b)
  <2>1. coded.method = 0 /\ coded.begin = b /\ coded.ops = match.ops
    OBVIOUS
  <2>2. match.ops = IF approx THEN QgramOplist(q[b + 1], line) ELSE SubstitutionMatch(q[b + 1], line).ops
    BY MatchedIs, Zenon
  <2> HIDE DEF coded, match
  <2> QED BY <2>1, <2>2, Zenon DEF IsRecord
<1> QED
  BY <1>1, <1>2, <1>3, Zenon

(* The window with the line is the window of one record more.                 *)
SlidTo(w, n) ==
  /\ w \in Seq(Seq(Characters))
  /\ Len(w) = (IF n < WindowSize THEN n ELSE WindowSize)
  /\ \A j \in 1..Len(w) : w[j] = input[(n - Len(w)) + j]

(* A sequence and one more.                                                   *)
LEMMA Appended ==
  ASSUME NEW L, NEW v \in Seq(L), NEW x \in L, NEW w, w = Append(v, x)
  PROVE  w \in Seq(L) /\ Len(w) = Len(v) + 1 /\ w[Len(v) + 1] = x /\ \A j \in 1..Len(v) : w[j] = v[j]
OBVIOUS

(* The window moves by one line.                                              *)
LEMMA SlidIs ==
  ASSUME LInv, Comparing
  PROVE  SlidTo(Slid, Len(records) + 1)
<1> DEFINE n == Len(records)
           l == Len(q)
           w == Slid
           L == Seq(Characters)
<1>1. /\ n \in Nat /\ l \in Nat /\ line \in L /\ line = input[n + 1]
      /\ \A j \in 1..l : q[j] = input[(n - l) + j]
  BY LineIs, Zenon
<1>2. q \in Seq(L) /\ l = (IF n < WindowSize THEN n ELSE WindowSize)
  BY DEF LInv, Windowed
<1>3. WindowSize \in Nat \ {0}
  BY Numbers
<1> HIDE DEF n, L
<1>4. CASE l < WindowSize
  <2>1. w = Append(q, line)
    BY <1>4 DEF Slid
  <2>2. w \in Seq(L) /\ Len(w) = l + 1 /\ w[l + 1] = line /\ \A j \in 1..l : w[j] = q[j]
    BY <1>1, <1>2, <2>1, Appended
  <2>3. l = n /\ n < WindowSize
    BY <1>2, <1>3, <1>4
  <2> HIDE DEF l, w
  <2>4. \A j \in 1..Len(w) : w[j] = input[((n + 1) - Len(w)) + j]
    <3> TAKE j \in 1..Len(w)
    <3>1. ((n + 1) - Len(w)) + j = j
      BY <1>1, <2>2, <2>3
    <3>2. CASE j = n + 1
      BY <1>1, <2>2, <2>3, <3>1, <3>2
    <3>3. CASE j # n + 1
      <4>1. j \in 1..l /\ (n - l) + j = j
        BY <1>1, <2>2, <2>3, <3>3
      <4> QED BY <1>1, <2>2, <3>1, <4>1, Zenon
    <3> QED BY <3>2, <3>3
  <2>5. Len(w) = (IF n + 1 < WindowSize THEN n + 1 ELSE WindowSize)
    BY <1>1, <1>3, <2>2, <2>3
  <2> QED BY <2>2, <2>4, <2>5, Zenon DEF SlidTo, w, n, L
<1>5. CASE ~(l < WindowSize)
  <2>1. w = Append(Tail(q), line) /\ l = WindowSize /\ ~(n < WindowSize)
    BY <1>1, <1>2, <1>3, <1>5 DEF Slid
  <2>2. Tail(q) \in Seq(L) /\ Len(Tail(q)) = l - 1 /\ \A j \in 1..(l - 1) : Tail(q)[j] = q[j + 1]
    BY <1>2, <1>3, <2>1
  <2> DEFINE r == Tail(q)
  <2> HIDE DEF r
  <2>3. w \in Seq(L) /\ Len(w) = Len(r) + 1 /\ w[Len(r) + 1] = line /\ \A j \in 1..Len(r) : w[j] = r[j]
    <3>1. r \in Seq(L) /\ w = Append(r, line)
      BY <2>1, <2>2 DEF r
    <3> HIDE DEF w
    <3> QED BY <1>1, <3>1, Appended
  <2>4. Len(w) = l /\ w[l] = line /\ \A j \in 1..(l - 1) : w[j] = q[j + 1]
    <3>1. Len(r) = l - 1 /\ \A j \in 1..(l - 1) : r[j] = q[j + 1]
      BY <2>2, Zenon DEF r
    <3>2. (l - 1) + 1 = l
      BY <1>1
    <3> HIDE DEF w, l
    <3> QED BY <2>3, <3>1, <3>2
  <2> HIDE DEF l, w
  <2>5. \A j \in 1..Len(w) : w[j] = input[((n + 1) - Len(w)) + j]
    <3> TAKE j \in 1..Len(w)
    <3>1. ((n + 1) - Len(w)) + j = (n - l) + (j + 1)
      BY <1>1, <2>4
    <3>2. CASE j = l
      <4>1. (n - l) + (j + 1) = n + 1
        BY <1>1, <3>2
      <4> QED BY <1>1, <2>4, <3>1, <3>2, <4>1, Zenon
    <3>3. CASE j # l
      <4>1. j \in 1..(l - 1) /\ j + 1 \in 1..l
        BY <1>1, <2>4, <3>3
      <4> QED BY <1>1, <2>4, <3>1, <4>1, Zenon
    <3> QED BY <3>2, <3>3
  <2>6. Len(w) = (IF n + 1 < WindowSize THEN n + 1 ELSE WindowSize)
    BY <1>1, <1>3, <2>1, <2>4
  <2> QED BY <2>3, <2>5, <2>6, Zenon DEF SlidTo, w, n, L
<1> QED
  BY <1>4, <1>5

(* Every step keeps it.                                                       *)
LEMMA LStep == LInv /\ [Next]_vars => LInv'
<1> SUFFICES ASSUME LInv, [Next]_vars PROVE LInv'
  OBVIOUS
<1>1. input \in Seq(Seq(Characters)) /\ Len(input) \in Nat /\ approx \in BOOLEAN
  BY DEF LInv, Given
<1>2. /\ stage \in {"read", "compare", "done"}
      /\ fetched \in 0..Len(input) /\ block \in 0..fetched /\ Len(records) \in block..fetched
      /\ stage # "compare" => Len(records) = fetched
      /\ stage = "compare" => Len(records) < fetched
  BY DEF LInv, Progress
<1>3. Windowed /\ Searched /\ Recorded
  BY DEF LInv
<1>4. CASE ReadBlock
  <2>1. /\ stage = "read" /\ block' = fetched /\ fetched' = Min({fetched + BlockSize, Len(input)})
        /\ stage' = IF fetched' = fetched THEN "done" ELSE "compare"
        /\ UNCHANGED <<input, kind, approx, records, q, i, begin>>
    BY <1>4 DEF ReadBlock, options
  <2>2. fetched' = (IF fetched + BlockSize <= Len(input) THEN fetched + BlockSize ELSE Len(input))
    <3>1. fetched + BlockSize \in Int /\ Len(input) \in Int
      BY <1>1, <1>2, Numbers
    <3> QED BY <2>1, <3>1, OfTwo, Zenon
  <2>3. Given'
    BY <2>1 DEF LInv, Given
  <2>4. Progress'
    <3>1. fetched' \in fetched..Len(input) /\ block' \in 0..fetched' /\ Len(records) = fetched
      BY <1>1, <1>2, <2>1, <2>2, Numbers
    <3>2. stage' \in {"read", "compare", "done"} /\ (stage' # "compare" => fetched' = fetched)
          /\ (stage' = "compare" => fetched' # fetched)
      BY <2>1
    <3>3. fetched' \in 0..Len(input) /\ Len(records) \in block'..fetched'
      BY <1>2, <2>1, <3>1
    <3>4. stage' = "compare" => Len(records) < fetched'
      BY <1>2, <3>1, <3>2
    <3> QED BY <2>1, <3>1, <3>2, <3>3, <3>4 DEF Progress
  <2>5. Windowed' /\ Searched' /\ Recorded'
    BY <1>3, <2>1 DEF Windowed, Searched, Recorded
  <2> QED BY <2>3, <2>4, <2>5 DEF LInv
<1>5. CASE Compare
  <2>1. /\ i < Len(q) /\ i' = i + 1
        /\ UNCHANGED <<input, kind, approx, stage, fetched, block, records, q>>
    BY <1>5 DEF Compare, options
  <2>2. begin' = begin \/ begin' = i
    BY <1>5, Zenon DEF Compare
  <2>3. Given' /\ Progress' /\ Windowed' /\ Recorded'
    BY <1>3, <2>1 DEF LInv, Given, Progress, Windowed, Recorded
  <2>4. Searched'
    <3>1. i \in 0..Len(q) /\ begin \in -1..(i - 1) /\ Len(q) \in Nat /\ q' = q
      BY <1>3, <2>1 DEF Searched, Windowed
    <3>2. i' \in 0..Len(q) /\ begin' \in -1..(i' - 1)
      BY <2>1, <2>2, <3>1
    <3> QED BY <3>1, <3>2 DEF Searched
  <2> QED BY <2>3, <2>4 DEF LInv
<1>6. CASE Choose
  <2>1. /\ Comparing /\ i = Len(q) /\ q' = Slid /\ i' = 0 /\ begin' = -1
        /\ stage' = IF Len(records') = fetched THEN "read" ELSE "compare"
        /\ UNCHANGED <<input, kind, approx, fetched, block>>
    BY <1>6 DEF Choose, options
  <2>2. \E b \in {begin, -1} : records' = Append(records, RecordAgainst(b))
    BY <1>6, Zenon DEF Choose
  <2>3. PICK b \in {begin, -1} : records' = Append(records, RecordAgainst(b))
    BY <2>2
  <2> DEFINE r == RecordAgainst(b)
  <2>4. PICK S : records \in Seq(S) /\ \A x \in S : x.method = 0 => x.begin \in 0..(WindowSize - 1)
    BY <1>3 DEF Recorded
  <2>5. records \in Seq(S \cup {r}) /\ r \in S \cup {r}
    BY <2>4
  <2>6. Len(records) \in Nat /\ records' \in Seq(S \cup {r}) /\ Len(records') = Len(records) + 1
    BY <2>3, <2>5, AppendIs, Zenon
  <2>7. r.method = 0 => r.begin \in 0..(WindowSize - 1)
    <3>1. r.method = 0 => r.begin = b /\ b # -1
      <4>1. 0 # 1
        OBVIOUS
      <4>2. IsRecord(r, b)
        BY RecordIs, Zenon
      <4> HIDE DEF r
      <4> QED BY <4>1, <4>2, Zenon DEF IsRecord
    <3>2. begin \in -1..(Len(q) - 1) /\ Len(q) \in Nat /\ Len(q) <= WindowSize
      <4>1. Len(records) \in Nat /\ Len(q) = (IF Len(records) < WindowSize THEN Len(records) ELSE WindowSize)
        BY <1>3, <2>6 DEF Windowed
      <4>2. begin \in -1..(Len(q) - 1)
        BY <1>3, <2>1 DEF Searched
      <4> QED BY <4>1, <4>2, Numbers
    <3>3. b # -1 => b \in 0..(WindowSize - 1)
      BY <2>3, <3>2, Numbers
    <3> HIDE DEF r
    <3> QED BY <3>1, <3>3, Zenon
  <2>8. Recorded'
    <3>1. \A x \in S \cup {r} : x.method = 0 => x.begin \in 0..(WindowSize - 1)
      <4> HIDE DEF r
      <4> QED BY <2>4, <2>7
    <3> HIDE DEF r
    <3> QED BY <2>6, <3>1, Zenon DEF Recorded
  <2> HIDE DEF r
  <2>9. Given'
    BY <2>1 DEF LInv, Given
  <2>10. Progress'
    <3>1. stage = "compare" /\ Len(records) < fetched
      BY <2>1 DEF Comparing
    <3>2. Len(records') \in block..fetched
      BY <1>2, <2>6, <3>1
    <3>3. stage' \in {"read", "compare"} /\ (stage' # "compare" => Len(records') = fetched)
          /\ (stage' = "compare" => Len(records') # fetched)
      BY <2>1
    <3>4. stage' = "compare" => Len(records') < fetched
      BY <1>2, <3>2, <3>3
    <3> QED BY <1>2, <2>1, <3>2, <3>3, <3>4 DEF Progress
  <2>11. Windowed'
    <3>1. SlidTo(q', Len(records'))
      <4>1. SlidTo(Slid, Len(records) + 1)
        BY <2>1, SlidIs
      <4> QED BY <2>1, <2>6, <4>1, Zenon
    <3>2. input' = input
      BY <2>1
    <3> QED BY <3>1, <3>2, Zenon DEF SlidTo, Windowed
  <2>12. Searched'
    <3>1. Len(q') \in Nat
      BY <2>11 DEF Windowed
    <3> QED BY <2>1, <3>1 DEF Searched
  <2> QED BY <2>8, <2>9, <2>10, <2>11, <2>12 DEF LInv
<1>7. CASE Ended \/ UNCHANGED vars
  <2>1. UNCHANGED vars
    BY <1>7 DEF Ended
  <2>2. UNCHANGED <<input, kind, approx, stage, fetched, block, records, q, i, begin>>
    BY <2>1 DEF vars, options
  <2> QED BY <1>3, <2>2 DEF LInv, Given, Progress, Windowed, Searched, Recorded
<1> QED
  BY <1>4, <1>5, <1>6, <1>7 DEF Next

(* The premise of the q-gram chosen: no line holds a character that pads.    *)
PlainLines == approx => \A k \in DOMAIN input : Plain(input[k])

(* The lines that have their records.                                        *)
Coded == SubSeq(input, 1, Len(records))

(* One line more is coded.                                                    *)
LEMMA CodedIs ==
  ASSUME LInv, Comparing
  PROVE  /\ Coded \in Seq(Seq(Characters)) /\ Len(Coded) = Len(records)
         /\ \A j \in 1..Len(records) : Coded[j] = input[j]
         /\ SubSeq(input, 1, Len(records) + 1) = Append(Coded, line)
<1> DEFINE n == Len(records)
           L == Seq(Characters)
<1>1. n \in Nat /\ line \in L /\ line = input[n + 1] /\ n + 1 \in 1..Len(input)
  BY LineIs, Zenon
<1>2. input \in Seq(L)
  BY DEF LInv, Given
<1> HIDE DEF n, L
<1>3. Len(input) \in Nat
  BY <1>2
<1>4. Coded = SubSeq(input, 1, n)
  BY DEF Coded, n
<1>5. Coded \in Seq(L) /\ Len(Coded) = n /\ \A j \in 1..n : Coded[j] = input[j]
  BY <1>1, <1>2, <1>3, <1>4
<1> DEFINE u == SubSeq(input, 1, n + 1)
           v == Append(Coded, line)
<1>6. u \in Seq(L) /\ Len(u) = n + 1 /\ \A j \in 1..(n + 1) : u[j] = input[j]
  BY <1>1, <1>2, <1>3
<1>7. v \in Seq(L) /\ Len(v) = n + 1 /\ v[n + 1] = line /\ \A j \in 1..n : v[j] = Coded[j]
  BY <1>1, <1>5, Appended
<1>8. u = v
  <2> HIDE DEF u, v
  <2>1. \A j \in 1..(n + 1) : u[j] = v[j]
    <3> TAKE j \in 1..(n + 1)
    <3>1. j = n + 1 \/ j \in 1..n
      BY <1>1
    <3> QED BY <1>1, <1>5, <1>6, <1>7, <3>1, Zenon
  <2> QED BY <1>1, <1>6, <1>7, <2>1
<1> QED
  BY <1>5, <1>8, Zenon DEF n, L

(* What a record refers to is where the decompressor looks for it.           *)
Refers(b) == Coded[Max({0, Len(Coded) - WindowSize}) + b + 1] = q[b + 1]

(* So the decompressor finds the line the edits were made for.                *)
LEMMA ReferenceIs ==
  ASSUME LInv, Comparing, NEW b \in 0..(Len(q) - 1)
  PROVE  /\ Refers(b) /\ q[b + 1] \in Seq(Characters) /\ line \in Seq(Characters)
         /\ PlainLines /\ approx => Plain(q[b + 1]) /\ Plain(line)
<1> DEFINE n == Len(records)
           l == Len(q)
           L == Seq(Characters)
<1>1. /\ n \in Nat /\ l \in Nat /\ line \in L /\ line = input[n + 1] /\ n + 1 \in 1..Len(input)
      /\ \A j \in 1..l : (n - l) + j \in 1..Len(input) /\ q[j] = input[(n - l) + j]
  BY LineIs, Zenon
<1>2. q \in Seq(L) /\ l = (IF n < WindowSize THEN n ELSE WindowSize)
  BY DEF LInv, Windowed
<1>3. Len(Coded) = n /\ \A j \in 1..n : Coded[j] = input[j]
  BY CodedIs, Zenon
<1>4. input \in Seq(L)
  BY DEF LInv, Given
<1>5. WindowSize \in Nat \ {0}
  BY Numbers
<1> HIDE DEF n, L, l
<1>6. b \in Nat /\ b + 1 \in 1..l
  BY <1>1 DEF l
<1>7. (n - l) + (b + 1) \in 1..Len(input) /\ q[b + 1] = input[(n - l) + (b + 1)]
  BY <1>1, <1>6, Zenon
<1>8. Max({0, n - WindowSize}) = n - l
  <2>1. 0 \in Int /\ n - WindowSize \in Int
    BY <1>1, <1>5
  <2>2. Max({0, n - WindowSize}) = (IF 0 >= n - WindowSize THEN 0 ELSE n - WindowSize)
    BY <2>1, OfTwo, Zenon
  <2> HIDE DEF Max
  <2>3. (IF 0 >= n - WindowSize THEN 0 ELSE n - WindowSize) = n - l
    <3>1. n \in Nat /\ WindowSize \in Nat /\ (n < WindowSize => l = n) /\ (~(n < WindowSize) => l = WindowSize)
      BY <1>1, <1>2, <1>5, Zenon
    <3> QED BY <3>1
  <2> QED BY <2>2, <2>3
<1>9. Refers(b)
  <2>1. (n - l) + b + 1 = (n - l) + (b + 1) /\ (n - l) + (b + 1) \in 1..n
    BY <1>1, <1>2, <1>5, <1>6
  <2>2. Coded[(n - l) + b + 1] = q[b + 1]
    BY <1>3, <1>7, <2>1, Zenon
  <2> QED BY <1>3, <1>8, <2>2, Zenon DEF Refers
<1>10. q[b + 1] \in L
  BY <1>2, <1>6 DEF l
<1>11. DOMAIN input = 1..Len(input)
  BY <1>4
<1>12. PlainLines /\ approx => Plain(q[b + 1]) /\ Plain(line)
  BY <1>1, <1>7, <1>11, Zenon DEF PlainLines
<1> QED
  BY <1>1, <1>9, <1>10, <1>12, Zenon DEF L

(* The record of the line, whichever line of the window it refers to, gives   *)
(* back the line.                                                            *)
LEMMA RestoredIs ==
  ASSUME LInv, Comparing, PlainLines, NEW b \in {begin, -1}
  PROVE  Restored(Coded, RecordAgainst(b)) = Append(Coded, line)
<1> DEFINE r == RecordAgainst(b)
           L == Seq(Characters)
           s == q[b + 1]
           ref == Coded[Max({0, Len(Coded) - WindowSize}) + r.begin + 1]
<1>1. IsRecord(r, b)
  BY RecordIs, Zenon
<1> HIDE DEF r
<1>2. Restored(Coded, r) = Append(Coded, IF r.method = 1 THEN r.line ELSE Patched(r.ops, ref))
  BY Zenon DEF Restored
<1> DEFINE edited == Patched(r.ops, ref)
           back == IF r.method = 1 THEN r.line ELSE edited
<1>6. Restored(Coded, r) = Append(Coded, back)
  BY <1>2, Zenon
<1> HIDE DEF edited, back, ref
<1> SUFFICES Restored(Coded, r) = Append(Coded, line)
  BY Zenon DEF r
<1>3. CASE r.method = 1 /\ r.line = line
  <2>1. back = line
    BY <1>3 DEF back
  <2> QED BY <1>6, <2>1, Zenon
<1>4. CASE /\ r.method = 0 /\ r.begin = b /\ b # -1
           /\ r.ops = (IF approx THEN QgramOplist(q[b + 1], line) ELSE SubstitutionMatch(q[b + 1], line).ops)
  <2>1. b \in 0..(Len(q) - 1)
    <3>1. begin \in -1..(i - 1) /\ i \in 0..Len(q)
      BY DEF LInv, Searched
    <3>2. Len(q) \in Nat
      BY LineIs, Zenon
    <3> QED BY <1>4, <3>1, <3>2
  <2>2. Refers(b) /\ s \in L /\ line \in L /\ (approx => Plain(s) /\ Plain(line))
    BY <2>1, ReferenceIs, Zenon
  <2>3. ref = s
    BY <1>4, <2>2, Zenon DEF Refers, ref
  <2>4. Turns(s, line, Characters, r.ops)
    <3> HIDE DEF s
    <3>1. CASE approx
      <4>1. r.ops = QgramOplist(s, line)
        BY <1>4, <3>1, Zenon DEF s
      <4> QED BY <2>2, <3>1, <4>1, QgramTurns, Zenon
    <3>2. CASE ~approx
      <4>1. r.ops = SubstitutionMatch(s, line).ops
        BY <1>4, <3>2, Zenon DEF s
      <4> QED BY <2>2, <4>1, SubstitutionTurns, Zenon
    <3> QED BY <3>1, <3>2, Zenon
  <2>5. Patched(r.ops, ref) = line
    <3> HIDE DEF s, ref
    <3> QED BY <2>3, <2>4, PatchedTurns, Zenon
  <2>6. back = line
    <3>1. edited = line
      BY <2>5, Zenon DEF edited
    <3>2. r.method = 0
      BY <1>4
    <3>3. r.method # 1
      BY <3>2
    <3> QED BY <3>1, <3>3, Zenon DEF back
  <2> QED BY <1>6, <2>6, Zenon
<1> QED
  <2> HIDE DEF L, s
  <2> QED BY <1>1, <1>3, <1>4, Zenon DEF IsRecord

(* Without records there are no lines.                                        *)
LEMMA RebuildsInit == Init => RecordsRebuildLines
<1> SUFFICES ASSUME Init PROVE RecordsRebuildLines
  OBVIOUS
<1>1. records = <<>>
  BY DEF Init
<1>2. LInv
  BY LInit
<1>3. input \in Seq(Seq(Characters))
  BY <1>2 DEF LInv, Given
<1>4. SubSeq(input, 1, Len(records)) = <<>>
  BY <1>1, <1>3
<1> QED
  BY <1>1, <1>4, RebuiltNone, Zenon DEF RecordsRebuildLines

(* Every step keeps the lines and their records in accord.                    *)
LEMMA RebuildsStep ==
  ASSUME LInv, PlainLines, RecordsRebuildLines, [Next]_vars
  PROVE  RecordsRebuildLines'
<1>1. CASE UNCHANGED <<input, records>>
  BY <1>1, Zenon DEF RecordsRebuildLines
<1>2. CASE Choose
  <2>1. Comparing /\ input' = input
    BY <1>2 DEF Choose, options
  <2>2. PICK b \in {begin, -1} : records' = Append(records, RecordAgainst(b))
    <3>1. \E b \in {begin, -1} : records' = Append(records, RecordAgainst(b))
      BY <1>2, Zenon DEF Choose
    <3> QED BY <3>1
  <2> DEFINE r == RecordAgainst(b)
  <2>3. Restored(Coded, r) = Append(Coded, line)
    BY <2>1, RestoredIs, Zenon
  <2>4. PICK S : records \in Seq(S)
    BY DEF LInv, Recorded
  <2> HIDE DEF r
  <2>5. records \in Seq(S \cup {r}) /\ r \in S \cup {r} /\ records' = Append(records, r)
    BY <2>2, <2>4 DEF r
  <2>6. Len(records') = Len(records) + 1
    BY <2>5, AppendIs, Zenon
  <2>7. Rebuilt(records') = Restored(Rebuilt(records), r)
    BY <2>5, RebuiltAppend, Zenon
  <2>8. Rebuilt(records) = Coded
    BY Zenon DEF RecordsRebuildLines, Coded
  <2>9. SubSeq(input, 1, Len(records) + 1) = Append(Coded, line)
    BY <2>1, CodedIs, Zenon
  <2> QED BY <2>1, <2>3, <2>6, <2>7, <2>8, <2>9, Zenon DEF RecordsRebuildLines
<1>3. ReadBlock \/ Compare \/ Ended \/ UNCHANGED vars => UNCHANGED <<input, records>>
  BY DEF ReadBlock, Compare, Ended, vars, options
<1> QED
  BY <1>1, <1>2, <1>3, Zenon DEF Next

(* It always holds.                                                           *)
LEMMA Always == Spec => []LInv
<1>1. Init => LInv
  BY LInit
<1>2. LInv /\ [Next]_vars => LInv'
  BY LStep
<1> QED
  BY <1>1, <1>2, PTL DEF Spec

(* It says more than the types.                                               *)
LEMMA LTyped == LInv => TypeOK
<1> SUFFICES ASSUME LInv PROVE TypeOK
  OBVIOUS
<1>1. /\ stage \in {"read", "compare", "done"}
      /\ fetched \in 0..Len(input) /\ block \in 0..fetched /\ Len(records) \in block..fetched
  BY DEF LInv, Progress
<1>2. i \in 0..Len(q) /\ begin \in -1..(i - 1)
  BY DEF LInv, Searched
<1>3. Len(q) <= WindowSize
  <2>1. q \in Seq(Seq(Characters)) /\ Len(q) = (IF Len(records) < WindowSize THEN Len(records) ELSE WindowSize)
    BY DEF LInv, Windowed
  <2>2. Len(q) \in Nat /\ Len(input) \in Nat
    BY <2>1 DEF LInv, Given
  <2>3. Len(records) \in Int
    BY <1>1, <2>2
  <2> QED BY <2>1, <2>3, Numbers
<1>4. \A r \in ToSet(records) : r.method = 0 => r.begin \in 0..(WindowSize - 1)
  <2>1. PICK S : records \in Seq(S) /\ \A r \in S : r.method = 0 => r.begin \in 0..(WindowSize - 1)
    BY DEF LInv, Recorded
  <2>2. ToSet(records) \subseteq S
    BY <2>1 DEF ToSet
  <2> QED BY <2>1, <2>2, Zenon
<1> QED
  BY <1>1, <1>2, <1>3, <1>4 DEF TypeOK

(* The distance loop keeps its bounds: the lines read, the block and the
   records in order, the window no longer than window_size, the search within
   the window and every coded record's begin a place of a full window
   (main_encoding_compress), whatever the files and the sizes. *)
THEOREM Typed == Spec => []TypeOK
<1>1. LInv => TypeOK
  BY LTyped
<1> QED
  BY <1>1, Always, PTL

(* With the records.                                                          *)
RebuildInv == LInv /\ (PlainLines => RecordsRebuildLines)

(* No step changes the file.                                                  *)
LEMMA SamePlain == [Next]_vars => PlainLines' = PlainLines
<1> SUFFICES ASSUME [Next]_vars PROVE PlainLines' = PlainLines
  OBVIOUS
<1>1. input' = input /\ approx' = approx
  BY DEF Next, ReadBlock, Compare, Choose, Ended, vars, options
<1> QED
  BY <1>1, Zenon DEF PlainLines

(* For every file, every window and block size, every distance and
   threshold, and whichever line of the window the search chooses: what the
   decompressor makes of the records is the lines they were made of, with the
   substitution chosen for all lines, with the q-gram chosen for lines that
   hold neither of its pad characters. *)
THEOREM RecordsRebuild == Spec => [](PlainLines => RecordsRebuildLines)
<1>1. Init => RebuildInv
  BY LInit, RebuildsInit DEF RebuildInv
<1>2. RebuildInv /\ [Next]_vars => RebuildInv'
  <2> SUFFICES ASSUME RebuildInv, [Next]_vars PROVE RebuildInv'
    OBVIOUS
  <2>1. LInv /\ LInv'
    BY LStep, Zenon DEF RebuildInv
  <2>2. PlainLines' => RecordsRebuildLines'
    <3> SUFFICES ASSUME PlainLines' PROVE RecordsRebuildLines'
      OBVIOUS
    <3>1. PlainLines
      BY SamePlain, Zenon
    <3>2. RecordsRebuildLines
      BY <3>1, Zenon DEF RebuildInv
    <3> QED BY <2>1, <3>1, <3>2, RebuildsStep, Zenon
  <2> QED BY <2>1, <2>2, Zenon DEF RebuildInv
<1>3. RebuildInv => (PlainLines => RecordsRebuildLines)
  BY Zenon DEF RebuildInv
<1> QED
  BY <1>1, <1>2, <1>3, PTL DEF Spec

(* A line the cache may know.                                                *)
OfBlock(str) == \E j \in Max({1, block - WindowSize + 1})..fetched : input[j] = str

(* Both lines of a comparison are lines of the block or of the window before. *)
LEMMA ComparedOfBlock ==
  ASSUME LInv, Comparing, i < Len(q)
  PROVE  OfBlock(q[i + 1]) /\ OfBlock(line)
<1> DEFINE n == Len(records)
           l == Len(q)
           lo == Max({1, block - WindowSize + 1})
<1>1. /\ n \in Nat /\ l \in Nat /\ line = input[n + 1]
      /\ \A j \in 1..l : q[j] = input[(n - l) + j]
  BY LineIs, Zenon
<1>2. l = (IF n < WindowSize THEN n ELSE WindowSize) /\ WindowSize \in Nat
  BY Numbers DEF LInv, Windowed
<1>3. Len(input) \in Nat
  BY DEF LInv, Given
<1>4. i \in 0..l
  BY DEF LInv, Searched
<1>5. fetched \in 0..Len(input) /\ block \in 0..fetched /\ n \in block..fetched /\ n < fetched
  BY DEF LInv, Progress, Comparing
<1>6. fetched \in Nat /\ block \in Nat /\ n >= block /\ n < fetched
  BY <1>1, <1>3, <1>5
<1>7. lo = (IF 1 >= block - WindowSize + 1 THEN 1 ELSE block - WindowSize + 1)
  <2>1. 1 \in Int /\ block - WindowSize + 1 \in Int
    BY <1>2, <1>6
  <2> QED BY <2>1, OfTwo, Zenon
<1>8. i < l
  OBVIOUS
<1> HIDE DEF n, l, lo
<1>9. i \in Nat /\ i + 1 \in 1..l
  BY <1>1, <1>4, <1>8
<1>10. n + 1 \in lo..fetched
  BY <1>1, <1>2, <1>6, <1>7
<1>11. (n - l) + (i + 1) \in lo..fetched
  BY <1>1, <1>2, <1>6, <1>7, <1>9
<1>12. q[i + 1] = input[(n - l) + (i + 1)]
  BY <1>1, <1>9, Zenon
<1> QED
  BY <1>1, <1>10, <1>11, <1>12, Zenon DEF OfBlock, lo

(* At first nothing is cached.                                                *)
LEMMA CacheInit == Init => CacheOfBlock
<1> SUFFICES ASSUME Init PROVE CacheOfBlock
  OBVIOUS
<1>1. cache = [str \in {} |-> <<>>]
  BY DEF Init
<1>2. DOMAIN cache = {}
  BY <1>1
<1> QED
  BY <1>2 DEF CacheOfBlock

(* What a comparison adds is right and of the block.                          *)
LEMMA CacheStep ==
  ASSUME LInv, CacheOfBlock, [Next]_vars
  PROVE  CacheOfBlock'
<1>1. CASE ReadBlock
  <2>1. cache' = [s \in {} |-> <<>>]
    BY <1>1 DEF ReadBlock
  <2>2. DOMAIN cache' = {}
    BY <2>1
  <2> QED BY <2>2 DEF CacheOfBlock
<1>2. CASE UNCHANGED <<input, fetched, block, cache>>
  <2>1. cache' = cache /\ input' = input /\ fetched' = fetched /\ block' = block
    BY <1>2
  <2> QED BY <2>1, Zenon DEF CacheOfBlock
<1>3. CASE Compare
  <2>1. Comparing /\ i < Len(q) /\ input' = input /\ fetched' = fetched /\ block' = block
    BY <1>3 DEF Compare, options
  <2>2. cache' = Remembered(cache, q[i + 1], line) \/ cache' = cache
    BY <1>3, Zenon DEF Compare
  <2>3. CASE cache' = cache
    BY <1>2, <2>1, <2>3
  <2>4. CASE cache' = Remembered(cache, q[i + 1], line)
    <3> DEFINE s == q[i + 1]
               t == line
               D == DOMAIN cache \cup {s, t}
    <3>1. OfBlock(s) /\ OfBlock(t)
      BY <2>1, ComparedOfBlock, Zenon
    <3>2. \A str \in DOMAIN cache : cache[str] = Signature(str) /\ OfBlock(str)
      BY Zenon DEF CacheOfBlock, OfBlock
    <3> HIDE DEF s, t
    <3>3. cache' = [str \in D |-> Known(cache, str)]
      BY <2>4, Zenon DEF Remembered, s, t
    <3>4. DOMAIN cache' = D /\ \A str \in D : cache'[str] = Known(cache, str)
      BY <3>3
    <3>5. \A str \in D : Known(cache, str) = Signature(str)
      BY <3>2, Zenon DEF Known
    <3>6. \A str \in D : OfBlock(str)
      BY <3>1, <3>2, Zenon
    <3>7. \A str \in DOMAIN cache' : cache'[str] = Signature(str) /\ OfBlock(str)
      <4> HIDE DEF D
      <4> QED BY <3>4, <3>5, <3>6, Zenon
    <3> QED BY <2>1, <3>7, Zenon DEF CacheOfBlock, OfBlock
  <2> QED BY <2>2, <2>3, <2>4, Zenon
<1>4. Choose \/ Ended \/ UNCHANGED vars => UNCHANGED <<input, fetched, block, cache>>
  BY DEF Choose, Ended, vars, options
<1> QED
  BY <1>1, <1>2, <1>3, <1>4, Zenon DEF Next

(* With the cache.                                                            *)
CacheInv == LInv /\ CacheOfBlock

(* signature_cache holds signatures only of lines of the block and of the
   window before it, and holds for each the signature computed afresh: a
   signature that is cached is never stale, and the cache never outgrows the
   block, for all files and sizes. *)
THEOREM Cached == Spec => []CacheOfBlock
<1>1. Init => CacheInv
  BY LInit, CacheInit DEF CacheInv
<1>2. CacheInv /\ [Next]_vars => CacheInv'
  BY LStep, CacheStep, Zenon DEF CacheInv
<1>3. CacheInv => CacheOfBlock
  BY Zenon DEF CacheInv
<1> QED
  BY <1>1, <1>2, <1>3, PTL DEF Spec

(* A distance of signatures or grams: a fraction, rounded one way only.       *)
IsFraction(f) == f.num \in Nat /\ f.den \in Nat \ {0} /\ f.exact = <<>>

(* Multiplying keeps an order.                                                *)
LEMMA TimesLess ==
  ASSUME NEW a \in Int, NEW b \in Int, NEW c \in Nat \ {0}
  PROVE  (a < b => a * c < b * c) /\ (a <= b => a * c <= b * c)
OBVIOUS

(* Factors in another order.                                                  *)
LEMMA Products ==
  ASSUME NEW a \in Int, NEW b \in Int, NEW c \in Int
  PROVE  a * b \in Int /\ (a * b) * c = (a * c) * b
OBVIOUS

(* Fractions are in order when their products are.                            *)
LEMMA NotNearer ==
  ASSUME NEW a \in Int, NEW ad \in Nat \ {0}, NEW b \in Int, NEW bd \in Nat \ {0},
         NEW c \in Int, NEW cd \in Nat \ {0}, b * cd < c * bd, a * bd <= b * ad
  PROVE  a * cd < c * ad
<1>1. (a * bd) * cd <= (b * ad) * cd
  <2>1. a * bd \in Int /\ b * ad \in Int
    BY Products
  <2> QED BY <2>1, TimesLess
<1>2. (b * cd) * ad < (c * bd) * ad
  <2>1. b * cd \in Int /\ c * bd \in Int
    BY Products
  <2> QED BY <2>1, TimesLess
<1>3. (b * ad) * cd = (b * cd) * ad /\ (a * bd) * cd = (a * cd) * bd /\ (c * bd) * ad = (c * ad) * bd
  BY Products
<1> DEFINE u == a * cd
           v == c * ad
<1>4. u \in Int /\ v \in Int
  BY Products
<1>5. u * bd < v * bd
  <2>1. (a * bd) * cd \in Int /\ (b * ad) * cd \in Int /\ (c * bd) * ad \in Int
    OBVIOUS
  <2> QED BY <1>1, <1>2, <1>3, <2>1
<1> HIDE DEF u, v
<1>6. u < v
  <2>1. v <= u => v * bd <= u * bd
    BY <1>4, TimesLess
  <2>2. u * bd \in Int /\ v * bd \in Int
    BY <1>4, Products
  <2> QED BY <1>4, <1>5, <2>1, <2>2
<1> QED
  BY <1>6 DEF u, v

(* Nothing that is not nearer than one fraction is as near as one below it.   *)
LEMMA BelowIsNearer ==
  ASSUME NEW a, NEW b, NEW c, IsFraction(a), IsFraction(b), IsFraction(c), Lower(b, c), ~Lower(a, c)
  PROVE  ~Lower(a, b) /\ ~Identical(a, b)
<1> DEFINE an == a.num
           ad == a.den
           bn == b.num
           bd == b.den
           cn == c.num
           cd == c.den
<1>1. /\ an \in Int /\ ad \in Nat \ {0} /\ bn \in Int /\ bd \in Nat \ {0} /\ cn \in Int /\ cd \in Nat \ {0}
      /\ bn * cd < cn * bd /\ ~(an * cd < cn * ad)
  BY DEF IsFraction, Lower
<1> HIDE DEF an, ad, bn, bd, cn, cd
<1>2. ~(an * bd <= bn * ad)
  BY <1>1, NotNearer
<1>3. an * bd \in Int /\ bn * ad \in Int
  BY <1>1, Products
<1>4. ~(an * bd < bn * ad) /\ an * bd # bn * ad
  BY <1>2, <1>3
<1> QED
  BY <1>4, Zenon DEF Lower, Identical, Equal, an, ad, bn, bd

(* Fractions compare one way only.                                           *)
LEMMA OneWay ==
  ASSUME NEW a, NEW b, IsFraction(a), IsFraction(b), NEW x \in FoundLower(a, b)
  PROVE  x = Lower(a, b)
<1>1. Equal(a, b) => Identical(a, b)
  BY Zenon DEF IsFraction, Identical
<1>2. FoundLower(a, b) = {Lower(a, b)} \cup {}
  BY <1>1, Zenon DEF FoundLower
<1> QED
  BY <1>2, Zenon

(* Nought and one are fractions.                                              *)
LEMMA UnitIs == IsFraction(Unit) /\ IsFraction(Zero) /\ 1 \in Nat
BY DEF IsFraction, Unit, Zero, Fraction

(* So is any other.                                                           *)
LEMMA FractionIs ==
  ASSUME NEW n \in Nat, NEW d \in Nat \ {0}
  PROVE  IsFraction(Fraction(n, d))
BY DEF IsFraction, Fraction

(* What the chosen emits, when nothing is known of the lines.                *)
Drafts(T) == [pos : Int, del : Int, text : Seq(T)]

(* A stretch within the second line.                                         *)
Within(u, t) == u.xBegin \in Int /\ u.xEnd \in Int /\ u.yBegin \in 0..Len(t) /\ u.yEnd \in -1..(Len(t) - 1)

(* Every stretch is.                                                          *)
LEMMA StretchWithin ==
  ASSUME NEW s, NEW t, Len(s) \in Nat, Len(t) \in Nat, NEW r \in MatchRuns(s, t)
  PROVE  Within(Stretch(r, s, t), t)
<1> DEFINE x == r.first.x
           y == r.first.y
           u == Stretch(r, s, t)
<1>1. r.first \in Match(s, t)
  BY DEF MatchRuns
<1>2. x \in Nat /\ y \in Nat /\ y < Len(t) + (Q - 1)
  BY <1>1, MatchIs, Zenon DEF SameGram
<1>3. PICK n \in Nat : r.last.x = r.first.x + n /\ r.last.y = r.first.y + n
  BY DEF MatchRuns
<1>4. StretchOf(u, s, t, x, y, n)
  BY <1>3, StretchIs, Zenon
<1> HIDE DEF x, y, u
<1>5. /\ u.xBegin = (IF 0 >= x - (Q - 1) THEN 0 ELSE x - (Q - 1))
      /\ u.yBegin = (IF 0 >= y - (Q - 1) THEN 0 ELSE y - (Q - 1))
      /\ u.xEnd = (IF x + n <= Len(s) - 1 THEN x + n ELSE Len(s) - 1)
      /\ u.yEnd = (IF y + n <= Len(t) - 1 THEN y + n ELSE Len(t) - 1)
  BY <1>4, Zenon DEF StretchOf
<1> DEFINE b == u.yBegin
           e == u.yEnd
<1>6. u.xBegin \in Int /\ u.xEnd \in Int
  BY <1>2, <1>5, QAssumption
<1>7. b \in 0..Len(t) /\ e \in -1..(Len(t) - 1)
  <2>1. /\ b = (IF 0 >= y - (Q - 1) THEN 0 ELSE y - (Q - 1))
        /\ e = (IF y + n <= Len(t) - 1 THEN y + n ELSE Len(t) - 1)
    BY <1>5, Zenon
  <2> HIDE DEF b, e
  <2> QED BY <1>2, <2>1, QAssumption
<1> QED
  BY <1>6, <1>7, Zenon DEF Within, u

(* A part of a line is text, also when it is empty.                          *)
LEMMA PartOf ==
  ASSUME NEW T, NEW t \in Seq(T), NEW a \in Nat \ {0}, NEW b \in Int, b <= Len(t)
  PROVE  SubSeq(t, a, b) \in Seq(T)
<1>1. CASE a <= b
  BY <1>1
<1>2. CASE b < a
  BY <1>2
<1> QED
  BY <1>1, <1>2

(* The edit between two stretches.                                            *)
LEMMA BetweenDrafts ==
  ASSUME NEW T, NEW t \in Seq(T), NEW pre, NEW next, Within(pre, t), Within(next, t)
  PROVE  Between(pre, next, t) \in Seq(Drafts(T))
<1> DEFINE x == pre.xEnd + 1
           d == next.xBegin - pre.xEnd - 1
           a == pre.yEnd + 1
           m == next.yBegin - pre.yEnd - 1
           text == Substr(t, a, m)
           op == [pos |-> x, del |-> d, text |-> text]
<1>1. Between(pre, next, t) = IF next.xBegin = 0 /\ next.yBegin = 0 THEN <<>> ELSE <<op>>
  BY Zenon DEF Between
<1>2. x \in Int /\ d \in Int
  BY DEF Within
<1>3. a \in Nat /\ m \in Int /\ a + m <= Len(t) /\ a + 1 \in Nat \ {0} /\ a + m \in Int
  <2> DEFINE e == pre.yEnd
             b == next.yBegin
  <2>1. e \in -1..(Len(t) - 1) /\ b \in 0..Len(t) /\ a = e + 1 /\ m = b - e - 1
    BY Zenon DEF Within
  <2>2. Len(t) \in Nat
    OBVIOUS
  <2> HIDE DEF e, b, a, m
  <2> QED BY <2>1, <2>2
<1>4. text \in Seq(T)
  <2> HIDE DEF a, m
  <2> QED BY <1>3, PartOf, Zenon DEF Substr
<1> HIDE DEF x, d, text
<1>5. op \in Drafts(T)
  BY <1>2, <1>4 DEF Drafts
<1> HIDE DEF op
<1>6. <<op>> \in Seq(Drafts(T)) /\ <<>> \in Seq(Drafts(T))
  BY <1>5
<1> QED
  BY <1>1, <1>6, Zenon

(* The edit behind the last.                                                  *)
LEMMA AfterDrafts ==
  ASSUME NEW T, NEW s \in Seq(T), NEW t \in Seq(T), NEW pre, Within(pre, t)
  PROVE  After(pre, s, t) \in Seq(Drafts(T))
<1> DEFINE x == pre.xEnd + 1
           d == Len(s) - pre.xEnd - 1
           text == SubSeq(t, pre.yEnd + 2, Len(t))
           op == [pos |-> x, del |-> d, text |-> text]
<1>1. After(pre, s, t) = IF Len(s) = pre.xEnd + 1 /\ Len(t) = pre.yEnd + 1 THEN <<>> ELSE <<op>>
  BY Zenon DEF After
<1>2. x \in Int /\ d \in Int
  BY DEF Within
<1>3. pre.yEnd + 2 \in Nat \ {0} /\ Len(t) \in Int /\ Len(t) <= Len(t)
  BY DEF Within
<1>4. text \in Seq(T)
  BY <1>3, PartOf, Zenon
<1> HIDE DEF x, d, text
<1>5. op \in Drafts(T)
  BY <1>2, <1>4 DEF Drafts
<1> HIDE DEF op
<1>6. <<op>> \in Seq(Drafts(T)) /\ <<>> \in Seq(Drafts(T))
  BY <1>5
<1> QED
  BY <1>1, <1>6, Zenon

(* Sequences of sequences, put together.                                      *)
LEMMA FlattenTyped ==
  ASSUME NEW S, NEW seqs, Len(seqs) \in Nat, seqs = <<>> \/ Len(seqs) # 0,
         \A k \in 1..Len(seqs) : seqs[k] \in Seq(S)
  PROVE  FlattenSeq(seqs) \in Seq(S)
<1> DEFINE n == Len(seqs)
<1>1. CASE n = 0
  <2>1. FlattenSeq(seqs) = <<>>
    BY <1>1 DEF FlattenSeq
  <2> QED BY <2>1
<1>2. CASE n # 0
  <2>1. n \in Nat \ {0}
    BY <1>2
  <2>2. PICK f : /\ FlattenSeq(seqs) = f[n]
                 /\ f[1] = seqs[1]
                 /\ \A k \in 2..n : f[k] = f[k - 1] \o seqs[k]
    BY <2>1, FlattenIs, Zenon
  <2> DEFINE H == {k \in 0..n : k = 0 \/ f[k] \in Seq(S)}
  <2>3. 0 \in H
    OBVIOUS
  <2>4. ASSUME NEW k \in 1..n, k - 1 \in H PROVE k \in H
    <3>1. k \in 0..n /\ seqs[k] \in Seq(S)
      OBVIOUS
    <3>2. CASE k = 1
      BY <2>2, <3>1, <3>2
    <3>3. CASE k # 1
      <4>1. k \in 2..n /\ k - 1 # 0
        BY <3>3
      <4>2. f[k - 1] \in Seq(S) /\ f[k] = f[k - 1] \o seqs[k]
        BY <2>2, <2>4, <4>1
      <4>3. f[k] \in Seq(S)
        BY <3>1, <4>2
      <4> QED BY <3>1, <4>3
    <3> QED BY <3>2, <3>3
  <2>5. n \in H
    <3>1. n \in Nat /\ n \in 0..n
      BY <2>1
    <3> HIDE DEF H, n
    <3> QED BY <2>3, <2>4, <3>1, CountUp, Zenon
  <2>6. f[n] \in Seq(S)
    BY <2>1, <2>5
  <2> QED BY <2>2, <2>6, Zenon
<1> QED
  BY <1>1, <1>2

(* All the edits of the chosen.                                              *)
LEMMA OplistDrafts ==
  ASSUME NEW T, NEW s \in Seq(T), NEW t \in Seq(T)
  PROVE  QgramOplist(s, t) \in Seq(Drafts(T))
<1> DEFINE runs == MergedRuns(QgramMatches(s, t))
           n == Len(runs)
           st == [k \in 1..n |-> Stretch(runs[k], s, t)]
           pre(k) == IF k = 1 THEN NoStretch ELSE st[k - 1]
           pieces == [k \in 1..n |-> Between(pre(k), st[k], t)]
<1>1. QgramOplist(s, t) = FlattenSeq(pieces) \o After(pre(n + 1), s, t)
  BY Zenon DEF QgramOplist
<1>2. runs \in Seq(MatchRuns(s, t))
  BY MergedRunsAre, ReverseAscending, Zenon
<1>3. Len(s) \in Nat /\ Len(t) \in Nat
  OBVIOUS
<1> HIDE DEF runs
<1>4. /\ n \in Nat /\ Len(pieces) = n /\ (pieces = <<>> \/ n # 0)
      /\ \A k \in 1..n : runs[k] \in MatchRuns(s, t) /\ st[k] = Stretch(runs[k], s, t)
  BY <1>2
<1>5. \A k \in 1..n : pieces[k] = Between(pre(k), st[k], t)
  BY Zenon
<1> HIDE DEF st, pieces, n
<1>6. \A k \in 1..n : Within(st[k], t)
  BY <1>3, <1>4, StretchWithin, Zenon
<1>7. Within(NoStretch, t)
  BY <1>3 DEF Within, NoStretch
<1>8. \A k \in 1..(n + 1) : Within(pre(k), t)
  <2> TAKE k \in 1..(n + 1)
  <2>1. k = 1 \/ k - 1 \in 1..n
    BY <1>4
  <2> QED BY <1>6, <1>7, <2>1, Zenon
<1>9. \A k \in 1..n : k \in 1..(n + 1)
  BY <1>4
<1> HIDE DEF pre
<1>10. \A k \in 1..n : pieces[k] \in Seq(Drafts(T))
  BY <1>5, <1>6, <1>8, <1>9, BetweenDrafts, Zenon
<1>11. FlattenSeq(pieces) \in Seq(Drafts(T))
  BY <1>4, <1>10, FlattenTyped, Zenon
<1>12. n + 1 \in 1..(n + 1)
  BY <1>4
<1>13. After(pre(n + 1), s, t) \in Seq(Drafts(T))
  BY <1>8, <1>12, AfterDrafts, Zenon
<1> DEFINE u == FlattenSeq(pieces)
           v == After(pre(n + 1), s, t)
<1> HIDE DEF u, v
<1>14. u \o v \in Seq(Drafts(T))
  <2>1. u \in Seq(Drafts(T)) /\ v \in Seq(Drafts(T))
    BY <1>11, <1>13 DEF u, v
  <2> QED BY <2>1
<1> QED
  BY <1>1, <1>14, Zenon DEF u, v

(* Their price is a number.                                                    *)
LEMMA DraftsCost ==
  ASSUME NEW T, NEW es \in Seq(Drafts(T))
  PROVE  QgramCost(es) \in Nat
<1> DEFINE n == Len(es)
<1>1. n \in Nat /\ n \in 0..n
  OBVIOUS
<1>2. PICK f : /\ QgramCost(es) = f[n]
               /\ f[0] = 5
               /\ \A k \in 1..n : f[k] = f[k - 1] + 3 + Len(es[k].text)
  BY <1>1, QgramCostIs, Zenon
<1>3. \A k \in 1..n : Len(es[k].text) \in Nat
  <2> TAKE k \in 1..n
  <2>1. es[k] \in Drafts(T)
    OBVIOUS
  <2>2. es[k].text \in Seq(T)
    BY <2>1 DEF Drafts
  <2> DEFINE w == es[k].text
  <2> HIDE DEF w
  <2>3. w \in Seq(T)
    BY <2>2 DEF w
  <2>4. Len(w) \in Nat
    BY <2>3
  <2> QED BY <2>4, Zenon DEF w
<1> DEFINE H == {k \in 0..n : f[k] \in Nat}
<1> HIDE DEF n
<1>4. 0 \in H
  BY <1>1, <1>2
<1>5. ASSUME NEW k \in 1..n, k - 1 \in H PROVE k \in H
  <2> DEFINE w == Len(es[k].text)
  <2>1. w \in Nat
    BY <1>3, Zenon
  <2>2. f[k] = f[k - 1] + 3 + w
    BY <1>2, Zenon
  <2> HIDE DEF w
  <2>3. f[k - 1] \in Nat /\ k \in 0..n
    BY <1>1, <1>5
  <2>4. f[k] \in Nat
    BY <2>1, <2>2, <2>3
  <2> QED BY <2>3, <2>4
<1>6. n \in H
  <2> HIDE DEF H
  <2> QED BY <1>1, <1>4, <1>5, CountUp, Zenon
<1> QED
  BY <1>2, <1>6, Zenon

(* The distance with nothing cached.                                         *)
DistanceIs(s, t) == Distance(s, t, [x \in {} |-> <<>>])

(* What the cache holds makes no difference.                                 *)
LEMMA CacheIsFresh ==
  ASSUME CacheOfBlock, NEW s, NEW t
  PROVE  Distance(s, t, cache) = DistanceIs(s, t)
<1> DEFINE none == [x \in {} |-> <<>>]
<1>1. Known(cache, s) = Signature(s) /\ Known(cache, t) = Signature(t)
  BY Zenon DEF CacheOfBlock, Known
<1>2. DOMAIN none = {}
  OBVIOUS
<1> HIDE DEF none
<1>3. s \notin DOMAIN none /\ t \notin DOMAIN none
  BY <1>2
<1>4. Known(none, s) = Signature(s) /\ Known(none, t) = Signature(t)
  BY <1>3, Zenon DEF Known
<1>5. MinHash(s, t, cache) = MinHash(s, t, none)
  BY <1>1, <1>4, Zenon DEF MinHash
<1> QED
  BY <1>5, Zenon DEF Distance, DistanceIs, none

(* The distance of two signatures is a fraction.                              *)
LEMMA MinHashTyped ==
  ASSUME NEW s, NEW t, NEW cached
  PROVE  IsFraction(MinHash(s, t, cached))
<1> DEFINE D == DOMAIN Coefficients
           differ == {k \in D : Known(cached, s)[k] # Known(cached, t)[k]}
           n == Cardinality(differ)
           d == Len(Coefficients)
<1>1. D = 1..d /\ d \in Nat \ {0}
  BY ChoiceAssumption
<1>2. n \in Nat
  <2>1. 1 \in Int /\ d \in Int
    BY <1>1
  <2>2. IsFiniteSet(1..d)
    BY <2>1, FS_Interval, Zenon
  <2>3. differ \subseteq D
    OBVIOUS
  <2> HIDE DEF differ, D
  <2>4. IsFiniteSet(differ)
    BY <1>1, <2>2, <2>3, FS_Subset, Zenon
  <2> QED BY <2>4, FS_CardinalityType, Zenon
<1>3. MinHash(s, t, cached) = IF s = t THEN Zero ELSE IF ~NeedsSignatures(s, t) THEN Unit ELSE Fraction(n, d)
  BY Zenon DEF MinHash
<1> HIDE DEF n, d
<1>4. IsFraction(Fraction(n, d))
  BY <1>1, <1>2, FractionIs, Zenon
<1> QED
  BY <1>3, <1>4, UnitIs, Zenon

(* So is the price of the edits per character.                                 *)
LEMMA GramsTyped ==
  ASSUME NEW T, NEW s \in Seq(T), NEW t \in Seq(T)
  PROVE  IsFraction(QgramDistance(s, t))
<1> DEFINE price == QgramCost(QgramOplist(s, t))
           longer == Max({Len(s), Len(t)})
<1>1. QgramDistance(s, t) = IF longer = 0 \/ price >= longer THEN Unit ELSE Fraction(price, longer)
  BY DEF QgramDistance, With
<1>2. price \in Nat
  BY OplistDrafts, DraftsCost, Zenon
<1>3. longer \in Nat
  <2>1. Len(s) \in Nat /\ Len(t) \in Nat
    OBVIOUS
  <2>2. Len(s) \in Int /\ Len(t) \in Int
    BY <2>1
  <2>3. longer = (IF Len(s) >= Len(t) THEN Len(s) ELSE Len(t))
    BY <2>2, OfTwo, Zenon
  <2> HIDE DEF longer
  <2> QED BY <2>1, <2>3
<1> HIDE DEF price, longer
<1>4. longer # 0 => IsFraction(Fraction(price, longer))
  <2>1. longer # 0 => longer \in Nat \ {0}
    BY <1>3
  <2> QED BY <1>2, <2>1, FractionIs, Zenon
<1> QED
  BY <1>1, <1>4, UnitIs, Zenon

(* So is the distance in use, unless it is the cosine.                        *)
LEMMA DistanceTyped ==
  ASSUME kind \in {"cosine", "minhash", "qgram"}, kind # "cosine", NEW T, NEW s \in Seq(T), NEW t \in Seq(T)
  PROVE  IsFraction(DistanceIs(s, t))
<1> DEFINE none == [x \in {} |-> <<>>]
<1>1. CASE kind = "minhash"
  <2>1. kind # "cosine" /\ kind # "qgram"
    BY <1>1
  <2>2. DistanceIs(s, t) = MinHash(s, t, none)
    BY <1>1, <2>1 DEF DistanceIs, Distance
  <2> HIDE DEF none
  <2> QED BY <2>2, MinHashTyped, Zenon
<1>2. CASE kind = "qgram"
  <2>1. kind # "cosine" /\ kind # "minhash"
    BY <1>2
  <2>2. DistanceIs(s, t) = QgramDistance(s, t)
    BY <1>2, <2>1 DEF DistanceIs, Distance
  <2> QED BY <2>2, GramsTyped, Zenon
<1> QED
  BY <1>1, <1>2

(* The search, between lines and during one: what it has found is the first   *)
(* of the nearest.                                                           *)
Nearest ==
  /\ \A j \in 0..(i - 1) : ~Lower(Fresh(j), nearest)
  /\ IF begin = -1 THEN nearest = Unit
     ELSE nearest = Fresh(begin) /\ \A j \in 0..(begin - 1) : ~Identical(Fresh(j), nearest)

(* Between lines.                                                             *)
Resting == i = 0 /\ begin = -1 /\ nearest = Unit

(* The search, at any time.                                                   *)
Found == (stage # "compare" => Resting) /\ (kind # "cosine" => (Comparing => Nearest))

(* Before the first comparison there is nothing to find.                      *)
LEMMA RestingIsNearest == Resting => Nearest
<1> SUFFICES ASSUME Resting PROVE Nearest
  OBVIOUS
<1>1. i = 0 /\ begin = -1 /\ nearest = Unit
  BY DEF Resting
<1>2. 0..(i - 1) = {}
  BY <1>1
<1> QED
  BY <1>1, <1>2, Zenon DEF Nearest

(* What a comparison does.                                                   *)
Kept(distance) ==
  \/ Lower(distance, nearest) /\ nearest' = distance /\ begin' = i
  \/ ~Lower(distance, nearest) /\ nearest' = nearest /\ begin' = begin

(* The comparison keeps the nearer of the two.                                *)
LEMMA CompareKeeps ==
  ASSUME Compare, CacheOfBlock, IsFraction(Fresh(i)), IsFraction(nearest)
  PROVE  Kept(Fresh(i))
<1> DEFINE computed == Distance(q[i + 1], line, cache)
           Tried(distance, lower) == IF lower THEN nearest' = distance /\ begin' = i ELSE UNCHANGED <<nearest, begin>>
<1>1. computed = Fresh(i)
  BY CacheIsFresh, Zenon DEF DistanceIs, Fresh
<1>2. \E distance \in {computed} : \E lower \in FoundLower(distance, nearest) : Tried(distance, lower)
  BY Zenon DEF Compare
<1> HIDE DEF computed, Tried
<1>3. PICK lower \in FoundLower(Fresh(i), nearest) : Tried(Fresh(i), lower)
  <2>1. \E lower \in FoundLower(computed, nearest) : Tried(computed, lower)
    BY <1>2, Zenon
  <2> QED BY <1>1, <2>1, Zenon
<1>4. lower = Lower(Fresh(i), nearest)
  BY OneWay, Zenon
<1>5. UNCHANGED <<nearest, begin>> => nearest' = nearest /\ begin' = begin
  OBVIOUS
<1> QED
  BY <1>3, <1>4, <1>5, Zenon DEF Kept, Tried

(* Distances stay what they are while a line is compared.                     *)
LEMMA FreshStays ==
  ASSUME UNCHANGED <<input, kind, records, q>>, NEW j
  PROVE  Fresh(j)' = Fresh(j)
<1>1. input' = input /\ kind' = kind /\ records' = records /\ q' = q
  OBVIOUS
<1> QED
  BY <1>1, Zenon DEF Fresh, Distance, line

(* After one more comparison it is the first of the nearest still.            *)
LEMMA NearestStep ==
  ASSUME LInv, CacheOfBlock, kind # "cosine", Compare, Nearest
  PROVE  Nearest'
<1>1. /\ Comparing /\ i < Len(q) /\ i' = i + 1
      /\ UNCHANGED <<input, kind, records, q>>
  BY DEF Compare, options
<1>2. /\ i \in 0..Len(q) /\ begin \in -1..(i - 1) /\ Len(q) \in Nat /\ line \in Seq(Characters)
      /\ q \in Seq(Seq(Characters)) /\ kind \in {"cosine", "minhash", "qgram"}
  BY <1>1, LineIs DEF LInv, Searched, Given, Windowed
<1>3. \A j \in 0..(Len(q) - 1) : q[j + 1] \in Seq(Characters)
  BY <1>2
<1>4. \A j \in 0..(Len(q) - 1) : IsFraction(Fresh(j))
  BY <1>2, <1>3, DistanceTyped, Zenon DEF DistanceIs, Fresh
<1>5. i \in 0..(Len(q) - 1) /\ \A j \in 0..(i - 1) : j \in 0..(Len(q) - 1)
  BY <1>1, <1>2
<1>6. IsFraction(nearest)
  <2>1. CASE begin = -1
    BY <2>1, UnitIs, Zenon DEF Nearest
  <2>2. CASE begin # -1
    <3>1. begin \in 0..(Len(q) - 1)
      BY <1>2, <2>2
    <3>2. nearest = Fresh(begin)
      BY <2>2, Zenon DEF Nearest
    <3> QED BY <1>4, <3>1, <3>2, Zenon
  <2> QED BY <2>1, <2>2
<1>7. Kept(Fresh(i))
  BY <1>4, <1>5, <1>6, CompareKeeps, Zenon
<1>8. \A j : Fresh(j)' = Fresh(j)
  BY <1>1, FreshStays, Zenon
<1>9. SUFFICES /\ \A j \in 0..(i' - 1) : ~Lower(Fresh(j), nearest')
               /\ IF begin' = -1 THEN nearest' = Unit
                  ELSE nearest' = Fresh(begin') /\ \A j \in 0..(begin' - 1) : ~Identical(Fresh(j), nearest')
  BY <1>8, Zenon DEF Nearest
<1>10. \A j \in 0..(i' - 1) : j \in 0..(i - 1) \/ j = i
  BY <1>1, <1>2
<1>11. CASE Lower(Fresh(i), nearest) /\ nearest' = Fresh(i) /\ begin' = i
  <2>1. \A j \in 0..(i - 1) : ~Lower(Fresh(j), Fresh(i)) /\ ~Identical(Fresh(j), Fresh(i))
    BY <1>4, <1>5, <1>6, <1>11, BelowIsNearer, Zenon DEF Nearest
  <2>2. ~Lower(Fresh(i), Fresh(i))
    <3> DEFINE n == Fresh(i).num
               d == Fresh(i).den
    <3>1. n \in Nat /\ d \in Nat
      BY <1>4, <1>5 DEF IsFraction
    <3> HIDE DEF n, d
    <3>2. ~(n * d < n * d)
      BY <3>1
    <3> QED BY <3>2, Zenon DEF Lower, n, d
  <2>3. begin' # -1
    BY <1>2, <1>11
  <2> QED BY <1>10, <1>11, <2>1, <2>2, <2>3, Zenon
<1>12. CASE ~Lower(Fresh(i), nearest) /\ nearest' = nearest /\ begin' = begin
  BY <1>10, <1>12, Zenon DEF Nearest
<1> QED
  BY <1>7, <1>11, <1>12, Zenon DEF Kept

(* With the search.                                                           *)
NearestInv == LInv /\ CacheOfBlock /\ Found

(* Every step keeps what the search has found.                                *)
LEMMA FoundStep ==
  ASSUME LInv, CacheOfBlock, Found, [Next]_vars
  PROVE  Found'
<1>1. CASE ReadBlock
  <2>1. stage # "compare" /\ UNCHANGED <<i, nearest, begin>>
    BY <1>1 DEF ReadBlock
  <2>2. Resting'
    BY <2>1 DEF Found, Resting
  <2>3. Nearest'
    BY <2>2, RestingIsNearest, PTL
  <2> QED BY <2>2, <2>3, Zenon DEF Found
<1>2. CASE Compare
  <2>1. Comparing /\ stage = "compare" /\ stage' = stage /\ kind' = kind
    BY <1>2 DEF Compare, Comparing, options
  <2>2. kind # "cosine" => Nearest'
    BY <1>2, <2>1, NearestStep, Zenon DEF Found
  <2> QED BY <2>1, <2>2, Zenon DEF Found
<1>3. CASE Choose
  <2>1. i' = 0 /\ nearest' = Unit /\ begin' = -1
    BY <1>3 DEF Choose
  <2>2. Resting'
    BY <2>1 DEF Resting, Unit, Fraction
  <2>3. Nearest'
    BY <2>2, RestingIsNearest, PTL
  <2> QED BY <2>2, <2>3, Zenon DEF Found
<1>4. CASE Ended \/ UNCHANGED vars
  <2>1. UNCHANGED <<input, kind, records, q, stage, fetched, i, nearest, begin>>
    BY <1>4 DEF Ended, vars, options
  <2>2. stage' = stage /\ fetched' = fetched /\ i' = i /\ nearest' = nearest /\ begin' = begin /\ kind' = kind
        /\ records' = records
    BY <2>1
  <2>3. \A j : Fresh(j)' = Fresh(j)
    BY <2>1, FreshStays, Zenon
  <2>4. Nearest => Nearest'
    BY <2>2, <2>3, Zenon DEF Nearest
  <2>5. Resting => Resting'
    BY <2>2 DEF Resting, Unit, Fraction
  <2>6. Comparing' => Comparing
    BY <2>2, Zenon DEF Comparing
  <2> QED BY <2>2, <2>4, <2>5, <2>6, Zenon DEF Found
<1> QED
  BY <1>1, <1>2, <1>3, <1>4, Zenon DEF Next

(* What the minimum search has found, at any time and for all windows, is
   the first of the nearest lines, by distances computed with nothing cached,
   for the two distances that are fractions.  The cosine, whose square roots
   round, stays with the model checker. *)
THEOREM Chosen == Spec => [](kind # "cosine" => ChoiceIsNearest)
<1>1. Init => NearestInv
  <2> SUFFICES ASSUME Init PROVE NearestInv
    OBVIOUS
  <2>1. stage = "read" /\ Resting
    BY DEF Init, Resting
  <2>2. stage # "compare"
    BY <2>1
  <2>3. Found
    BY <2>1, <2>2, Zenon DEF Found, Comparing
  <2> QED BY <2>3, LInit, CacheInit DEF NearestInv
<1>2. NearestInv /\ [Next]_vars => NearestInv'
  BY LStep, CacheStep, FoundStep, Zenon DEF NearestInv
<1>3. NearestInv => (kind # "cosine" => ChoiceIsNearest)
  BY Zenon DEF NearestInv, Found, Nearest, ChoiceIsNearest
<1> QED
  BY <1>1, <1>2, <1>3, PTL DEF Spec
====================================================================================
