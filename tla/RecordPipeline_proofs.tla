------------------------- MODULE RecordPipeline_proofs -------------------------
(***************************************************************************)
(* For every file, every block size and every window size the header can   *)
(* represent, the decompressor restores the beginning of the file the      *)
(* compressor read, up to the first block the format does not carry, and   *)
(* all of it when there is none and the compressor finished.               *)
(***************************************************************************)
EXTENDS RecordPipeline, SequenceTheorems, WellFoundedInduction, TLAPS

(* Where the compressor is in the file.                                      *)
Progress ==
  /\ Processed <= fetched
  /\ cpc \in {"header", "read"} => records = <<>> /\ Len(archive) = fetched
  /\ cpc = "lines" /\ loopEnd => fetched = Len(input)
  /\ cpc = "lines" /\ ~loopEnd => Len(archive) < fetched
  /\ cpc = "done" => records = <<>> /\ Len(archive) = Len(input)

(* The blocks are consecutive, end where the archive ends, and are not empty *)
(* except the last of a finished run.                                        *)
Blocks ==
  /\ Len(blockEnd) = 0 => Len(archive) = 0
  /\ Len(blockEnd) > 0 => blockEnd[Len(blockEnd)] = Len(archive)
  /\ \A b \in 1..Len(blockEnd) :
       /\ BlockStart(b) <= blockEnd[b] /\ blockEnd[b] <= Len(archive)
       /\ b < Len(blockEnd) \/ cpc # "done" => BlockStart(b) < blockEnd[b]
  /\ \A b, c \in 1..Len(blockEnd) : b < c => blockEnd[b] <= BlockStart(c)

(* The header is there from the moment it is written.                        *)
Header ==
  /\ cpc = "header" => header = NoHeader
  /\ cpc \in {"read", "lines", "done"} => header # NoHeader
  /\ header \in {NoHeader, WindowSize % FieldSize}
  /\ header = NoHeader => blockEnd = <<>>
  /\ dpc \in {"block", "lines", "lost"} => dwin = header /\ header \notin {NoHeader, 0}

(* Where the decompressor is in the archive.                                 *)
Place ==
  /\ dpc # "start" => Stopped
  /\ dpc = "start" => output = <<>> /\ dq = <<>> /\ dblock = 0
  /\ dblock <= Len(blockEnd)
  /\ dpc = "block" => Len(output) = BlockStart(dblock + 1)
  /\ dpc = "lines" => /\ dblock > 0
                      /\ BlockStart(dblock) <= Len(output)
                      /\ Len(output) < blockEnd[dblock]
  /\ dpc = "lost" => /\ dblock < Len(blockEnd) /\ ~ReadsBack(dblock + 1)
                     /\ BlockStart(dblock + 1) <= Len(output)
  /\ dpc \in {"block", "lines", "lost"} => \A b \in 1..dblock : ReadsBack(b)
  /\ dpc = "done" => IF AllReadBack THEN Len(output) = Len(archive) ELSE Sure <= Len(output)

Base == TypeOK /\ Progress /\ Blocks /\ Header /\ Place

(* The line a record stands for, given the window before line k, is line k.  *)
Right(r, k) ==
  IF r.method = 0
  THEN /\ r.begin \in Nat /\ r.begin < Len(WindowAfter(k - 1))
       /\ Patch(r.ops, WindowAfter(k - 1)[r.begin + 1]) = input[k]
  ELSE r.line = input[k]

(* Every record is right, and the compressor's window is the last lines.     *)
Records ==
  /\ cq = WindowAfter(Processed)
  /\ \A k \in 1..Len(archive) : Right(archive[k], k)
  /\ \A k \in 1..Len(records) : Right(records[k], Len(archive) + k)

(* What the decompressor has restored.                                       *)
Restored ==
  /\ \A i \in 1..Len(output) : i <= Sure => output[i] = input[i]
  /\ dpc \in {"start", "block", "lines"} \/ AllReadBack => dq = WindowAfter(Len(output))

(* When it refuses.                                                          *)
Refused ==
  dpc = "error" => IF AllReadBack THEN header = NoHeader /\ output = <<>> ELSE Sure <= Len(output)

Meaning == Records /\ Restored /\ Refused

--------------------------------------------------------------------------------
(* The window is a sequence of lines.                                        *)
LEMMA WindowType ==
  ASSUME input \in Seq(Line), NEW n \in 0..Len(input)
  PROVE  /\ WindowAfter(n) \in Seq(Line)
         /\ Len(WindowAfter(n)) = Least(n, WindowSize)
         /\ \A i \in 1..Least(n, WindowSize) :
               WindowAfter(n)[i] = input[n - Least(n, WindowSize) + i]
<1> DEFINE k == Least(n, WindowSize)
<1>1. k \in Nat /\ k <= n
  BY WindowAssumption DEF Least
<1>2. \A i \in 1..k : n - k + i \in 1..Len(input)
  BY <1>1
<1>3. \A i \in 1..k : input[n - k + i] \in Line
  BY <1>2, ElementOfSeq
<1>4. WindowAfter(n) = [i \in 1..k |-> input[n - k + i]]
  BY DEF WindowAfter
<1> HIDE DEF k
<1>5. /\ WindowAfter(n) \in Seq(Line)
      /\ Len(WindowAfter(n)) = k
      /\ \A i \in 1..k : WindowAfter(n)[i] = input[n - k + i]
  BY <1>1, <1>3, <1>4
<1> QED
  BY <1>5 DEF k

(* Sliding the window over the next line gives the next window.              *)
LEMMA SlideWindow ==
  ASSUME input \in Seq(Line), NEW n \in 0..Len(input), n < Len(input)
  PROVE  Slide(WindowAfter(n), input[n + 1], WindowSize) = WindowAfter(n + 1)
<1> DEFINE k == Least(n, WindowSize)
           m == Least(n + 1, WindowSize)
           w == WindowAfter(n)
           v == WindowAfter(n + 1)
           line == input[n + 1]
           kept == IF k < WindowSize THEN w ELSE Tail(w)
<1>1. line \in Line
  BY ElementOfSeq
<1>2. /\ w \in Seq(Line) /\ Len(w) = k
      /\ \A i \in 1..k : w[i] = input[n - k + i]
  BY WindowType
<1>3. /\ v \in Seq(Line) /\ Len(v) = m
      /\ \A i \in 1..m : v[i] = input[n + 1 - m + i]
  BY WindowType
<1>4. k \in Nat /\ m \in Nat \ {0} /\ WindowSize \in Nat \ {0}
  BY WindowAssumption DEF Least
<1>5. Slide(w, line, WindowSize) = Append(kept, line)
  BY <1>2 DEF Slide
<1>a. k < WindowSize => kept = w /\ m = k + 1 /\ k = n
  BY <1>4 DEF Least
<1>b. ~(k < WindowSize) => k = WindowSize /\ m = k /\ kept = Tail(w) /\ k > 0
  BY <1>4 DEF Least
<1>c. line = input[n + 1]
  OBVIOUS
<1> HIDE DEF k, m, w, v, line, kept
<1>6. ASSUME k < WindowSize PROVE Append(kept, line) = v
  <2>1. kept = w /\ m = k + 1 /\ k = n
    BY <1>a, <1>6
  <2>2. /\ Append(w, line) \in Seq(Line) /\ Len(Append(w, line)) = k + 1
        /\ \A i \in 1..k : Append(w, line)[i] = w[i]
        /\ Append(w, line)[k + 1] = line
    BY <1>1, <1>2, AppendProperties
  <2>3. \A i \in 1..m : Append(w, line)[i] = v[i]
    <3> TAKE i \in 1..m
    <3>1. CASE i \in 1..k
      <4>1. n - k + i = n + 1 - m + i
        BY <1>4, <2>1
      <4>2. Append(w, line)[i] = w[i] /\ w[i] = input[n - k + i]
        BY <1>2, <2>2, <3>1
      <4>3. v[i] = input[n + 1 - m + i]
        BY <1>3
      <4> QED BY <4>1, <4>2, <4>3
    <3>2. CASE i = k + 1
      <4>1. n + 1 - m + i = n + 1
        BY <1>4, <2>1, <3>2
      <4> QED BY <1>3, <1>c, <2>2, <3>2, <4>1
    <3>3. i \in 1..k \/ i = k + 1
      BY <1>4, <2>1
    <3> QED BY <3>1, <3>2, <3>3
  <2>4. Append(w, line) = v
    BY <1>3, <2>1, <2>2, <2>3, SeqEqual
  <2> QED BY <2>1, <2>4
<1>7. ASSUME ~(k < WindowSize) PROVE Append(kept, line) = v
  <2>1. k = WindowSize /\ m = k /\ kept = Tail(w) /\ k > 0
    BY <1>b, <1>7
  <2>2. w # << >>
    BY <1>2, <2>1
  <2>3. /\ Tail(w) \in Seq(Line) /\ Len(Tail(w)) = k - 1
        /\ \A i \in 1..(k - 1) : Tail(w)[i] = w[i + 1]
    BY <1>2, <2>2, HeadTailProperties
  <2>4. /\ Append(Tail(w), line) \in Seq(Line)
        /\ Len(Append(Tail(w), line)) = k
        /\ \A i \in 1..(k - 1) : Append(Tail(w), line)[i] = Tail(w)[i]
        /\ Append(Tail(w), line)[k] = line
    BY <1>1, <1>4, <2>1, <2>3, AppendProperties
  <2>5. \A i \in 1..m : Append(Tail(w), line)[i] = v[i]
    <3> TAKE i \in 1..m
    <3>1. CASE i \in 1..(k - 1)
      <4>1. i + 1 \in 1..k
        BY <1>4, <3>1
      <4>2. w[i + 1] = input[n - k + (i + 1)]
        BY <1>2, <4>1
      <4>3. n - k + (i + 1) = n + 1 - m + i
        BY <1>4, <2>1, <3>1
      <4> QED BY <1>3, <2>3, <2>4, <3>1, <4>2, <4>3
    <3>2. CASE i = k
      <4>1. n + 1 - m + i = n + 1
        BY <1>4, <2>1, <3>2
      <4> QED BY <1>3, <1>c, <2>4, <3>2, <4>1
    <3>3. i \in 1..(k - 1) \/ i = k
      BY <1>4, <2>1
    <3> QED BY <3>1, <3>2, <3>3
  <2>6. Append(Tail(w), line) = v
    BY <1>3, <2>1, <2>4, <2>5, SeqEqual
  <2> QED BY <2>1, <2>6
<1>8. Append(kept, line) = v
  BY <1>6, <1>7
<1> QED
  BY <1>5, <1>8 DEF w, v, line

(* A nonempty set of naturals has a least element.                           *)
LEMMA LeastNatural ==
  ASSUME NEW S \in SUBSET Nat, S # {}
  PROVE  \E m \in S : \A n \in S : m <= n
<1> DEFINE lessThan == {p \in Nat \X Nat : p[1] < p[2]}
<1>1. IsWellFoundedOn(lessThan, Nat)
  BY NatLessThanWellFounded, Zenon DEF OpToRel
<1>2. PICK m \in S : \A n \in S : ~(<<n, m>> \in lessThan)
  BY <1>1, WFMin, Zenon
<1>3. \A n \in S : ~(n < m)
  BY <1>2
<1> QED
  BY <1>3

(* The nearest line is one of the near ones.                                 *)
LEMMA NearestIsNear ==
  ASSUME NEW q \in Seq(Line), NEW line \in Line, Near(q, line) # {}
  PROVE  Nearest(q, line, Near(q, line)) \in Near(q, line)
<1> DEFINE near == Near(q, line)
           D(i) == Dist(q[i], line)
           dists == {D(i) : i \in near}
<1>1. near \subseteq 1..Len(q) /\ \A i \in near : i \in Nat /\ q[i] \in Line
  BY ElementOfSeq DEF Near
<1>2. \A i \in near : D(i) \in Nat
  BY <1>1, DistAssumption
<1>3. PICK d \in dists : \A e \in dists : d <= e
  <2>1. dists \in SUBSET Nat /\ dists # {}
    BY <1>2
  <2> QED BY <2>1, LeastNatural
<1>4. PICK i \in {j \in near : D(j) = d} : \A j \in {k \in near : D(k) = d} : i <= j
  <2>1. {j \in near : D(j) = d} \in SUBSET Nat /\ {j \in near : D(j) = d} # {}
    BY <1>1, <1>3
  <2> QED BY <2>1, LeastNatural
<1>5. \A j \in near : D(i) < D(j) \/ (D(i) = D(j) /\ i <= j)
  <2> TAKE j \in near
  <2>1. D(i) = d /\ d \in Nat /\ D(j) \in Nat /\ d <= D(j)
    BY <1>2, <1>3, <1>4
  <2>2. D(j) = d => i <= j
    BY <1>4
  <2> QED BY <2>1, <2>2, <1>4
<1>6. i \in near
  BY <1>4
<1> QED
  BY <1>5, <1>6, Zenon DEF Nearest

(* What is coded against lines is a record.                                  *)
LEMMA RecordTyped ==
  ASSUME NEW q \in Seq(Line), NEW line \in Line
  PROVE  RecordOf(q, line) \in Record
<1> DEFINE near == Near(q, line)
           best == Nearest(q, line, near)
           ops == Diff(q[best], line)
<1>1. Raw(line) \in Record
  BY DEF Raw, Record
<1>2. ASSUME near # {} PROVE Coded(best - 1, ops) \in Record
  <2>1. best \in near
    BY <1>2, NearestIsNear
  <2>2. best \in 1..Len(q) /\ q[best] \in Line
    BY <2>1, ElementOfSeq DEF Near
  <2>3. ops \in Edits
    BY <2>2 DEF Edits
  <2>4. best - 1 \in Nat
    BY <2>2
  <2> HIDE DEF best, ops, near
  <2> QED BY <2>3, <2>4 DEF Coded, Record
<1>3. RecordOf(q, line) \in {Raw(line), Coded(best - 1, ops)} /\
      (near = {} => RecordOf(q, line) = Raw(line))
  BY Zenon DEF RecordOf
<1> QED
  BY <1>1, <1>2, <1>3

(* The record made of a line stands for that line.                           *)
LEMMA RecordIsRight ==
  ASSUME input \in Seq(Line), NEW n \in 0..Len(input), n < Len(input)
  PROVE  Right(RecordOf(WindowAfter(n), input[n + 1]), n + 1)
<1> DEFINE q == WindowAfter(n)
           line == input[n + 1]
           near == Near(q, line)
           best == Nearest(q, line, near)
           ops == Diff(q[best], line)
<1>1. q \in Seq(Line) /\ line \in Line
  BY WindowType, ElementOfSeq
<1>2. WindowAfter((n + 1) - 1) = q
  OBVIOUS
<1>3. Right(Raw(line), n + 1)
  BY <1>1 DEF Raw, Right
<1>4. ASSUME near # {} PROVE Right(Coded(best - 1, ops), n + 1)
  <2>1. best \in near
    BY <1>1, <1>4, NearestIsNear
  <2>2. best \in 1..Len(q) /\ q[best] \in Line
    BY <1>1, <2>1, ElementOfSeq DEF Near
  <2>3. Patch(ops, q[best]) = line
    BY <1>1, <2>2, PatchAssumption
  <2>4. best - 1 \in Nat /\ best - 1 < Len(q) /\ (best - 1) + 1 = best
    BY <1>1, <2>2
  <2> HIDE DEF best, ops, near
  <2> QED BY <1>2, <2>3, <2>4 DEF Coded, Right
<1>5. RecordOf(q, line) \in {Raw(line), Coded(best - 1, ops)} /\
      (near = {} => RecordOf(q, line) = Raw(line))
  BY Zenon DEF RecordOf
<1> QED
  BY <1>3, <1>4, <1>5

(* A window that has room for a line takes it in and remains one.            *)
LEMMA SlideTyped ==
  ASSUME NEW q \in Seq(Line), NEW line \in Line, NEW size \in Nat \ {0}
  PROVE  Slide(q, line, size) \in Seq(Line)
<1>1. CASE Len(q) < size
  BY <1>1, AppendProperties DEF Slide
<1>2. CASE ~(Len(q) < size)
  <2>1. q # <<>>
    BY <1>2
  <2>2. Tail(q) \in Seq(Line)
    BY <2>1, HeadTailProperties
  <2> QED BY <1>2, <2>2, AppendProperties DEF Slide
<1> QED
  BY <1>1, <1>2

--------------------------------------------------------------------------------
(* The sure records end where the blocks that read back do.                  *)
SureFacts ==
  /\ Sure \in 0..Len(archive)
  /\ AllReadBack => Sure = Len(archive)
  /\ \A d \in 0..(Len(blockEnd) - 1) :
       (\A b \in 1..d : ReadsBack(b)) /\ ~ReadsBack(d + 1) => Sure = BlockStart(d + 1)
  /\ \A d \in 1..Len(blockEnd) : (\A b \in 1..d : ReadsBack(b)) => blockEnd[d] <= Sure

LEMMA SureHolds == TypeOK /\ Blocks => SureFacts
<1> SUFFICES ASSUME TypeOK, Blocks PROVE SureFacts
  OBVIOUS
<1> DEFINE e == Len(blockEnd)
           First(b) == /\ \A c \in 1..(b - 1) : ReadsBack(c)
                       /\ b <= Len(blockEnd) => ~ReadsBack(b)
<1>1. /\ e \in Nat /\ Len(archive) \in Nat /\ blockEnd \in Seq(Nat)
      /\ \A b \in 1..e : blockEnd[b] \in Nat
  BY DEF TypeOK
<1>2. \E b \in 1..(e + 1) : First(b)
  <2> DEFINE S == {b \in 1..(e + 1) : b = e + 1 \/ ~ReadsBack(b)}
  <2>1. S \in SUBSET Nat /\ e + 1 \in S
    BY <1>1
  <2> HIDE DEF S
  <2>2. PICK m \in S : \A n \in S : m <= n
    BY <2>1, LeastNatural
  <2> USE DEF S
  <2>3. m \in 1..(e + 1) /\ (m <= e => ~ReadsBack(m))
    BY <1>1, <2>2
  <2>4. \A c \in 1..(m - 1) : c \in 1..(e + 1) /\ ~(m <= c)
    BY <1>1, <2>3
  <2>5. \A c \in 1..(m - 1) : ReadsBack(c)
    BY <2>2, <2>4
  <2> QED BY <2>3, <2>5
<1>3. PICK f : f \in 1..(e + 1) /\ First(f) /\ Sure = BlockStart(f)
  <2> DEFINE f == CHOOSE b \in 1..(e + 1) : First(b)
  <2>1. f \in 1..(e + 1) /\ First(f)
    BY <1>2, Zenon
  <2>2. Sure = BlockStart(f)
    BY Zenon DEF Sure
  <2> HIDE DEF f
  <2> QED BY <2>1, <2>2, Zenon
<1>4. BlockStart(e + 1) = Len(archive)
  BY <1>1 DEF Blocks, BlockStart
<1>5. \A b \in 1..e : BlockStart(b) \in 0..Len(archive)
  <2> TAKE b \in 1..e
  <2>1. BlockStart(b) <= blockEnd[b] /\ blockEnd[b] <= Len(archive)
    BY DEF Blocks
  <2>2. BlockStart(b) \in Nat
    BY <1>1 DEF BlockStart
  <2> QED BY <1>1, <2>1, <2>2
<1> HIDE DEF First
<1>6. Sure \in 0..Len(archive)
  <2>1. f \in 1..e \/ f = e + 1
    BY <1>1, <1>3
  <2>2. Len(archive) \in 0..Len(archive)
    BY <1>1
  <2> HIDE DEF e
  <2> QED BY <1>3, <1>4, <1>5, <2>1, <2>2
<1>7. ASSUME AllReadBack PROVE Sure = Len(archive)
  <2>1. ~(f <= e)
    BY <1>3, <1>1, <1>7 DEF First, AllReadBack
  <2>2. f = e + 1
    BY <1>1, <1>3, <2>1
  <2> QED BY <1>3, <1>4, <2>2
<1>8. ASSUME NEW d \in 0..(e - 1), \A b \in 1..d : ReadsBack(b), ~ReadsBack(d + 1)
      PROVE  Sure = BlockStart(d + 1)
  <2>1. ~(d + 1 < f)
    <3>1. d + 1 < f => d + 1 \in 1..(f - 1)
      BY <1>1, <1>3, <1>8
    <3> QED BY <1>3, <1>8, <3>1 DEF First
  <2>2. ~(f < d + 1)
    <3>1. f < d + 1 => f \in 1..d /\ f <= e
      BY <1>1, <1>3, <1>8
    <3> QED BY <1>3, <1>8, <3>1 DEF First
  <2>3. f = d + 1
    BY <1>1, <1>3, <1>8, <2>1, <2>2
  <2> QED BY <1>3, <2>3
<1>9. ASSUME NEW d \in 1..e, \A b \in 1..d : ReadsBack(b)
      PROVE  blockEnd[d] <= Sure
  <2>1. d < f
    <3>1. ~(d < f) => f \in 1..d /\ f <= e
      BY <1>1, <1>3, <1>9
    <3> QED BY <1>1, <1>3, <1>9, <3>1 DEF First
  <2>2. CASE f = e + 1
    <3>1. blockEnd[d] <= Len(archive)
      BY <1>9 DEF Blocks
    <3> QED BY <1>3, <1>4, <2>2, <3>1
  <2>3. CASE f # e + 1
    <3>1. f \in 1..e
      BY <1>1, <1>3, <2>3
    <3> QED BY <1>3, <1>9, <2>1, <3>1 DEF Blocks
  <2> QED BY <2>2, <2>3
<1> QED
  BY <1>6, <1>7, <1>8, <1>9 DEF SureFacts

(* What the windows and records mean depends on the file alone, and which    *)
(* records are sure on the archive alone.                                    *)
LEMMA Rigid ==
  ASSUME UNCHANGED input
  PROVE  /\ \A n : WindowAfter(n)' = WindowAfter(n)
         /\ \A r, k : Right(r, k)' = Right(r, k)
<1>1. \A n : WindowAfter(n)' = WindowAfter(n)
  BY DEF WindowAfter
<1> QED
  BY <1>1 DEF Right

LEMMA RigidArchive ==
  ASSUME UNCHANGED <<archive, blockEnd>>
  PROVE  /\ \A b : BlockStart(b)' = BlockStart(b) /\ ReadsBack(b)' = ReadsBack(b)
         /\ AllReadBack' = AllReadBack /\ Sure' = Sure
<1>1. archive' = archive /\ blockEnd' = blockEnd
  OBVIOUS
<1>2. \A b : BlockStart(b)' = BlockStart(b)
  BY <1>1 DEF BlockStart
<1>3. \A b : ReadsBack(b)' = ReadsBack(b)
  BY <1>1, <1>2 DEF ReadsBack
<1>4. AllReadBack' = AllReadBack
  BY <1>1, <1>3 DEF AllReadBack
<1>5. Sure' = Sure
  BY <1>1, <1>2, <1>3 DEF Sure
<1> QED
  BY <1>2, <1>3, <1>4, <1>5

--------------------------------------------------------------------------------
(* Base holds at the start and every action keeps it, one lemma each.        *)
LEMMA InitBase == Init => Base
<1> SUFFICES ASSUME Init PROVE Base
  OBVIOUS
<1> USE DEF Init
<1>1. input \in Seq(Line) /\ Len(input) \in Nat
  BY InputsAssumption
<1>2. TypeOK
  <2>1. loopEnd \in BOOLEAN
    BY Zenon
  <2>2. \A S : <<>> \in Seq(S)
    OBVIOUS
  <2>3. fetched \in 0..Len(input)
    BY <1>1
  <2> QED BY <2>1, <2>2, <2>3, Zenon DEF TypeOK, NoHeader
<1>3. Progress
  BY <1>1 DEF Progress, Processed
<1>4. Blocks
  BY DEF Blocks
<1>5. Header
  BY DEF Header
<1>6. Place
  BY DEF Place, Stopped
<1> QED
  BY <1>2, <1>3, <1>4, <1>5, <1>6 DEF Base

(* While the compressor runs the decompressor has not started.               *)
LEMMA NotStarted ==
  ASSUME Base, ~Stopped
  PROVE  dpc = "start" /\ output = <<>> /\ dq = <<>> /\ dblock = 0
BY DEF Base, Place

LEMMA WriteHeaderBase ==
  ASSUME Base, WriteHeader
  PROVE  Base'
<1> USE DEF Base, WriteHeader, stored, decompressor
<1>0. WindowSize % FieldSize \in Nat
  BY WindowAssumption
<1>1. TypeOK'
  BY <1>0 DEF TypeOK
<1>2. Progress'
  BY DEF Progress, Processed, TypeOK
<1>3. Blocks'
  BY DEF Blocks, BlockStart, TypeOK
<1>4. dpc = "start" /\ output = <<>> /\ dq = <<>> /\ dblock = 0
  BY NotStarted DEF Stopped
<1>5. Header'
  BY <1>0, <1>4 DEF Header, NoHeader
<1>6. Place'
  BY <1>4 DEF Place
<1> QED
  BY <1>1, <1>2, <1>3, <1>5, <1>6

LEMMA ReadBlockBase ==
  ASSUME Base, ReadBlock
  PROVE  Base'
<1> USE DEF Base, ReadBlock, stored, decompressor
<1> DEFINE n == Least(BlockSize, Len(input) - fetched)
<1>0. /\ Len(input) \in Nat /\ fetched \in 0..Len(input) /\ n \in 0..(Len(input) - fetched)
      /\ n < BlockSize => n = Len(input) - fetched
      /\ ~(n < BlockSize) => n > 0
  BY InputsAssumption, BlockSizeAssumption DEF TypeOK, Least
<1> HIDE DEF n
<1>1. TypeOK'
  BY <1>0 DEF TypeOK, n
<1>2. Progress'
  <2>1. records = <<>> /\ Len(archive) = fetched /\ fetched' = fetched + n
        /\ loopEnd' = (n < BlockSize)
    BY DEF Progress, n
  <2>2. Len(records) = 0 /\ Len(archive) \in Nat
    BY <2>1 DEF TypeOK
  <2>3. /\ loopEnd' => n = Len(input) - fetched
        /\ ~loopEnd' => n > 0
    BY <1>0, <2>1, Zenon
  <2>4. /\ archive' = archive /\ records' = records /\ input' = input /\ cpc' = "lines"
    OBVIOUS
  <2> QED BY <1>0, <2>1, <2>2, <2>3, <2>4 DEF Progress, Processed
<1>3. Blocks'
  BY DEF Blocks, BlockStart, TypeOK
<1>4. dpc = "start" /\ output = <<>> /\ dq = <<>> /\ dblock = 0
  BY NotStarted DEF Stopped
<1>5. Header'
  BY <1>4 DEF Header
<1>6. Place'
  BY <1>4 DEF Place, TypeOK
<1> QED
  BY <1>1, <1>2, <1>3, <1>5, <1>6

LEMMA CompressLineBase ==
  ASSUME Base, CompressLine
  PROVE  Base'
<1> USE DEF Base, CompressLine, stored, decompressor
<1> PICK n : n = Processed
  OBVIOUS
<1> DEFINE line == input[n + 1]
           rec == RecordOf(cq, line)
<1>0. /\ input \in Seq(Line) /\ n \in Nat /\ n < Len(input) /\ n < fetched
      /\ cq \in Seq(Line) /\ records \in Seq(Record) /\ archive \in Seq(Record)
      /\ n = Len(archive) + Len(records)
  BY InputsAssumption DEF TypeOK, Processed
<1>1. line \in Line
  BY <1>0, ElementOfSeq
<1>2. rec \in Record /\ cq' \in Seq(Line)
  BY <1>0, <1>1, RecordTyped, SlideTyped, WindowAssumption
<1>3. /\ records' = Append(records, rec) /\ records' \in Seq(Record)
      /\ Len(records') = Len(records) + 1
  BY <1>0, <1>2, AppendProperties
<1> HIDE DEF rec, line
<1>4. Processed' = n + 1
  BY <1>0, <1>3 DEF Processed
<1>5. TypeOK'
  BY <1>2, <1>3 DEF TypeOK
<1>6. Progress'
  BY <1>0, <1>4 DEF Progress, TypeOK
<1>7. Blocks'
  BY DEF Blocks, BlockStart, TypeOK
<1>8. dpc = "start" /\ output = <<>> /\ dq = <<>> /\ dblock = 0
  BY NotStarted DEF Stopped
<1>9. Header'
  BY <1>8 DEF Header
<1>10. Place'
  BY <1>8 DEF Place, TypeOK
<1> QED
  BY <1>5, <1>6, <1>7, <1>9, <1>10

(* A block is appended behind the others, whole or torn.                     *)
LEMMA StoreBlockBase ==
  ASSUME Base, StoreBlock, input' = input, fetched' = fetched, decompressor' = decompressor,
         header' = header, cq' = cq, loopEnd' = loopEnd,
         \/ loopEnd /\ cpc' = "done"
         \/ ~loopEnd /\ cpc' = "read"
         \/ records # <<>> /\ cpc' = "crashed"
  PROVE  Base'
<1> USE DEF Base, StoreBlock, decompressor
<1> PICK a, r, e : a = Len(archive) /\ r = Len(records) /\ e = Len(blockEnd)
  OBVIOUS
<1>0. /\ records \in Seq(Record) /\ archive \in Seq(Record) /\ blockEnd \in Seq(Nat)
      /\ a \in Nat /\ r \in Nat /\ e \in Nat
      /\ a + r = fetched /\ fetched \in 0..Len(input) /\ Len(input) \in Nat
  BY InputsAssumption DEF TypeOK, Processed
<1>1. archive' \in Seq(Record) /\ Len(archive') = a + r
  BY <1>0, ConcatProperties
<1>2. /\ blockEnd' \in Seq(Nat) /\ Len(blockEnd') = e + 1
      /\ \A b \in 1..e : blockEnd'[b] = blockEnd[b]
      /\ blockEnd'[e + 1] = a + r
  BY <1>0, AppendProperties
<1>3. records' = <<>> /\ Len(records') = 0 /\ records' \in Seq(Record)
  OBVIOUS
<1>4. loopEnd => a + r = Len(input)
  BY <1>0 DEF Progress
<1>5. cpc' # "done" => r > 0
  <2>1. ~loopEnd => r > 0
    BY <1>0 DEF Progress
  <2>2. records # <<>> => r > 0
    BY <1>0
  <2> QED BY <2>1, <2>2
<1>6. cpc' \in {"done", "read", "crashed"} /\ (cpc' = "done" => loopEnd) /\ cpc = "lines"
  OBVIOUS
<1>7. TypeOK'
  BY <1>1, <1>2, <1>3, <1>6 DEF TypeOK
<1>8. Progress'
  BY <1>0, <1>1, <1>3, <1>4, <1>6 DEF Progress, Processed
<1>9. Blocks'
  <2>1. Len(blockEnd') > 0 /\ blockEnd'[Len(blockEnd')] = Len(archive')
    BY <1>0, <1>1, <1>2
  <2>2. BlockStart(e + 1)' = a
    BY <1>0, <1>2 DEF BlockStart, Blocks
  <2>3. ASSUME NEW b \in 1..e
        PROVE  /\ BlockStart(b)' = BlockStart(b) /\ blockEnd'[b] = blockEnd[b]
               /\ BlockStart(b) \in Nat /\ blockEnd[b] \in Nat
               /\ BlockStart(b) < blockEnd[b] /\ blockEnd[b] <= a
    <3>1. b = 1 \/ b - 1 \in 1..e
      BY <1>0
    <3>2. BlockStart(b)' = BlockStart(b) /\ blockEnd'[b] = blockEnd[b]
      BY <1>0, <1>2, <3>1 DEF BlockStart
    <3>3. BlockStart(b) \in Nat /\ blockEnd[b] \in Nat
      BY <1>0, <3>1 DEF BlockStart
    <3>4. b \in 1..Len(blockEnd) /\ cpc # "done" /\ Blocks
      BY <1>6
    <3>5. BlockStart(b) < blockEnd[b] /\ blockEnd[b] <= Len(archive)
      BY <3>4, Zenon DEF Blocks
    <3> QED BY <3>2, <3>3, <3>5
  <2>4. ASSUME NEW b \in 1..(e + 1)
        PROVE  /\ BlockStart(b)' <= blockEnd'[b] /\ blockEnd'[b] <= Len(archive')
               /\ b < e + 1 \/ cpc' # "done" => BlockStart(b)' < blockEnd'[b]
    <3>1. CASE b = e + 1
      BY <1>0, <1>1, <1>2, <1>5, <2>2, <3>1
    <3>2. CASE b \in 1..e
      <4>1. blockEnd[b] <= Len(archive') /\ BlockStart(b) <= blockEnd[b]
        BY <1>0, <1>1, <2>3, <3>2
      <4> QED BY <2>3, <3>2, <4>1, Zenon
    <3> QED BY <1>0, <3>1, <3>2
  <2>5. ASSUME NEW b \in 1..(e + 1), NEW c \in 1..(e + 1), b < c
        PROVE  blockEnd'[b] <= BlockStart(c)'
    <3>1. b \in 1..e
      BY <1>0, <2>5
    <3>2. CASE c = e + 1
      BY <2>2, <2>3, <3>1, <3>2
    <3>3. CASE c \in 1..e
      <4>1. blockEnd[b] <= BlockStart(c)
        BY <2>5, <3>1, <3>3 DEF Blocks
      <4> QED BY <2>3, <3>1, <3>3, <4>1
    <3> QED BY <1>0, <3>2, <3>3
  <2> QED BY <1>0, <1>2, <2>1, <2>4, <2>5 DEF Blocks
<1>10. dpc = "start" /\ output = <<>> /\ dq = <<>> /\ dblock = 0
  BY <1>6, NotStarted DEF Stopped
<1>11. Header'
  <2>1. header # NoHeader
    BY <1>6 DEF Header
  <2> QED BY <1>6, <1>10, <2>1 DEF Header
<1>12. Place'
  BY <1>0, <1>2, <1>10 DEF Place
<1> QED
  BY <1>7, <1>8, <1>9, <1>11, <1>12

LEMMA WriteBlockBase ==
  ASSUME Base, WriteBlock
  PROVE  Base'
BY StoreBlockBase DEF WriteBlock, decompressor, Base, TypeOK

LEMMA CrashBase ==
  ASSUME Base, Crash
  PROVE  Base'
<1> USE DEF Base, Crash, decompressor
<1>1. CASE StoreBlock /\ records # <<>>
  BY <1>1, StoreBlockBase
<1>2. CASE UNCHANGED <<records, archive, blockEnd>>
  <2>1. TypeOK' /\ Progress' /\ Blocks'
    BY <1>2 DEF TypeOK, Progress, Processed, Blocks, BlockStart
  <2>2. dpc = "start" /\ output = <<>> /\ dq = <<>> /\ dblock = 0
    BY NotStarted DEF Stopped
  <2>3. Header' /\ Place'
    BY <1>2, <2>2 DEF Header, Place
  <2> QED BY <2>1, <2>3
<1> QED
  BY <1>1, <1>2

LEMMA ReadHeaderBase ==
  ASSUME Base, ReadHeader
  PROVE  Base'
<1> USE DEF Base, ReadHeader, compressor, stored
<1>0. /\ header \in {NoHeader, 0} => dpc' = "error" /\ dwin' = dwin
      /\ header \notin {NoHeader, 0} => dpc' = "block" /\ dwin' = header
      /\ WindowSize % FieldSize \in Nat /\ header \in {NoHeader, WindowSize % FieldSize}
  BY WindowAssumption DEF Header
<1>1. TypeOK'
  BY <1>0 DEF TypeOK
<1>2. Progress' /\ Blocks'
  BY DEF Progress, Processed, Blocks, BlockStart
<1>3. Header'
  BY <1>0 DEF Header
<1>4. Place'
  <2>1. output = <<>> /\ dblock = 0 /\ Len(output) = 0
    BY DEF Place
  <2>2. BlockStart(dblock + 1)' = 0
    BY <2>1 DEF BlockStart
  <2>3. dpc' \in {"error", "block"} /\ Stopped' /\ dblock' = dblock /\ output' = output
    BY <1>0 DEF Stopped
  <2>4. \A b \in 1..dblock' : ReadsBack(b)'
    BY <2>1, <2>3
  <2>5. dblock' <= Len(blockEnd')
    BY DEF Place
  <2> QED BY <2>1, <2>2, <2>3, <2>4, <2>5 DEF Place
<1> QED
  BY <1>1, <1>2, <1>3, <1>4

(* At the end all that is in the archive has been restored.                  *)
LEMMA EndIsEnd ==
  ASSUME Base, dpc = "block", AtEnd
  PROVE  Len(output) = Len(archive) /\ AllReadBack
<1> USE DEF Base
<1> PICK b, e : b = dblock + 1 /\ e = Len(blockEnd)
  OBVIOUS
<1>0. /\ dblock \in Nat /\ e \in Nat /\ dblock <= e /\ Len(output) = BlockStart(b)
      /\ Len(archive) \in Nat /\ Len(output) \in Nat
      /\ blockEnd \in Seq(Nat) /\ archive \in Seq(Record)
      /\ \A i \in 1..e : blockEnd[i] \in Nat
  BY DEF TypeOK, Place
<1>1. \A i \in 1..dblock : ReadsBack(i)
  BY DEF Place
<1>2. CASE dblock = e
  <2>1. Len(output) = Len(archive)
    BY <1>0, <1>2 DEF Blocks, BlockStart
  <2> QED BY <1>1, <1>2, <2>1 DEF AllReadBack
<1>3. CASE dblock # e
  <2>1. dblock < e /\ blockEnd[b] = BlockStart(b)
    BY <1>0, <1>3 DEF AtEnd
  <2>2. b = e /\ e > 0
    <3>1. b \in 1..e
      BY <1>0, <2>1
    <3>2. ~(BlockStart(b) < blockEnd[b])
      BY <1>0, <2>1, <3>1
    <3>3. ~(b < e)
      BY <3>1, <3>2, Zenon DEF Blocks
    <3> QED BY <1>0, <3>1, <3>3
  <2>3. Len(output) = Len(archive)
    BY <1>0, <2>1, <2>2 DEF Blocks
  <2>4. ReadsBack(b)
    <3>1. SubSeq(archive, BlockStart(b) + 1, blockEnd[b]) = <<>>
      BY <1>0, <2>1
    <3> QED BY <3>1 DEF ReadsBack
  <2>5. \A i \in 1..e : i \in 1..dblock \/ i = b
    BY <1>0, <2>2
  <2> QED BY <1>1, <2>3, <2>4, <2>5 DEF AllReadBack
<1> QED
  BY <1>2, <1>3

LEMMA DecodeBlockBase ==
  ASSUME Base, DecodeBlock
  PROVE  Base'
<1> USE DEF Base, DecodeBlock, compressor, stored
<1> PICK b, e : b = dblock + 1 /\ e = Len(blockEnd)
  OBVIOUS
<1>0. /\ dblock \in Nat /\ e \in Nat /\ dblock <= e /\ Len(output) = BlockStart(b)
      /\ dpc = "block" /\ Stopped /\ Len(output) \in Nat
      /\ \A i \in 1..e : blockEnd[i] \in Nat
      /\ \A i \in 1..dblock : ReadsBack(i)
      /\ dwin = header /\ header \notin {NoHeader, 0}
  BY DEF TypeOK, Place, Header
<1>1. /\ \A i : BlockStart(i)' = BlockStart(i) /\ ReadsBack(i)' = ReadsBack(i)
      /\ AllReadBack' = AllReadBack /\ Sure' = Sure
  BY RigidArchive
<1>2. Progress' /\ Blocks'
  BY DEF Progress, Processed, Blocks, BlockStart
<1>3. UNCHANGED <<input, cpc, archive, blockEnd, header, dwin, output>> /\ Stopped'
  BY <1>0 DEF Stopped
<1>4. CASE AtEnd
  <2>1. dpc' = "done" /\ dblock' = dblock
    BY <1>4
  <2>2. Len(output) = Len(archive) /\ AllReadBack
    BY <1>0, <1>4, EndIsEnd
  <2>3. TypeOK' /\ Header'
    BY <2>1 DEF TypeOK, Header
  <2>4. Place'
    BY <1>0, <1>1, <1>3, <2>1, <2>2 DEF Place
  <2> QED BY <1>2, <2>3, <2>4
<1>5. ASSUME ~AtEnd
      PROVE  b \in 1..e /\ BlockStart(b) < blockEnd[b]
  <2>1. b \in 1..e /\ blockEnd[b] # BlockStart(b)
    BY <1>0, <1>5 DEF AtEnd
  <2>2. BlockStart(b) <= blockEnd[b] /\ BlockStart(b) \in Nat
    BY <1>0, <2>1 DEF Blocks
  <2> QED BY <1>0, <2>1, <2>2
<1>6. CASE ~AtEnd /\ ReadsBack(b)
  <2>1. dpc' = "lines" /\ dblock' = b
    BY <1>6
  <2>2. TypeOK' /\ Header'
    BY <1>0, <2>1 DEF TypeOK, Header
  <2>3. Len(output) < blockEnd[b] /\ BlockStart(b) <= Len(output) /\ b \in 1..e
    BY <1>0, <1>5, <1>6
  <2>4. \A i \in 1..b : ReadsBack(i)'
    <3>1. \A i \in 1..b : i \in 1..dblock \/ i = b
      BY <1>0
    <3> QED BY <1>0, <1>1, <1>6, <3>1
  <2>5. b > 0 /\ b <= Len(blockEnd)
    BY <1>0, <2>3
  <2> HIDE DEF DecodeBlock
  <2>6. Place'
    BY <1>1, <1>3, <2>1, <2>3, <2>4, <2>5 DEF Place
  <2> QED BY <1>2, <2>2, <2>6
<1>7. CASE ~AtEnd /\ ~ReadsBack(b)
  <2>1. dpc' = "lost" /\ dblock' = dblock
    BY <1>7
  <2>2. TypeOK' /\ Header'
    BY <1>0, <2>1 DEF TypeOK, Header
  <2>3. dblock < e /\ BlockStart(b) <= Len(output)
    BY <1>0, <1>5, <1>7
  <2>4. Place'
    BY <1>0, <1>1, <1>3, <1>7, <2>1, <2>3 DEF Place
  <2> QED BY <1>2, <2>2, <2>4
<1> QED
  BY <1>4, <1>6, <1>7

(* The record at hand is one of the archive, and one of its block.           *)
LEMMA RecordAtHand ==
  ASSUME Base, dpc = "lines"
  PROVE  /\ Stopped /\ output \in Seq(Line) /\ dq \in Seq(Line) /\ dwin \in Nat \ {0}
         /\ Len(output) \in Nat /\ dblock \in 1..Len(blockEnd) /\ blockEnd[dblock] \in Nat
         /\ BlockStart(dblock) \in Nat /\ BlockStart(dblock) <= Len(output)
         /\ Len(output) < blockEnd[dblock] /\ blockEnd[dblock] <= Len(archive)
         /\ Len(output) + 1 \in 1..Len(archive) /\ archive[Len(output) + 1] \in Record
<1> USE DEF Base
<1> PICK last : last = blockEnd[dblock]
  OBVIOUS
<1>1. /\ output \in Seq(Line) /\ dq \in Seq(Line) /\ dwin \in Nat /\ dblock \in Nat
      /\ blockEnd \in Seq(Nat) /\ archive \in Seq(Record) /\ header \in Nat \cup {NoHeader}
  BY DEF TypeOK
<1>2. Stopped /\ dblock \in 1..Len(blockEnd) /\ BlockStart(dblock) <= Len(output) /\ Len(output) < last
  BY <1>1 DEF Place
<1>3. last \in Nat /\ BlockStart(dblock) \in Nat
  <2>1. dblock = 1 \/ dblock - 1 \in 1..Len(blockEnd)
    BY <1>1, <1>2
  <2>2. dblock # 1 => blockEnd[dblock - 1] \in Nat
    BY <1>1, <2>1, ElementOfSeq
  <2> QED BY <1>1, <1>2, <2>2, ElementOfSeq DEF BlockStart
<1>4. dwin # 0
  BY DEF Header
<1>5. last <= Len(archive)
  BY <1>2, Zenon DEF Blocks
<1>6. Len(output) \in Nat /\ Len(archive) \in Nat
  BY <1>1
<1>7. Len(output) + 1 \in 1..Len(archive)
  BY <1>2, <1>3, <1>5, <1>6
<1>8. archive[Len(output) + 1] \in Record
  BY <1>1, <1>7, ElementOfSeq
<1> QED
  BY <1>1, <1>2, <1>3, <1>4, <1>5, <1>6, <1>7, <1>8

LEMMA RecoverLineBase ==
  ASSUME Base, RecoverLine
  PROVE  Base'
<1> USE DEF Base, RecoverLine, compressor, stored
<1> PICK n : n = Len(output)
  OBVIOUS
<1> PICK last : last = blockEnd[dblock]
  OBVIOUS
<1> DEFINE rec == archive[n + 1]
           line == LineOf(rec)
<1>0. /\ dpc = "lines" /\ Stopped /\ output \in Seq(Line) /\ dq \in Seq(Line) /\ dwin \in Nat \ {0}
      /\ n \in Nat /\ dblock \in 1..Len(blockEnd) /\ last \in Nat
      /\ BlockStart(dblock) \in Nat /\ BlockStart(dblock) <= n /\ n < last /\ rec \in Record
  BY RecordAtHand
<1>1. /\ \A i : BlockStart(i)' = BlockStart(i) /\ ReadsBack(i)' = ReadsBack(i)
      /\ AllReadBack' = AllReadBack /\ Sure' = Sure
  BY RigidArchive
<1>2. Progress' /\ Blocks'
  BY DEF Progress, Processed, Blocks, BlockStart
<1>3. UNCHANGED <<input, cpc, archive, blockEnd, header, dwin, dblock>> /\ Stopped'
  BY <1>0 DEF Stopped
<1>4. dwin = header /\ header \notin {NoHeader, 0} /\ \A i \in 1..dblock : ReadsBack(i)
  BY <1>0 DEF Header, Place
<1>5. CASE BadReference(rec)
  <2>1. dpc' = "error" /\ dq' = dq /\ output' = output
    BY <1>5
  <2>2. TypeOK' /\ Header'
    BY <2>1 DEF TypeOK, Header
  <2>3. Place'
    BY <1>0, <1>1, <1>3, <2>1 DEF Place
  <2> QED BY <1>2, <2>2, <2>3
<1>6. CASE ~BadReference(rec)
  <2>1. line \in Line
    <3>1. rec.method \in {0, 1} /\ (rec.method = 1 => rec.line \in Line)
      BY <1>0 DEF Record
    <3>2. rec.method = 0 => Patch(rec.ops, dq[rec.begin + 1]) \in Line
      BY <1>6 DEF BadReference
    <3> QED BY <3>1, <3>2 DEF LineOf
  <2>2. /\ output' = Append(output, line)
        /\ dq' = Slide(dq, line, dwin)
        /\ dpc' = IF n + 1 = last THEN "block" ELSE "lines"
    BY <1>0, <1>6, Zenon
  <2> HIDE DEF line, rec
  <2>3. output' \in Seq(Line) /\ Len(output') = n + 1
    BY <1>0, <2>1, <2>2, AppendProperties
  <2>4. dq' \in Seq(Line)
    BY <1>0, <2>1, <2>2, SlideTyped
  <2>5. dpc' \in {"block", "lines"} /\ (dpc' = "block" => n + 1 = last)
        /\ (dpc' = "lines" => n + 1 # last)
    BY <2>2
  <2>6. TypeOK'
    BY <2>3, <2>4, <2>5 DEF TypeOK
  <2>7. Header'
    BY <1>3, <1>4, <2>5 DEF Header
  <2>8. Place'
    <3>1. BlockStart(dblock + 1) = last
      BY <1>0 DEF BlockStart
    <3>2. dpc' = "block" => Len(output') = BlockStart(dblock + 1)
      BY <2>3, <2>5, <3>1
    <3>3. dpc' = "lines" => BlockStart(dblock) <= Len(output') /\ Len(output') < last
      BY <1>0, <2>3, <2>5
    <3>4. dblock > 0 /\ dblock <= Len(blockEnd) /\ dpc' \notin {"start", "lost", "done"}
      BY <1>0, <2>5
    <3> HIDE DEF Base, RecoverLine
    <3> QED BY <1>1, <1>3, <1>4, <3>2, <3>3, <3>4 DEF Place
  <2> QED BY <1>2, <2>6, <2>7, <2>8
<1> QED
  BY <1>5, <1>6

(* Out of step, all that is sure has been restored.                          *)
LEMMA OutOfStep ==
  ASSUME Base, dpc = "lost"
  PROVE  ~AllReadBack /\ Sure = BlockStart(dblock + 1) /\ Sure \in Nat /\ Sure <= Len(output)
<1>0. /\ dblock \in 0..(Len(blockEnd) - 1) /\ BlockStart(dblock + 1) <= Len(output)
      /\ ~ReadsBack(dblock + 1) /\ \A i \in 1..dblock : ReadsBack(i)
  BY DEF Base, Place, TypeOK
<1>1. SureFacts
  BY SureHolds DEF Base
<1>2. Sure = BlockStart(dblock + 1) /\ Sure \in Nat
  BY <1>0, <1>1 DEF SureFacts
<1>3. dblock + 1 \in 1..Len(blockEnd)
  BY <1>0
<1> QED BY <1>0, <1>2, <1>3 DEF AllReadBack

LEMMA MisreadBase ==
  ASSUME Base, Misread
  PROVE  Base'
<1> USE DEF Base, Misread, compressor, stored
<1> PICK n, start : n = Len(output) /\ start = BlockStart(dblock + 1)
  OBVIOUS
<1>0. /\ dpc = "lost" /\ Stopped /\ output \in Seq(Line) /\ dq \in Seq(Line) /\ dwin \in Nat \ {0}
      /\ n \in Nat /\ dblock \in 0..(Len(blockEnd) - 1) /\ start <= n /\ start \in Nat
      /\ dwin = header /\ header \notin {NoHeader, 0}
      /\ ~ReadsBack(dblock + 1) /\ \A i \in 1..dblock : ReadsBack(i)
  <2>1. start \in Nat
    BY DEF Place, TypeOK, BlockStart
  <2> QED BY <2>1 DEF Place, Header, TypeOK
<1>1. /\ \A i : BlockStart(i)' = BlockStart(i) /\ ReadsBack(i)' = ReadsBack(i)
      /\ AllReadBack' = AllReadBack /\ Sure' = Sure
  BY RigidArchive
<1>2. Progress' /\ Blocks'
  BY DEF Progress, Processed, Blocks, BlockStart
<1>3. UNCHANGED <<input, cpc, archive, blockEnd, header, dwin, dblock>> /\ Stopped'
  BY <1>0 DEF Stopped
<1>4. Sure = start /\ ~AllReadBack
  BY <1>0, OutOfStep
<1>5. /\ output' \in Seq(Line) /\ dq' \in Seq(Line) /\ n <= Len(output')
      /\ dpc' \in {"lost", "done", "error"}
  <2>1. CASE dpc' = dpc /\ \E line \in Line : output' = Append(output, line) /\ dq' = Slide(dq, line, dwin)
    <3>1. PICK line \in Line : output' = Append(output, line) /\ dq' = Slide(dq, line, dwin)
      BY <2>1
    <3>2. output' \in Seq(Line) /\ Len(output') = n + 1
      BY <1>0, <3>1, AppendProperties
    <3>3. dq' \in Seq(Line)
      BY <1>0, <3>1, SlideTyped
    <3> QED BY <1>0, <2>1, <3>2, <3>3
  <2>2. CASE dpc' \in {"done", "error"} /\ dq' = dq /\ output' = output
    BY <1>0, <2>2
  <2> QED BY <2>1, <2>2
<1>6. start <= Len(output')
  BY <1>0, <1>5
<1>7. TypeOK'
  BY <1>5 DEF TypeOK
<1> HIDE DEF Misread
<1>8. Header'
  BY <1>0, <1>3, <1>5 DEF Header
<1>9. Place'
  BY <1>0, <1>1, <1>3, <1>4, <1>5, <1>6 DEF Place
<1> QED
  BY <1>2, <1>7, <1>8, <1>9

LEMMA StutterBase ==
  ASSUME Base, UNCHANGED vars
  PROVE  Base'
<1> USE DEF Base, vars
<1>1. /\ \A i : BlockStart(i)' = BlockStart(i) /\ ReadsBack(i)' = ReadsBack(i)
      /\ AllReadBack' = AllReadBack /\ Sure' = Sure
  BY RigidArchive
<1>2. TypeOK' /\ Progress' /\ Blocks' /\ Header'
  BY DEF TypeOK, Progress, Processed, Blocks, BlockStart, Header
<1>3. Place'
  BY <1>1 DEF Place, Stopped
<1> QED
  BY <1>2, <1>3

LEMMA BaseStep == Base /\ [Next]_vars => Base'
<1> SUFFICES ASSUME Base, [Next]_vars PROVE Base'
  OBVIOUS
<1>1. CASE UNCHANGED vars
  BY <1>1, StutterBase
<1>2. CASE WriteHeader
  BY <1>2, WriteHeaderBase
<1>3. CASE ReadBlock
  BY <1>3, ReadBlockBase
<1>4. CASE CompressLine
  BY <1>4, CompressLineBase
<1>5. CASE WriteBlock
  BY <1>5, WriteBlockBase
<1>6. CASE Crash
  BY <1>6, CrashBase
<1>7. CASE ReadHeader
  BY <1>7, ReadHeaderBase
<1>8. CASE DecodeBlock
  BY <1>8, DecodeBlockBase
<1>9. CASE RecoverLine
  BY <1>9, RecoverLineBase
<1>10. CASE Misread
  BY <1>10, MisreadBase
<1>11. CASE Ended
  BY <1>11, StutterBase DEF Ended
<1> QED
  BY <1>1, <1>2, <1>3, <1>4, <1>5, <1>6, <1>7, <1>8, <1>9, <1>10, <1>11 DEF Next, Compress, Decompress

(* Where the programs are and what type their variables have does not depend *)
(* on the window size.                                                       *)
LEMMA BaseHolds == Spec => []Base
BY InitBase, BaseStep, PTL DEF Spec

--------------------------------------------------------------------------------
(* No line has come before the first.                                        *)
LEMMA EmptyWindow ==
  ASSUME input \in Seq(Line)
  PROVE  WindowAfter(0) = <<>>
<1>1. WindowAfter(0) \in Seq(Line) /\ Len(WindowAfter(0)) = 0
  BY WindowType, WindowAssumption DEF Least
<1> QED BY <1>1, EmptySeq

(* A file is a sequence of lines.                                            *)
LEMMA FileOfLines ==
  ASSUME TypeOK
  PROVE  input \in Seq(Line) /\ Len(input) \in Nat
BY InputsAssumption DEF TypeOK

(* Meaning holds at the start and every action keeps it, one lemma each.     *)
LEMMA InitMeaning == Init => Meaning
<1> SUFFICES ASSUME Init PROVE Meaning
  OBVIOUS
<1>1. WindowAfter(0) = <<>>
  BY InputsAssumption, EmptyWindow DEF Init
<1>2. Records
  BY <1>1 DEF Init, Records, Processed
<1>3. Restored /\ Refused
  BY <1>1 DEF Init, Restored, Refused
<1> QED BY <1>2, <1>3 DEF Meaning

(* Records mean the same while the compressor leaves them alone.             *)
LEMMA RecordsKept ==
  ASSUME Records, UNCHANGED <<input, cq, records, archive>>
  PROVE  Records'
BY Rigid DEF Records, Processed

(* Nothing is restored, nor refused, while the compressor runs.              *)
LEMMA NothingRestored ==
  ASSUME Base, ~Stopped, UNCHANGED <<input, decompressor>>
  PROVE  Restored' /\ Refused'
<1>1. dpc' = "start" /\ output' = <<>> /\ dq' = <<>>
  BY NotStarted DEF decompressor
<1>2. WindowAfter(0)' = <<>>
  BY EmptyWindow, FileOfLines, Rigid DEF Base
<1> QED BY <1>1, <1>2 DEF Restored, Refused

LEMMA CompressLineMeaning ==
  ASSUME Base, Meaning, CompressLine
  PROVE  Meaning'
<1> USE DEF CompressLine, stored
<1> PICK n : n = Processed
  OBVIOUS
<1> DEFINE line == input[n + 1]
           rec == RecordOf(cq, line)
<1>0. /\ input \in Seq(Line) /\ n \in 0..Len(input) /\ n < Len(input)
      /\ cq = WindowAfter(n) /\ records \in Seq(Record) /\ archive \in Seq(Record)
      /\ n = Len(archive) + Len(records)
  BY FileOfLines DEF Base, TypeOK, Meaning, Records, Processed
<1>1. Right(rec, n + 1) /\ rec \in Record
  <2>1. line \in Line
    BY <1>0, ElementOfSeq
  <2>2. cq \in Seq(Line)
    BY DEF Base, TypeOK
  <2> QED BY <1>0, <2>1, <2>2, RecordIsRight, RecordTyped
<1>2. cq' = WindowAfter(n + 1)
  BY <1>0, SlideWindow
<1>3. /\ records' = Append(records, rec) /\ Len(records') = Len(records) + 1
      /\ \A k \in 1..Len(records) : records'[k] = records[k]
      /\ records'[Len(records) + 1] = rec
  BY <1>0, <1>1, AppendProperties
<1> HIDE DEF rec, line
<1>4. Processed' = n + 1
  BY <1>0, <1>3 DEF Processed
<1>5. Records'
  <2>1. cq' = WindowAfter(Processed)'
    BY <1>2, <1>4, Rigid
  <2>2. \A k \in 1..Len(archive') : Right(archive[k], k)'
    BY Rigid DEF Meaning, Records
  <2>3. ASSUME NEW k \in 1..Len(records')
        PROVE  Right(records'[k], Len(archive) + k)
    <3>1. CASE k \in 1..Len(records)
      BY <1>3, <3>1 DEF Meaning, Records
    <3>2. CASE k = Len(records) + 1
      BY <1>0, <1>1, <1>3, <3>2
    <3> QED BY <1>0, <1>3, <3>1, <3>2
  <2>4. \A k \in 1..Len(records') : Right(records[k], Len(archive) + k)'
    BY <2>3, Rigid
  <2> QED BY <2>1, <2>2, <2>4 DEF Records
<1>6. Restored' /\ Refused'
  BY NothingRestored DEF Stopped
<1> QED BY <1>5, <1>6 DEF Meaning

(* A block's records mean in the archive what they meant before.             *)
LEMMA StoreBlockMeaning ==
  ASSUME Base, Meaning, StoreBlock, UNCHANGED <<input, cq, decompressor>>
  PROVE  Meaning'
<1> USE DEF StoreBlock
<1> PICK a, r : a = Len(archive) /\ r = Len(records)
  OBVIOUS
<1>0. /\ records \in Seq(Record) /\ archive \in Seq(Record) /\ a \in Nat /\ r \in Nat
  BY DEF Base, TypeOK
<1>1. /\ Len(archive') = a + r
      /\ \A k \in 1..a : archive'[k] = archive[k]
      /\ \A k \in 1..r : archive'[a + k] = records[k]
  <2>1. archive' = archive \o records
    OBVIOUS
  <2>2. \A k \in 1..(a + r) : archive'[k] = IF k <= a THEN archive[k] ELSE records[k - a]
    BY <1>0, <2>1, ConcatProperties
  <2>3. \A k \in 1..r : a + k \in 1..(a + r) /\ ~(a + k <= a) /\ (a + k) - a = k
    BY <1>0
  <2>4. Len(archive') = a + r
    BY <1>0, <2>1, ConcatProperties
  <2>5. \A k \in 1..a : k \in 1..(a + r) /\ k <= a
    BY <1>0
  <2> QED BY <2>2, <2>3, <2>4, <2>5
<1>2. records' = <<>> /\ Len(records') = 0
  OBVIOUS
<1>3. Records'
  <2>1. cq' = WindowAfter(Processed)' /\ Processed' = Processed
    BY <1>0, <1>1, <1>2, Rigid DEF Meaning, Records, Processed
  <2>2. ASSUME NEW k \in 1..Len(archive')
        PROVE  Right(archive'[k], k)
    <3>1. CASE k \in 1..a
      BY <1>1, <3>1 DEF Meaning, Records
    <3>2. CASE ~(k \in 1..a)
      <4>1. k - a \in 1..r /\ a + (k - a) = k
        BY <1>0, <1>1, <3>2
      <4>2. Right(records[k - a], a + (k - a))
        BY <4>1 DEF Meaning, Records
      <4> QED BY <1>1, <4>1, <4>2
    <3> QED BY <3>1, <3>2
  <2>3. \A k \in 1..Len(archive') : Right(archive[k], k)'
    BY <2>2, Rigid
  <2>4. \A k \in 1..Len(records') : Right(records[k], Len(archive) + k)'
    BY <1>2
  <2> QED BY <2>1, <2>3, <2>4 DEF Records
<1>4. Restored' /\ Refused'
  BY NothingRestored DEF Stopped
<1> QED BY <1>3, <1>4 DEF Meaning

LEMMA CrashMeaning ==
  ASSUME Base, Meaning, Crash
  PROVE  Meaning'
<1>1. UNCHANGED <<input, cq, decompressor>> /\ ~Stopped
  BY DEF Crash, Stopped
<1>2. CASE StoreBlock
  BY <1>1, <1>2, StoreBlockMeaning
<1>3. CASE UNCHANGED <<records, archive, blockEnd>>
  <2>1. Records'
    BY <1>1, <1>3, RecordsKept DEF Meaning
  <2> QED BY <1>1, <2>1, NothingRestored DEF Meaning
<1> QED
  BY <1>2, <1>3 DEF Crash

LEMMA ReadHeaderMeaning ==
  ASSUME WindowFits, Base, Meaning, ReadHeader
  PROVE  Meaning'
<1> USE DEF ReadHeader, compressor, stored
<1>1. Records'
  BY RecordsKept DEF Meaning
<1>2. output = <<>> /\ dq = <<>> /\ output' = output /\ dq' = dq /\ dpc' \in {"block", "error"}
  BY DEF Base, Place
<1>3. WindowAfter(0)' = <<>>
  BY EmptyWindow, FileOfLines, Rigid DEF Base
<1>4. Restored'
  BY <1>2, <1>3 DEF Restored
<1>5. Refused'
  <2>1. WindowSize % FieldSize = WindowSize /\ WindowSize # 0
    BY WindowAssumption DEF WindowFits
  <2>2. ASSUME dpc' = "error" PROVE AllReadBack /\ header = NoHeader
    <3>1. header = NoHeader /\ blockEnd = <<>>
      BY <2>1, <2>2 DEF Base, Header
    <3> QED BY <3>1 DEF AllReadBack
  <2> QED BY <1>2, <2>2, RigidArchive DEF Refused
<1> QED BY <1>1, <1>4, <1>5 DEF Meaning

LEMMA DecodeBlockMeaning ==
  ASSUME Base, Meaning, DecodeBlock
  PROVE  Meaning'
<1> USE DEF DecodeBlock, compressor, stored
<1>1. Records'
  BY RecordsKept DEF Meaning
<1>2. dpc' \in {"done", "lines", "lost"}
  OBVIOUS
<1>3. Restored' /\ Refused'
  BY <1>2, Rigid, RigidArchive DEF Meaning, Restored, Refused
<1> QED BY <1>1, <1>3 DEF Meaning

LEMMA RecoverLineMeaning ==
  ASSUME WindowFits, Base, Meaning, RecoverLine
  PROVE  Meaning' /\ dpc' # "error" /\ output' = Append(output, input[Len(output) + 1])
<1> USE DEF RecoverLine, compressor, stored
<1> PICK n : n = Len(output)
  OBVIOUS
<1> DEFINE rec == archive[n + 1]
           last == blockEnd[dblock]
<1>0. /\ dpc = "lines" /\ Stopped /\ output \in Seq(Line) /\ dq \in Seq(Line)
      /\ n \in Nat /\ n + 1 \in 1..Len(archive) /\ rec \in Record
  BY RecordAtHand
<1>1. input \in Seq(Line) /\ n \in 0..Len(input) /\ n < Len(input)
  <2>1. Len(archive) \in Nat /\ Len(records) \in Nat /\ fetched \in 0..Len(input)
    BY DEF Base, TypeOK
  <2>2. Len(archive) + Len(records) <= fetched
    BY Zenon DEF Base, Progress, Processed
  <2>3. input \in Seq(Line) /\ Len(input) \in Nat
    BY FileOfLines DEF Base
  <2> QED BY <1>0, <2>1, <2>2, <2>3
<1>2. Right(rec, n + 1) /\ dq = WindowAfter(n) /\ dwin = WindowSize
  <2>1. WindowSize % FieldSize = WindowSize
    BY WindowAssumption DEF WindowFits
  <2>2. dwin = WindowSize
    BY <1>0, <2>1 DEF Base, Header
  <2> QED BY <1>0, <2>2 DEF Meaning, Records, Restored
<1>3. ~BadReference(rec) /\ LineOf(rec) = input[n + 1] /\ input[n + 1] \in Line
  <2>1. WindowAfter((n + 1) - 1) = WindowAfter(n)
    BY <1>0
  <2>2. /\ rec.method = 0 => /\ rec.begin \in Nat /\ rec.begin < Len(dq)
                             /\ Patch(rec.ops, dq[rec.begin + 1]) = input[n + 1]
        /\ rec.method # 0 => rec.line = input[n + 1]
    BY <1>2, <2>1, Zenon DEF Right
  <2>3. input[n + 1] \in Line
    BY <1>0, <1>1, ElementOfSeq
  <2>4. Len(dq) \in Nat
    BY <1>0
  <2> HIDE DEF rec
  <2> QED BY <2>2, <2>3, <2>4 DEF BadReference, LineOf
<1>4. /\ output' = Append(output, input[n + 1])
      /\ dq' = Slide(dq, input[n + 1], WindowSize)
      /\ dpc' \in {"block", "lines"}
  BY <1>0, <1>2, <1>3, Zenon
<1>5. /\ Len(output') = n + 1
      /\ \A i \in 1..n : output'[i] = output[i]
      /\ output'[n + 1] = input[n + 1]
  BY <1>0, <1>3, <1>4, AppendProperties
<1>6. dq' = WindowAfter(n + 1)
  BY <1>0, <1>1, <1>2, <1>4, SlideWindow
<1>7. UNCHANGED <<input, cq, records, archive, blockEnd>>
  OBVIOUS
<1> HIDE DEF rec, last, RecoverLine
<1>8. Records'
  BY <1>7, RecordsKept DEF Meaning
<1>9. Restored'
  <2>1. ASSUME NEW i \in 1..(n + 1), i <= Sure PROVE output'[i] = input[i]
    <3>1. i \in 1..n \/ i = n + 1
      BY <1>0
    <3> QED BY <1>5, <2>1, <3>1 DEF Meaning, Restored
  <2>2. \A i \in 1..Len(output') : i <= Sure' => output'[i] = input'[i]
    BY <1>5, <1>7, <2>1, RigidArchive
  <2>3. dq' = WindowAfter(Len(output))'
    BY <1>5, <1>6, <1>7, Rigid
  <2> QED BY <2>2, <2>3 DEF Restored
<1>10. Refused'
  BY <1>4 DEF Refused
<1> QED
  BY <1>4, <1>8, <1>9, <1>10 DEF Meaning

LEMMA MisreadMeaning ==
  ASSUME Base, Base', Meaning, Misread
  PROVE  Meaning' /\ \A i \in 1..Sure : output'[i] = output[i]
<1> USE DEF Misread, compressor, stored
<1> PICK n : n = Len(output)
  OBVIOUS
<1>0. /\ dpc = "lost" /\ output \in Seq(Line) /\ n \in Nat /\ ~AllReadBack
      /\ Sure \in Nat /\ Sure <= n
  BY OutOfStep DEF Base, TypeOK
<1>1. /\ UNCHANGED <<input, cq, records, archive, blockEnd, header>>
      /\ AllReadBack' = AllReadBack /\ Sure' = Sure
  BY RigidArchive
<1>2. /\ dpc' \in {"lost", "done", "error"} /\ n <= Len(output')
      /\ \A i \in 1..n : output'[i] = output[i]
  <2>1. CASE dpc' = dpc /\ \E line \in Line : output' = Append(output, line)
    <3>1. PICK line \in Line : output' = Append(output, line)
      BY <2>1
    <3>2. Len(output') = n + 1 /\ \A i \in 1..n : output'[i] = output[i]
      BY <1>0, <3>1, AppendProperties
    <3> QED BY <1>0, <2>1, <3>2
  <2>2. CASE dpc' \in {"done", "error"} /\ output' = output
    BY <1>0, <2>2
  <2> QED BY <2>1, <2>2
<1> HIDE DEF Misread
<1>3. Records'
  BY <1>1, RecordsKept DEF Meaning
<1>4. \A i \in 1..Sure : i \in 1..n /\ output'[i] = output[i]
  BY <1>0, <1>2
<1>5. Len(output') \in Nat
  BY DEF Base, TypeOK
<1>6. Restored'
  <2>1. ASSUME NEW i \in 1..Len(output'), i <= Sure PROVE output'[i] = input[i]
    <3>1. i \in 1..Sure
      BY <1>0, <1>5, <2>1
    <3> QED BY <1>4, <2>1, <3>1 DEF Meaning, Restored
  <2> QED BY <1>0, <1>1, <1>2, <2>1 DEF Restored
<1>7. Refused'
  <2>1. Sure <= Len(output')
    BY <1>0, <1>2, <1>5
  <2> QED BY <1>0, <1>1, <2>1 DEF Refused
<1> QED
  BY <1>3, <1>4, <1>6, <1>7 DEF Meaning

LEMMA StutterMeaning ==
  ASSUME Meaning, UNCHANGED vars
  PROVE  Meaning'
<1> USE DEF vars
<1>1. Records'
  BY RecordsKept DEF Meaning
<1>2. Restored' /\ Refused'
  BY Rigid, RigidArchive DEF Meaning, Restored, Refused
<1> QED BY <1>1, <1>2 DEF Meaning

LEMMA MeaningStep ==
  ASSUME WindowFits
  PROVE  Base /\ Base' /\ Meaning /\ [Next]_vars => Meaning'
<1> SUFFICES ASSUME Base, Base', Meaning, [Next]_vars PROVE Meaning'
  OBVIOUS
<1>1. CASE UNCHANGED vars
  BY <1>1, StutterMeaning
<1>2. CASE WriteHeader \/ ReadBlock
  <2>1. UNCHANGED <<input, cq, records, archive, decompressor>> /\ ~Stopped
    BY <1>2 DEF WriteHeader, ReadBlock, stored, Stopped
  <2>2. Records'
    BY <2>1, RecordsKept DEF Meaning
  <2> QED BY <2>1, <2>2, NothingRestored DEF Meaning
<1>3. CASE CompressLine
  BY <1>3, CompressLineMeaning
<1>4. CASE WriteBlock
  BY <1>4, StoreBlockMeaning DEF WriteBlock
<1>5. CASE Crash
  BY <1>5, CrashMeaning
<1>6. CASE ReadHeader
  BY <1>6, ReadHeaderMeaning
<1>7. CASE DecodeBlock
  BY <1>7, DecodeBlockMeaning
<1>8. CASE RecoverLine
  BY <1>8, RecoverLineMeaning
<1>9. CASE Misread
  BY <1>9, MisreadMeaning
<1>10. CASE Ended
  BY <1>10, StutterMeaning DEF Ended
<1> QED
  BY <1>1, <1>2, <1>3, <1>4, <1>5, <1>6, <1>7, <1>8, <1>9, <1>10 DEF Next, Compress, Decompress

(* The invariant holds of every behaviour, when the header can represent the *)
(* window size.                                                              *)
LEMMA Invariance ==
  ASSUME WindowFits
  PROVE  Spec => [](Base /\ Meaning)
BY InitBase, BaseStep, InitMeaning, MeaningStep, PTL DEF Spec

(* No more is restored from an archive that reads back than is in it.        *)
LEMMA RestoredIsStored ==
  ASSUME Base, Meaning, AllReadBack
  PROVE  Len(output) <= Len(archive)
<1> USE DEF Base
<1>1. /\ dpc \in {"start", "block", "lines", "lost", "done", "error"}
      /\ Len(output) \in Nat /\ Len(archive) \in Nat /\ Len(blockEnd) \in Nat /\ dblock \in Nat
      /\ \A b \in 1..Len(blockEnd) : blockEnd[b] \in Nat
  BY DEF TypeOK
<1>2. CASE dpc \in {"start", "error"}
  <2>1. output = <<>>
    BY <1>2 DEF Place, Meaning, Refused
  <2> QED BY <1>1, <2>1
<1>3. CASE dpc = "block"
  <2>1. Len(output) = BlockStart(dblock + 1) /\ dblock <= Len(blockEnd)
    BY <1>3 DEF Place
  <2>2. CASE dblock = 0
    BY <1>1, <2>1, <2>2 DEF BlockStart
  <2>3. CASE dblock > 0
    <3>1. Len(output) = blockEnd[dblock] /\ dblock \in 1..Len(blockEnd)
      BY <1>1, <2>1, <2>3 DEF BlockStart
    <3> QED BY <3>1 DEF Blocks
  <2> QED BY <1>1, <2>2, <2>3
<1>4. CASE dpc = "lines"
  <2>1. Len(output) < blockEnd[dblock] /\ blockEnd[dblock] <= Len(archive) /\ blockEnd[dblock] \in Nat
    BY <1>4, RecordAtHand
  <2> QED BY <1>1, <2>1
<1>5. CASE dpc = "lost"
  BY <1>5, OutOfStep
<1>6. CASE dpc = "done"
  BY <1>1, <1>6 DEF Place
<1> QED
  BY <1>1, <1>2, <1>3, <1>4, <1>5, <1>6

--------------------------------------------------------------------------------
(* What the model checker checks on small files follows for every file.      *)

(* Every variable keeps its type: in particular the edits a record holds are *)
(* a matcher's, and its reference is a window index.                         *)
THEOREM TypeCorrect == Spec => []TypeOK
<1>1. Base => TypeOK
  BY DEF Base
<1> QED
  BY <1>1, BaseHolds, PTL

(* The two windows agree: RecoverLine rebuilds record k from the window that *)
(* CompressLine coded record k against, until the decompressor meets a block *)
(* the format does not carry.                                                *)
THEOREM WindowsInSync ==
  ASSUME WindowFits
  PROVE  Spec => []WindowsAgree
<1>1. Base /\ Meaning => WindowsAgree
  <2> SUFFICES ASSUME Base, Meaning PROVE WindowsAgree
    OBVIOUS
  <2>1. cq = WindowAfter(Processed)
    BY DEF Meaning, Records
  <2>2. ASSUME ~AllReadBack, Len(output) < Sure PROVE dpc \in {"start", "block", "lines"}
    <3>1. Sure \in Nat /\ Len(output) \in Nat
      BY SureHolds DEF Base, SureFacts, TypeOK
    <3>2. dpc # "lost"
      BY <2>2, <3>1, OutOfStep
    <3>3. dpc # "done"
      BY <2>2, <3>1 DEF Base, Place
    <3>4. dpc # "error"
      BY <2>2, <3>1 DEF Meaning, Refused
    <3>5. dpc \in {"start", "block", "lines", "lost", "done", "error"}
      BY DEF Base, TypeOK
    <3> QED BY <3>2, <3>3, <3>4, <3>5
  <2> QED BY <2>1, <2>2 DEF WindowsAgree, Meaning, Restored
<1> QED
  BY <1>1, Invariance, PTL

(* What is restored is the beginning of the file, up to the first block the  *)
(* format does not carry.                                                    *)
THEOREM RestoresPrefix ==
  ASSUME WindowFits
  PROVE  Spec => []OutputIsPrefix
<1>1. Base /\ Meaning => OutputIsPrefix
  <2> SUFFICES ASSUME Base, Meaning PROVE OutputIsPrefix
    OBVIOUS
  <2>1. /\ Len(output) \in Nat /\ Len(archive) \in Nat /\ Len(records) \in Nat
        /\ fetched \in 0..Len(input)
    BY DEF Base, TypeOK
  <2>2. Sure \in 0..Len(archive) /\ (AllReadBack => Sure = Len(archive))
    BY SureHolds DEF Base, SureFacts
  <2>3. \A i \in 1..Least(Len(output), Sure) : output[i] = input[i]
    <3> TAKE i \in 1..Least(Len(output), Sure)
    <3>1. i \in 1..Len(output) /\ i <= Sure
      BY <2>1, <2>2 DEF Least
    <3> QED BY <3>1 DEF Meaning, Restored
  <2>4. ASSUME AllReadBack PROVE Len(output) <= Len(input)
    <3>1. Len(output) <= Len(archive)
      BY <2>4, RestoredIsStored
    <3>2. Len(archive) + Len(records) <= fetched
      BY Zenon DEF Base, Progress, Processed
    <3>3. Len(input) \in Nat
      BY FileOfLines DEF Base
    <3> QED BY <2>1, <3>1, <3>2, <3>3
  <2> QED BY <2>3, <2>4 DEF OutputIsPrefix
<1> QED
  BY <1>1, Invariance, PTL

(* Success with an archive the format carries means the whole archive is     *)
(* back, and after a finished compression the whole file.                    *)
THEOREM SuccessMeansComplete ==
  ASSUME WindowFits
  PROVE  Spec => []SuccessIsComplete
<1>1. Base /\ Meaning => SuccessIsComplete
  <2> SUFFICES ASSUME Base, Meaning, dpc = "done", AllReadBack
               PROVE  /\ Len(output) = Len(archive)
                      /\ cpc = "done" => output = input
    BY DEF SuccessIsComplete
  <2>1. Len(output) = Len(archive)
    BY DEF Base, Place
  <2>2. ASSUME cpc = "done" PROVE output = input
    <3>1. Len(output) = Len(input)
      BY <2>1, <2>2 DEF Base, Progress
    <3>2. input \in Seq(Line) /\ output \in Seq(Line) /\ Len(output) \in Nat
      BY FileOfLines DEF Base, TypeOK
    <3>3. Sure = Len(output)
      BY <2>1, SureHolds DEF Base, SureFacts
    <3>4. \A i \in 1..Len(output) : output[i] = input[i]
      BY <3>2, <3>3 DEF Meaning, Restored
    <3> QED BY <3>1, <3>2, <3>4, SeqEqual
  <2> QED BY <2>1, <2>2
<1> QED
  BY <1>1, Invariance, PTL

(* An archive with a header that the format carries is never refused, and    *)
(* none is before its sure records are restored.                             *)
THEOREM NeverRefused ==
  ASSUME WindowFits
  PROVE  Spec => []RefusedOnlyWithoutHeader
<1>1. Base /\ Meaning => RefusedOnlyWithoutHeader
  <2> SUFFICES ASSUME Base, Meaning, dpc = "error"
               PROVE  /\ AllReadBack => header = NoHeader /\ output = <<>>
                      /\ Len(output) >= Sure
    BY DEF RefusedOnlyWithoutHeader
  <2>1. Sure \in Nat /\ Len(output) \in Nat /\ (AllReadBack => Sure = Len(archive))
    BY SureHolds DEF Base, SureFacts, TypeOK
  <2>2. CASE AllReadBack
    <3>1. header = NoHeader /\ output = <<>>
      BY <2>2 DEF Meaning, Refused
    <3>2. Len(archive) = 0
      BY <3>1 DEF Base, Header, Blocks
    <3> QED BY <2>1, <2>2, <3>1, <3>2
  <2>3. CASE ~AllReadBack
    BY <2>1, <2>3 DEF Meaning, Refused
  <2> QED BY <2>2, <2>3
<1> QED
  BY <1>1, Invariance, PTL

--------------------------------------------------------------------------------
(* The abstract closed, restored and verdict of a state of the pair.         *)
Closed == IF cpc = "done" THEN "complete" ELSE IF cpc = "crashed" THEN "cut" ELSE "no"
Shown == SubSeq(output, 1, Least(Len(output), Sure))
Verdict == IF ~AllReadBack \/ dpc \notin {"done", "error"} THEN "none"
           ELSE IF dpc = "done" THEN "success" ELSE "refused"

(* The first k lines of an output of no more are all of it, and appending to *)
(* a longer one changes nothing.                                             *)
LEMMA ShownAll ==
  ASSUME NEW s \in Seq(Line), NEW k \in Nat, Len(s) <= k
  PROVE  SubSeq(s, 1, Least(Len(s), k)) = s
<1>1. Len(s) \in Nat /\ Least(Len(s), k) = Len(s)
  BY DEF Least
<1>2. SubSeq(s, 1, Len(s)) = s
  <2>1. \A i \in 1..Len(s) : s[i] \in Line
    BY ElementOfSeq
  <2>2. /\ SubSeq(s, 1, Len(s)) \in Seq(Line) /\ Len(SubSeq(s, 1, Len(s))) = Len(s)
        /\ \A i \in 1..Len(s) : SubSeq(s, 1, Len(s))[i] = s[i]
    BY <1>1, <2>1
  <2> QED BY <2>2, SeqEqual
<1> QED
  BY <1>1, <1>2

LEMMA ShownKept ==
  ASSUME NEW s \in Seq(Line), NEW t \in Seq(Line), NEW k \in Nat,
         k <= Len(s), k <= Len(t), \A i \in 1..k : t[i] = s[i]
  PROVE  SubSeq(t, 1, Least(Len(t), k)) = SubSeq(s, 1, Least(Len(s), k))
<1>1. Len(s) \in Nat /\ Len(t) \in Nat /\ Least(Len(s), k) = k /\ Least(Len(t), k) = k
  BY DEF Least
<1>2. \A i \in 1..k : i \in 1..Len(s) /\ i \in 1..Len(t)
  BY <1>1
<1>3. \A i \in 1..k : s[i] \in Line /\ t[i] \in Line
  BY <1>2, ElementOfSeq
<1>4. /\ SubSeq(s, 1, k) \in Seq(Line) /\ Len(SubSeq(s, 1, k)) = k
      /\ \A i \in 1..k : SubSeq(s, 1, k)[i] = s[i]
  BY <1>1, <1>3
<1>5. /\ SubSeq(t, 1, k) \in Seq(Line) /\ Len(SubSeq(t, 1, k)) = k
      /\ \A i \in 1..k : SubSeq(t, 1, k)[i] = t[i]
  BY <1>1, <1>3
<1>6. SubSeq(t, 1, k) = SubSeq(s, 1, k)
  BY <1>4, <1>5, SeqEqual
<1> QED
  BY <1>1, <1>6

(* What the abstract archive does not show of a step.                        *)
Same == UNCHANGED <<input, Len(archive), Closed, Shown, Verdict>>

LEMMA SameStutters == Same => UNCHANGED Promise!archiveVars
BY Zenon DEF Same, Promise!archiveVars, Closed, Shown, Verdict

(* While the compressor runs nothing is shown.                               *)
LEMMA NothingShown ==
  ASSUME Base, Base', SureFacts, SureFacts', ~Stopped, UNCHANGED decompressor
  PROVE  Shown = <<>> /\ Shown' = <<>> /\ Verdict = "none" /\ Verdict' = "none"
<1>1. dpc = "start" /\ output = <<>> /\ dpc' = "start" /\ output' = <<>>
  BY NotStarted DEF decompressor
<1>2. Sure \in Nat /\ Sure' \in Nat
  BY DEF SureFacts, Base, TypeOK
<1>3. \A k \in Nat : SubSeq(<<>>, 1, Least(Len(<<>>), k)) = <<>>
  <2>1. <<>> \in Seq(Line) /\ \A k \in Nat : Len(<<>>) <= k
    OBVIOUS
  <2> QED BY <2>1, ShownAll
<1>4. Shown = <<>> /\ Shown' = <<>>
  BY <1>1, <1>2, <1>3 DEF Shown
<1> QED
  BY <1>1, <1>4 DEF Verdict

(* How many records the archive holds after a block more.                    *)
LEMMA StoreBlockLength ==
  ASSUME Base, StoreBlock
  PROVE  Len(archive') \in Len(archive)..Len(input)
<1>1. /\ archive \in Seq(Record) /\ records \in Seq(Record) /\ fetched \in 0..Len(input)
      /\ Len(archive) + Len(records) = fetched /\ archive' = archive \o records
  BY DEF Base, TypeOK, StoreBlock, Processed
<1>2. Len(archive') = Len(archive) + Len(records)
  BY <1>1, ConcatProperties
<1>3. Len(input) \in Nat
  BY FileOfLines DEF Base
<1> QED BY <1>1, <1>2, <1>3

LEMMA StoredLength ==
  ASSUME Base
  PROVE  Len(archive) \in Len(archive)..Len(input)
<1>1. /\ archive \in Seq(Record) /\ records \in Seq(Record) /\ fetched \in 0..Len(input)
      /\ Len(archive) + Len(records) <= fetched
  BY Zenon DEF Base, TypeOK, Progress, Processed
<1>2. Len(input) \in Nat
  BY FileOfLines DEF Base
<1> QED BY <1>1, <1>2

(* Every step of the pair is a step of the abstract archive, or leaves it.   *)
LEMMA CompressRefines ==
  ASSUME Base, Base', SureFacts, SureFacts', Compress \/ Crash
  PROVE  [Promise!ArchiveNext]_(Promise!archiveVars)
<1>0. ~Stopped /\ UNCHANGED <<input, decompressor>>
  BY DEF Compress, WriteHeader, ReadBlock, CompressLine, WriteBlock, StoreBlock, Crash, Stopped
<1>1. Shown = <<>> /\ Shown' = <<>> /\ Verdict = "none" /\ Verdict' = "none" /\ Closed = "no"
      /\ input' = input
  BY <1>0, NothingShown DEF Closed, Stopped
<1>2. CASE WriteHeader \/ ReadBlock \/ CompressLine
  <2>1. Closed' = Closed /\ archive' = archive
    BY <1>2 DEF WriteHeader, ReadBlock, CompressLine, stored, Closed
  <2> QED BY <1>1, <2>1, SameStutters DEF Same
<1>3. CASE WriteBlock
  <2>1. Len(archive') \in Len(archive)..Len(input) /\ cpc' \in {"done", "read"}
    BY <1>3, StoreBlockLength DEF WriteBlock
  <2>2. CASE cpc' = "done"
    <3>1. Len(archive') = Len(input) /\ Closed' = "complete"
      BY <1>1, <2>2 DEF Base, Progress, Closed
    <3>2. Promise!Close
      BY <1>1, <2>1, <3>1 DEF Promise!Close, Closed, Shown, Verdict
    <3> QED BY <3>2 DEF Promise!ArchiveNext
  <2>3. CASE cpc' = "read"
    <3>1. Closed' = "no"
      BY <2>3 DEF Closed
    <3>2. Promise!Store
      BY <1>1, <2>1, <3>1 DEF Promise!Store, Closed, Shown, Verdict
    <3> QED BY <3>2 DEF Promise!ArchiveNext
  <2> QED BY <2>1, <2>2, <2>3
<1>4. CASE Crash
  <2>1. Len(archive') \in Len(archive)..Len(input)
    <3>1. archive' = archive \/ StoreBlock
      BY <1>4 DEF Crash
    <3> QED BY <3>1, StoreBlockLength, StoredLength
  <2>2. Closed' = "cut"
    BY <1>4 DEF Crash, Closed
  <2>3. Promise!Close
    BY <1>1, <2>1, <2>2 DEF Promise!Close, Closed, Shown, Verdict
  <2> QED BY <2>3 DEF Promise!ArchiveNext
<1> QED
  BY <1>2, <1>3, <1>4 DEF Compress

LEMMA DecompressRefines ==
  ASSUME WindowFits, Base, Base', SureFacts, SureFacts', Meaning, Meaning', Decompress
  PROVE  [Promise!ArchiveNext]_(Promise!archiveVars)
<1>0. UNCHANGED <<input, compressor, stored>>
  BY DEF Decompress, ReadHeader, DecodeBlock, RecoverLine, Misread
<1>1. UNCHANGED <<input, cpc, archive, blockEnd, header>> /\ Closed' = Closed
      /\ AllReadBack' = AllReadBack /\ Sure' = Sure
  BY <1>0, RigidArchive DEF compressor, stored, Closed
<1>2. /\ output \in Seq(Line) /\ output' \in Seq(Line) /\ Sure \in Nat
      /\ Len(archive) \in Nat /\ Len(output) \in Nat
  <2>1. output \in Seq(Line) /\ archive \in Seq(Record)
    BY DEF Base, TypeOK
  <2>2. output' \in Seq(Line)
    BY DEF Base, TypeOK
  <2>3. Sure \in 0..Len(archive)
    BY DEF SureFacts
  <2> QED BY <2>1, <2>2, <2>3
<1>3. CASE ReadHeader
  <2>1. /\ Stopped /\ output' = output /\ output = <<>> /\ dpc' \in {"error", "block"}
        /\ dpc = "start"
    BY <1>3 DEF ReadHeader, Base, Place
  <2>2. Shown' = Shown
    BY <1>1, <2>1 DEF Shown
  <2>3. CASE Verdict' = "refused"
    <3>1. AllReadBack /\ dpc' = "error"
      BY <1>1, <2>3 DEF Verdict
    <3>2. header = NoHeader
      BY <1>1, <3>1 DEF Meaning, Refused
    <3>3. cpc = "crashed" /\ Len(archive) = 0
      BY <2>1, <3>2 DEF Base, Header, Blocks, Stopped
    <3>4. Closed = "cut" /\ Verdict = "none"
      BY <2>1, <3>3 DEF Closed, Verdict
    <3>5. Promise!Refuse
      BY <1>1, <2>2, <2>3, <3>3, <3>4 DEF Promise!Refuse, Closed, Shown, Verdict
    <3> QED BY <3>5 DEF Promise!ArchiveNext
  <2>4. CASE ~(Verdict' = "refused")
    <3>1. Verdict' = Verdict
      BY <2>1, <2>4 DEF Verdict
    <3> QED BY <1>1, <2>2, <3>1, SameStutters DEF Same
  <2> QED BY <2>3, <2>4
<1>4. CASE DecodeBlock
  <2>1. /\ dpc = "block" /\ output' = output /\ dpc' \in {"done", "lines", "lost"} /\ Stopped
        /\ dpc' = "done" => AtEnd
    BY <1>4 DEF DecodeBlock, Base, Place
  <2>2. Shown' = Shown /\ Verdict = "none"
    BY <1>1, <2>1 DEF Shown, Verdict
  <2>3. CASE dpc' = "done"
    <3>1. Len(output) = Len(archive) /\ AllReadBack
      BY <2>1, <2>3, EndIsEnd
    <3>2. Shown = output
      BY <1>2, <3>1, ShownAll DEF SureFacts, Shown
    <3>3. Verdict' = "success" /\ Closed # "no"
      BY <1>1, <2>1, <2>3, <3>1 DEF Verdict, Closed, Stopped
    <3>4. Promise!Succeed
      BY <1>1, <2>2, <3>1, <3>2, <3>3 DEF Promise!Succeed, Closed, Shown, Verdict
    <3> QED BY <3>4 DEF Promise!ArchiveNext
  <2>4. CASE dpc' # "done"
    <3>1. Verdict' = Verdict
      BY <2>1, <2>2, <2>4 DEF Verdict
    <3> QED BY <1>1, <2>2, <3>1, SameStutters DEF Same
  <2> QED BY <2>3, <2>4
<1>5. CASE RecoverLine
  <2>1. /\ dpc = "lines" /\ Stopped /\ dpc' \in {"lines", "block", "error"}
    BY <1>5, RecordAtHand DEF RecoverLine
  <2>2. dpc' # "error" /\ output' = Append(output, input[Len(output) + 1])
    BY <1>5, RecoverLineMeaning
  <2>3. Len(output) < Sure /\ Len(output) < Len(archive)
    <3>1. dblock \in 1..Len(blockEnd) /\ \A b \in 1..dblock : ReadsBack(b)
      BY <2>1, RecordAtHand DEF Base, Place
    <3>2. blockEnd[dblock] <= Sure /\ blockEnd[dblock] \in Nat /\ Len(output) < blockEnd[dblock]
          /\ blockEnd[dblock] <= Len(archive)
      BY <2>1, <3>1, RecordAtHand DEF SureFacts
    <3> QED BY <1>2, <3>2
  <2>4. Shown = output
    BY <1>2, <2>3, ShownAll DEF Shown
  <2>5. Shown' = output'
    <3>1. Len(output') = Len(output) + 1
      <4> DEFINE line == input[Len(output) + 1]
                 S == Line \cup {line}
      <4>1. output \in Seq(S) /\ line \in S
        BY <1>2, SeqMonotonic
      <4> QED BY <2>2, <4>1, AppendProperties
    <3>2. Len(output') <= Sure
      BY <1>2, <2>3, <3>1
    <3> QED BY <1>1, <1>2, <3>2, ShownAll DEF Shown
  <2>6. Verdict = "none" /\ Verdict' = "none" /\ Closed # "no"
    BY <2>1, <2>2 DEF Verdict, Closed, Stopped
  <2>7. Shown' = Append(Shown, input[Len(Shown) + 1]) /\ Len(Shown) < Len(archive)
    BY <2>2, <2>3, <2>4, <2>5
  <2>8. Promise!Restore
    BY <1>1, <2>6, <2>7 DEF Promise!Restore, Closed, Shown, Verdict
  <2> QED BY <2>8 DEF Promise!ArchiveNext
<1>6. CASE Misread
  <2>1. dpc = "lost" /\ ~AllReadBack /\ Sure <= Len(output)
    BY <1>6, OutOfStep DEF Misread
  <2>2. Verdict' = Verdict
    BY <1>1, <2>1 DEF Verdict
  <2>3. Sure <= Len(output') /\ \A i \in 1..Sure : output'[i] = output[i]
    <3>1. \A i \in 1..Sure : output'[i] = output[i]
      BY <1>6, MisreadMeaning
    <3>2. Len(output) <= Len(output')
      <4>1. output' = output \/ \E line \in Line : output' = Append(output, line)
        BY <1>6 DEF Misread
      <4>2. \A line \in Line : Len(Append(output, line)) = Len(output) + 1
        BY <1>2, AppendProperties
      <4> QED BY <1>2, <4>1, <4>2
    <3>3. Len(output') \in Nat
      BY <1>2
    <3> QED BY <1>2, <2>1, <3>1, <3>2, <3>3
  <2>4. Shown' = Shown
    BY <1>1, <1>2, <2>1, <2>3, ShownKept DEF Shown
  <2> QED BY <1>1, <2>2, <2>4, SameStutters DEF Same
<1> QED
  BY <1>3, <1>4, <1>5, <1>6 DEF Decompress

LEMMA StepRefines ==
  ASSUME WindowFits, Base, Base', SureFacts, SureFacts', Meaning, Meaning', [Next]_vars
  PROVE  [Promise!ArchiveNext]_(Promise!archiveVars)
<1>1. CASE UNCHANGED vars
  <2>1. UNCHANGED <<input, output, archive, blockEnd>> /\ Closed' = Closed
        /\ AllReadBack' = AllReadBack /\ Sure' = Sure /\ dpc' = dpc
    BY <1>1, RigidArchive DEF vars, Closed
  <2>2. Same
    BY <2>1 DEF Same, Shown, Verdict
  <2> QED BY <2>2, SameStutters
<1>2. CASE Compress \/ Crash
  BY <1>2, CompressRefines
<1>3. CASE Decompress
  BY <1>3, DecompressRefines
<1>4. CASE Ended
  BY <1>1, <1>4 DEF Ended
<1> QED
  BY <1>1, <1>2, <1>3, <1>4 DEF Next

(* The pair of programs implements the abstract archive, up to the first     *)
(* block the format does not carry.                                          *)
THEOREM Implements ==
  ASSUME WindowFits
  PROVE  Spec => ImplementsArchive
<1>1. Init => Promise!ArchiveInit
  <2> SUFFICES ASSUME Init PROVE Promise!ArchiveInit
    OBVIOUS
  <2>1. Base /\ Meaning
    BY InitBase, InitMeaning
  <2>2. Sure \in Nat
    BY <2>1, SureHolds DEF Base, SureFacts, TypeOK
  <2>3. output = <<>> /\ dpc = "start" /\ cpc = "header" /\ archive = <<>> /\ input \in Inputs
    BY DEF Init
  <2>4. Shown = <<>>
    <3>1. output \in Seq(Line) /\ Len(output) <= Sure
      BY <2>2, <2>3
    <3> QED BY <2>2, <2>3, <3>1, ShownAll DEF Shown
  <2> QED BY <2>3, <2>4 DEF Promise!ArchiveInit, Shown
<1>2. WindowFits /\ (Base /\ Meaning /\ SureFacts) /\ (Base /\ Meaning /\ SureFacts)' /\ [Next]_vars
        => [Promise!ArchiveNext]_(Promise!archiveVars)
  BY StepRefines
<1>3. Base /\ Meaning => SureFacts
  BY SureHolds DEF Base
<1> QED
  BY <1>1, <1>2, <1>3, Invariance, PTL DEF Spec, ImplementsArchive, Promise!ArchiveSpec
================================================================================
