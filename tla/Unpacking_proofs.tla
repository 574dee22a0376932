---------------------------- MODULE Unpacking_proofs ----------------------------
(***************************************************************************)
(* For content, files and buffers of any size: what unpacking returns as   *)
(* success is the content without a hole, and a whole file is not refused, *)
(* as long as the sizes fit the 32-bit parameters; and the library is      *)
(* never told of space that is not there, whether they fit or not.         *)
(***************************************************************************)
EXTENDS Unpacking, TLAPS

(* Nothing is in the buffer before the first call.                           *)
Untouched ==
  /\ stage \in {"pack", "read"} =>
       size = 0 /\ avail = 0 /\ pos = 0 /\ output = <<>> /\ produced = 0
  /\ stage = "pack" => packed = 0

(* A file that is shown entire yields what the library was told to pack.     *)
Yields ==
  stage \in {"read", "loop"} => Told >= 0 /\ (Entire => reach = Told)

(* The loops fill the buffer from its beginning, and a call always finds     *)
(* space.                                                                    *)
Filled ==
  stage = "loop" /\ (kind = "gzip" => size < UIntRange) =>
    /\ pos = produced /\ avail = size - pos /\ output = Numbers(1, produced)
    /\ packed > 0 => avail > 0

(* The types, those of the numbers apart from those of the flags.            *)
FileTyped ==
  /\ kind \in Kinds /\ content \in 0..MaxContent /\ reach \in 0..content
  /\ packed \in 0..(content + Overhead)
BufferTyped ==
  /\ size \in Nat /\ pos \in 0..size /\ avail \in 0..(size - pos)
  /\ produced \in 0..reach
FlagsTyped ==
  /\ stage \in {"pack", "read", "loop", "true", "false"}
  /\ whole \in BOOLEAN /\ input \in BOOLEAN /\ idle \in BOOLEAN

IInv ==
  /\ TypeOK /\ Untouched /\ Yields /\ Filled
  /\ SuccessIsContent /\ WholeIsUnpacked

LEMMA TypeParts == TypeOK <=> FileTyped /\ BufferTyped /\ FlagsTyped
BY Zenon DEF TypeOK, FileTyped, BufferTyped, FlagsTyped

--------------------------------------------------------------------------------
(* A size passed through an unsigned int never grows, and is kept when it     *)
(* fits; so is one passed through an int when it fits and is not negative.   *)
LEMMA UIntKeeps ==
  ASSUME NEW m \in Nat
  PROVE  UInt(m) \in 0..m /\ (m < UIntRange => UInt(m) = m)
BY SizeAssumption DEF UInt

LEMMA SIntKeeps ==
  ASSUME NEW m \in Nat
  PROVE  /\ SInt(m) \in Int /\ SInt(m) <= m
         /\ m < UIntRange /\ SInt(m) >= 0 => SInt(m) = m
         /\ m < UIntRange \div 2 => SInt(m) = m
<1>1. UInt(m) \in 0..m /\ (m < UIntRange => UInt(m) = m) /\ UInt(m) < UIntRange
  BY UIntKeeps, SizeAssumption DEF UInt
<1>2. UIntRange \in Nat /\ UIntRange \div 2 \in Nat /\ UIntRange \div 2 <= UIntRange
  BY SizeAssumption
<1> QED
  BY <1>1, <1>2 DEF SInt

LEMMA ShownWhole ==
  ASSUME FileTyped, packed < UIntRange, kind = "lz4" => 4 * packed < UIntRange \div 2
  PROVE  Shown = packed
<1>1. packed \in Nat /\ UIntRange \div 2 \in Nat
  BY SizeAssumption DEF FileTyped
<1>2. CASE kind = "lz4"
  <2>1. packed < UIntRange \div 2
    BY <1>1, <1>2
  <2>2. SInt(packed) = packed
    BY <1>1, <2>1, SIntKeeps
  <2> QED BY <1>2, <2>2, Zenon DEF Shown
<1>3. CASE kind \in {"gzip", "bzip2"}
  <2>1. UInt(packed) = packed
    BY <1>1, UIntKeeps
  <2> QED BY <1>3, <2>1 DEF Shown
<1>4. CASE kind \notin {"lz4", "gzip", "bzip2"}
  BY <1>4 DEF Shown
<1> QED
  BY <1>2, <1>3, <1>4

LEMMA ToldBound ==
  ASSUME FileTyped
  PROVE  /\ Told \in Int /\ Told <= content
         /\ content < UIntRange /\ Told >= 0 => Told = content
<1>1. content \in Nat
  BY SizeAssumption DEF FileTyped
<1>2. CASE kind = "lz4"
  BY <1>1, <1>2, SIntKeeps DEF Told
<1>3. CASE kind = "bzip2"
  BY <1>1, <1>3, UIntKeeps DEF Told
<1>4. CASE kind \notin {"lz4", "bzip2"}
  BY <1>1, <1>4 DEF Told
<1> QED
  BY <1>2, <1>3, <1>4

LEMMA NumbersAre ==
  ASSUME NEW m \in Nat
  PROVE  /\ Numbers(1, m) = [i \in 1..m |-> i]
         /\ Len(Numbers(1, m)) = m /\ DOMAIN Numbers(1, m) = 1..m
         /\ \A i \in 1..m : Numbers(1, m)[i] = i
<1>1. \A i \in 1..m : 1 + i - 1 = i
  OBVIOUS
<1>2. m - 1 + 1 = m
  OBVIOUS
<1>3. Numbers(1, m) = [i \in 1..m |-> i]
  BY <1>1, <1>2 DEF Numbers
<1>4. [i \in 1..m |-> i] \in Seq(Nat) /\ Len([i \in 1..m |-> i]) = m
  OBVIOUS
<1> QED
  BY <1>3, <1>4

--------------------------------------------------------------------------------
(* What a call of the library may make.                                      *)
LEMMA MadeBound ==
  ASSUME BufferTyped, FileTyped
  PROVE  /\ Made \in Nat /\ Made <= avail /\ produced + Made \in 0..reach
         /\ Made = avail \/ produced + Made = reach
BY DEF BufferTyped, FileTyped, Made, Smaller

(* What it may report: the end only with the last byte of an entire file, and   *)
(* that nothing is possible only of a part or without space.              *)
LEMMA OutcomeMeans ==
  ASSUME NEW outcome \in Outcomes, whole \in BOOLEAN, input \in BOOLEAN, idle \in BOOLEAN
  PROVE  /\ outcome \in {"end", "ok", "no progress"}
         /\ outcome = "end" => Entire /\ produced + Made = reach
         /\ outcome = "no progress" /\ Entire => produced + Made # reach /\ ~(Made > 0)
<1>1. CASE Entire /\ produced + Made = reach
  <2>1. outcome \in {"end"} \cup (IF Made > 0 /\ Made = avail THEN {"ok"} ELSE {})
    BY <1>1, Zenon DEF Outcomes
  <2>2. outcome = "end" \/ outcome = "ok"
    BY <2>1, Zenon
  <2> QED BY <2>2, <1>1, Zenon
<1>2. CASE ~(Entire /\ produced + Made = reach) /\ (Made > 0 \/ input \/ (kind = "lzma" /\ ~idle))
  <2>1. outcome = "ok"
    BY <1>2, Zenon DEF Outcomes
  <2> QED BY <2>1, Zenon
<1>3. CASE ~(Entire /\ produced + Made = reach) /\ ~(Made > 0 \/ input \/ (kind = "lzma" /\ ~idle))
  <2>1. outcome = "no progress"
    BY <1>3, Zenon DEF Outcomes
  <2> QED BY <2>1, <1>3, Zenon
<1> QED
  BY <1>1, <1>2, <1>3, Zenon

(* A call that goes on where the output ends makes it longer by what it made. *)
LEMMA PlacedContinues ==
  ASSUME BufferTyped, FileTyped, pos = produced, output = Numbers(1, produced)
  PROVE  Placed = Numbers(1, produced + Made)
<1>1. produced \in Nat /\ Made \in Nat
  BY MadeBound DEF BufferTyped, FileTyped
<1>2. /\ Len(output) = produced
      /\ \A i \in 1..produced : output[i] = i
  BY <1>1, NumbersAre
<1>3. (IF Len(output) < pos + Made THEN pos + Made ELSE Len(output)) = produced + Made
  BY <1>1, <1>2
<1>4. Placed = [i \in 1..(produced + Made) |->
         IF i \in (pos + 1)..(pos + Made) THEN produced + i - pos
         ELSE IF i <= Len(output) THEN output[i] ELSE 0]
  BY <1>3 DEF Placed
<1>5. \A i \in 1..(produced + Made) :
        (IF i \in (pos + 1)..(pos + Made) THEN produced + i - pos
         ELSE IF i <= Len(output) THEN output[i] ELSE 0) = i
  BY <1>1, <1>2
<1>6. Placed = [i \in 1..(produced + Made) |-> i]
  BY <1>4, <1>5
<1> QED
  BY <1>1, <1>6, NumbersAre

--------------------------------------------------------------------------------
(* One lemma per action.                                                     *)
LEMMA InitIInv == Init => IInv
<1> SUFFICES ASSUME Init PROVE IInv
  OBVIOUS
<1>1. FileTyped /\ BufferTyped
  BY SizeAssumption DEF Init, FileTyped, BufferTyped
<1>2. FlagsTyped
  BY Zenon DEF Init, FlagsTyped
<1>3. Untouched
  BY DEF Init, Untouched
<1>4. Yields /\ Filled /\ SuccessIsContent /\ WholeIsUnpacked
  BY Zenon DEF Init, Yields, Filled, SuccessIsContent, WholeIsUnpacked
<1> QED
  BY <1>1, <1>2, <1>3, <1>4, TypeParts, Zenon DEF IInv

LEMMA PackKeeps == IInv /\ Pack => IInv'
<1> SUFFICES ASSUME IInv, Pack PROVE IInv'
  OBVIOUS
<1>1. FileTyped /\ BufferTyped /\ FlagsTyped /\ Untouched
  BY TypeParts, Zenon DEF IInv
<1>2. /\ kind' = kind /\ content' = content /\ reach' = Told /\ stage' = "read"
      /\ packed' \in 1..(Told + Overhead) /\ Told >= 0 /\ stage = "pack"
      /\ size' = size /\ avail' = avail /\ pos' = pos /\ output' = output
      /\ produced' = produced
  BY DEF Pack
<1>3. whole' = whole /\ input' = input /\ idle' = idle
  BY Zenon DEF Pack
<1>4. Told' = Told
  BY <1>2, Zenon DEF Told, SInt, UInt
<1>5. FileTyped' /\ BufferTyped'
  BY <1>1, <1>2, ToldBound, SizeAssumption DEF FileTyped, BufferTyped, Untouched
<1>6. FlagsTyped'
  BY <1>1, <1>2, <1>3, Zenon DEF FlagsTyped
<1>7. Untouched'
  BY <1>1, <1>2 DEF Untouched
<1>8. Yields'
  BY <1>2, <1>4, Zenon DEF Yields
<1>9. Filled' /\ SuccessIsContent' /\ WholeIsUnpacked'
  BY <1>2, Zenon DEF Filled, SuccessIsContent, WholeIsUnpacked
<1> QED
  BY <1>5, <1>6, <1>7, <1>8, <1>9, TypeParts, Zenon DEF IInv, TypeOK, FileTyped, BufferTyped, FlagsTyped

LEMMA PackFailsKeeps == IInv /\ PackFails => IInv'
<1> SUFFICES ASSUME IInv, PackFails PROVE IInv'
  OBVIOUS
<1>1. FileTyped /\ BufferTyped /\ FlagsTyped /\ Untouched
  BY TypeParts, Zenon DEF IInv
<1>2. /\ kind' = kind /\ content' = content /\ reach' = reach /\ packed' = packed
      /\ stage = "pack" /\ stage' = "false"
      /\ size' = size /\ avail' = avail /\ pos' = pos /\ output' = output
      /\ produced' = produced
  BY DEF PackFails, file
<1>3. whole' = whole /\ input' = input /\ idle' = idle
  BY Zenon DEF PackFails, file
<1>4. FileTyped' /\ BufferTyped'
  BY <1>1, <1>2 DEF FileTyped, BufferTyped
<1>5. FlagsTyped'
  BY <1>1, <1>2, <1>3, Zenon DEF FlagsTyped
<1>6. Untouched' /\ Yields' /\ Filled' /\ SuccessIsContent'
  BY <1>2, Zenon DEF Untouched, Yields, Filled, SuccessIsContent
<1>7. ~(packed' > 0)
  BY <1>1, <1>2 DEF Untouched
<1>8. WholeIsUnpacked'
  BY <1>7, Zenon DEF WholeIsUnpacked
<1> QED
  BY <1>4, <1>5, <1>6, <1>8, TypeParts, Zenon DEF IInv, TypeOK, FileTyped, BufferTyped, FlagsTyped

LEMMA CutKeeps == IInv /\ Cut => IInv'
<1> SUFFICES ASSUME IInv, Cut PROVE IInv'
  OBVIOUS
<1>1. FileTyped /\ BufferTyped /\ FlagsTyped /\ Untouched /\ Yields
  BY TypeParts, Zenon DEF IInv
<1>2. /\ kind' = kind /\ content' = content /\ reach' \in 0..reach /\ packed' \in 0..(packed - 1)
      /\ stage = "read" /\ stage' = stage
      /\ size' = size /\ avail' = avail /\ pos' = pos /\ output' = output
      /\ produced' = produced
  BY DEF Cut
<1>3. whole' = FALSE /\ input' = input /\ idle' = idle
  BY Zenon DEF Cut
<1>4. Told' = Told
  BY <1>2, Zenon DEF Told, SInt, UInt
<1>5. FileTyped' /\ BufferTyped'
  BY <1>1, <1>2, SizeAssumption DEF FileTyped, BufferTyped, Untouched
<1>6. FlagsTyped'
  BY <1>1, <1>2, <1>3, Zenon DEF FlagsTyped
<1>7. Untouched'
  BY <1>1, <1>2 DEF Untouched
<1>8. Told >= 0
  BY <1>1, <1>2, Zenon DEF Yields
<1>9. Yields'
  BY <1>3, <1>4, <1>8, Zenon DEF Yields, Entire
<1>10. Filled' /\ SuccessIsContent' /\ WholeIsUnpacked'
  BY <1>2, Zenon DEF Filled, SuccessIsContent, WholeIsUnpacked
<1> QED
  BY <1>5, <1>6, <1>7, <1>9, <1>10, TypeParts, Zenon DEF IInv, TypeOK, FileTyped, BufferTyped, FlagsTyped

LEMMA BeginKeeps == IInv /\ Begin => IInv'
<1> SUFFICES ASSUME IInv, Begin PROVE IInv'
  OBVIOUS
<1>1. FileTyped /\ BufferTyped /\ FlagsTyped /\ Untouched /\ Yields
  BY TypeParts, Zenon DEF IInv
<1>2. /\ kind' = kind /\ content' = content /\ packed' = packed
      /\ reach' \in (IF Shown = packed THEN {reach} ELSE 0..reach)
      /\ stage = "read" /\ stage' = "loop" /\ size' = 2 * packed
      /\ avail' = IF kind = "gzip" THEN UInt(2 * packed) ELSE 2 * packed
      /\ pos' = pos /\ output' = output /\ produced' = produced
  BY DEF Begin
<1>3. whole' = whole /\ input' = (Shown > 0) /\ idle' = idle
  BY Zenon DEF Begin
<1>4. Told' = Told
  BY <1>2, Zenon DEF Told, SInt, UInt
<1>5. packed \in Nat /\ pos = 0 /\ produced = 0 /\ output = <<>>
  BY <1>1, <1>2, SizeAssumption DEF FileTyped, Untouched
<1>6. avail' \in 0..(2 * packed) /\ (kind = "gzip" => (2 * packed < UIntRange => avail' = 2 * packed))
      /\ (kind # "gzip" => avail' = 2 * packed)
  BY <1>2, <1>5, UIntKeeps
<1>7. FileTyped' /\ BufferTyped'
  <2>1. reach \in Nat
    BY <1>1, SizeAssumption DEF FileTyped
  <2>2. reach' \in 0..reach
    BY <1>2, <2>1
  <2> QED BY <1>1, <1>2, <1>5, <1>6, <2>1, <2>2 DEF FileTyped, BufferTyped
<1>8. FlagsTyped'
  <2>1. input' \in BOOLEAN
    BY DEF Begin
  <2> QED BY <1>1, <1>2, <1>3, <2>1, Zenon DEF FlagsTyped
<1>9. Untouched'
  BY <1>2, Zenon DEF Untouched
<1>10. Yields'
  <2>1. Entire' = Entire
    BY <1>2, <1>3, Zenon DEF Entire, Shown, SInt, UInt
  <2>2. Entire => reach' = reach
    BY <1>2, Zenon DEF Entire
  <2> QED BY <1>1, <1>2, <1>4, <2>1, <2>2, Zenon DEF Yields
<1>11. Filled'
  <2>1. Numbers(1, 0) = <<>>
    BY DEF Numbers
  <2> QED BY <1>2, <1>5, <1>6, <2>1 DEF Filled, Numbers
<1>12. SuccessIsContent' /\ WholeIsUnpacked'
  BY <1>2, Zenon DEF SuccessIsContent, WholeIsUnpacked
<1> QED
  BY <1>7, <1>8, <1>9, <1>10, <1>11, <1>12, TypeParts, Zenon DEF IInv, TypeOK, FileTyped, BufferTyped, FlagsTyped

(* A call of the library, and what the numbers are afterwards: the stage the  *)
(* outcome leads to, and that a call told to go on where the output ends     *)
(* goes on there.                                                            *)
CallOutcome(outcome) ==
  stage' = CASE outcome = "end" -> "true" [] outcome = "ok" -> "loop" [] OTHER -> "false"

LEMMA CallStage ==
  ASSUME NEW outcome \in {"end", "ok", "no progress"}, CallOutcome(outcome)
  PROVE  /\ stage' \in {"true", "loop", "false"}
         /\ stage' = "loop" <=> outcome = "ok"
         /\ stage' = "true" <=> outcome = "end"
         /\ stage' = "false" <=> outcome = "no progress"
<1>1. CASE outcome = "end"
  BY <1>1, Zenon DEF CallOutcome
<1>2. CASE outcome = "ok"
  BY <1>2, Zenon DEF CallOutcome
<1>3. CASE outcome = "no progress"
  BY <1>3, Zenon DEF CallOutcome
<1> QED
  BY <1>1, <1>2, <1>3, Zenon

(* Whichever stream it is, the rest of the invariant follows from where the   *)
(* call leaves the buffer.                                                   *)
LEMMA CallKeeps ==
  ASSUME IInv, stage = "loop", kind \in Streams, NEW outcome \in Outcomes,
         CallOutcome(outcome), Yield, UNCHANGED file,
         size' \in Nat, size' >= size, pos' \in 0..size', avail' \in 0..(size' - pos'),
         (kind = "gzip" => size' < UIntRange) /\ pos = produced /\ avail = size - pos =>
            /\ pos' = produced' /\ avail' = size' - pos'
            /\ avail > 0 /\ outcome = "ok" => avail' > 0
  PROVE  IInv'
<1>1. FileTyped /\ BufferTyped /\ FlagsTyped /\ Untouched /\ Yields /\ Filled
  BY TypeParts, Zenon DEF IInv
<1>2. /\ kind' = kind /\ content' = content /\ reach' = reach /\ packed' = packed
      /\ output' = Placed /\ produced' = produced + Made
  BY DEF Yield, file
<1>3. whole' = whole /\ input' = (Made = avail /\ Made > 0) /\ idle' = (Made = 0 /\ ~input)
  BY Zenon DEF Yield, file
<1>4. Told' = Told /\ Entire' = Entire
  BY <1>2, <1>3, Zenon DEF Told, Entire, Shown, SInt, UInt
<1>5. /\ outcome \in {"end", "ok", "no progress"}
      /\ outcome = "end" => Entire /\ produced + Made = reach
      /\ outcome = "no progress" /\ Entire => produced + Made # reach /\ ~(Made > 0)
  BY <1>1, OutcomeMeans, Zenon DEF FlagsTyped
<1>6. /\ stage' \in {"true", "loop", "false"}
      /\ stage' = "loop" <=> outcome = "ok"
      /\ stage' = "true" <=> outcome = "end"
      /\ stage' = "false" <=> outcome = "no progress"
  BY <1>5, CallStage, Zenon
<1>7. /\ Made \in Nat /\ Made <= avail /\ produced + Made \in 0..reach
      /\ Made = avail \/ produced + Made = reach
  BY <1>1, MadeBound
<1>8. FileTyped' /\ BufferTyped'
  BY <1>1, <1>2, <1>7 DEF FileTyped, BufferTyped
<1>9. FlagsTyped'
  <2>1. input' \in BOOLEAN /\ idle' \in BOOLEAN
    BY DEF Yield
  <2>2. stage' \in {"pack", "read", "loop", "true", "false"}
    BY <1>6, Zenon
  <2> QED BY <1>1, <1>3, <2>1, <2>2, Zenon DEF FlagsTyped
<1>10. Untouched'
  BY <1>6, Zenon DEF Untouched
<1>11. Yields'
  BY <1>1, <1>2, <1>3, <1>4, Zenon DEF Yields
(* Earlier sizes fitted if this one does.                                    *)
<1>12. ASSUME kind = "gzip" => size' < UIntRange
       PROVE  /\ kind = "gzip" => size < UIntRange
              /\ pos = produced /\ avail = size - pos /\ output = Numbers(1, produced)
              /\ packed > 0 => avail > 0
              /\ output' = Numbers(1, produced')
  <2>1. kind = "gzip" => size < UIntRange
    <3>1. size \in Nat /\ UIntRange \in Nat
      BY <1>1, SizeAssumption DEF BufferTyped
    <3> QED BY <1>12, <3>1
  <2>2. /\ pos = produced /\ avail = size - pos /\ output = Numbers(1, produced)
        /\ packed > 0 => avail > 0
    BY <1>1, <2>1, Zenon DEF Filled
  <2>3. Placed = Numbers(1, produced + Made)
    BY <1>1, <2>2, PlacedContinues, Zenon
  <2> QED BY <1>2, <2>1, <2>2, <2>3, Zenon
<1>13. Filled'
  <2> SUFFICES ASSUME stage' = "loop", kind = "gzip" => size' < UIntRange
               PROVE  /\ pos' = produced' /\ avail' = size' - pos'
                      /\ output' = Numbers(1, produced')
                      /\ packed > 0 => avail' > 0
    BY <1>2, Zenon DEF Filled, Numbers
  <2> QED BY <1>6, <1>12, Zenon
<1>14. SizesFit' => (kind = "gzip" => size' < UIntRange)
  BY <1>2, Zenon DEF SizesFit
<1>15. SuccessIsContent'
  <2> SUFFICES ASSUME stage' = "true", SizesFit'
               PROVE  output' = Numbers(1, content)
    BY <1>2, Zenon DEF SuccessIsContent, Numbers
  <2>1. Entire /\ produced' = reach
    BY <1>2, <1>5, <1>6, Zenon
  <2>2. reach = Told /\ Told = content
    <3>1. Told >= 0 /\ reach = Told
      BY <1>1, <2>1, Zenon DEF Yields
    <3>2. content < UIntRange
      BY <1>2, Zenon DEF SizesFit
    <3> QED BY <1>1, <3>1, <3>2, ToldBound
  <2> QED BY <1>12, <1>14, <2>1, <2>2, Zenon
<1>16. WholeIsUnpacked'
  <2> SUFFICES ASSUME stage' = "false", packed > 0, whole, SizesFit'
               PROVE  FALSE
    BY <1>2, <1>3, Zenon DEF WholeIsUnpacked
  <2>1. produced + Made # reach /\ ~(Made > 0)
    <3>1. packed < UIntRange /\ kind # "lz4"
      BY <1>2, Zenon DEF SizesFit, Streams
    <3>2. Entire
      BY <1>1, <3>1, ShownWhole, Zenon DEF Entire
    <3> QED BY <1>5, <1>6, <3>2, Zenon
  <2>2. avail > 0
    BY <1>12, <1>14, Zenon
  <2> QED BY <1>7, <2>1, <2>2
<1> QED
  BY <1>8, <1>9, <1>10, <1>11, <1>13, <1>15, <1>16, TypeParts, Zenon
  DEF IInv, TypeOK, FileTyped, BufferTyped, FlagsTyped

LEMMA LzmaCallKeeps == IInv /\ LzmaCall => IInv'
<1> SUFFICES ASSUME IInv, LzmaCall PROVE IInv'
  OBVIOUS
<1>1. FileTyped /\ BufferTyped
  BY TypeParts, Zenon DEF IInv
<1>2. PICK outcome \in Outcomes :
        /\ Yield /\ CallOutcome(outcome)
        /\ IF outcome = "ok" /\ avail = Made
           THEN size' = 2 * size /\ avail' = size /\ pos' = size
           ELSE size' = size /\ avail' = avail - Made /\ pos' = pos + Made
  BY Zenon DEF LzmaCall, CallOutcome
<1>3. stage = "loop" /\ kind = "lzma" /\ UNCHANGED file
  BY Zenon DEF LzmaCall
<1>4. Made \in Nat /\ Made <= avail
  BY <1>1, MadeBound
<1>5. produced' = produced + Made
  BY <1>2 DEF Yield
<1>6. /\ size \in Nat /\ pos \in 0..size /\ avail \in 0..(size - pos)
      /\ produced \in Nat
  BY <1>1 DEF BufferTyped, FileTyped
<1>7. size' \in Nat /\ size' >= size /\ pos' \in 0..size' /\ avail' \in 0..(size' - pos')
  BY <1>2, <1>4, <1>6
<1>8. pos = produced /\ avail = size - pos => pos' = produced' /\ avail' = size' - pos'
  BY <1>2, <1>4, <1>5, <1>6
<1>9. avail > 0 /\ outcome = "ok" => avail' > 0
  BY <1>2, <1>4, <1>6
<1>10. kind \in Streams
  BY <1>3 DEF Streams
<1> QED
  BY <1>2, <1>3, <1>7, <1>8, <1>9, <1>10, CallKeeps, Zenon

LEMMA GzipCallKeeps == IInv /\ GzipCall => IInv'
<1> SUFFICES ASSUME IInv, GzipCall PROVE IInv'
  OBVIOUS
<1>1. FileTyped /\ BufferTyped
  BY TypeParts, Zenon DEF IInv
<1> DEFINE out == size - (avail - Made)
           new(outcome) == IF outcome = "ok" /\ avail = Made THEN 2 * size ELSE size
<1>2. PICK outcome \in Outcomes :
        /\ Yield /\ CallOutcome(outcome)
        /\ pos' = out /\ size' = new(outcome) /\ avail' = UInt(new(outcome) - out)
  BY Zenon DEF GzipCall, CallOutcome
<1>3. stage = "loop" /\ kind = "gzip" /\ UNCHANGED file
  BY Zenon DEF GzipCall
<1>4. Made \in Nat /\ Made <= avail
  BY <1>1, MadeBound
<1>5. produced' = produced + Made
  BY <1>2 DEF Yield
<1>6. /\ size \in Nat /\ pos \in 0..size /\ avail \in 0..(size - pos)
      /\ produced \in Nat
  BY <1>1 DEF BufferTyped, FileTyped
<1>7. /\ pos' = size - (avail - Made) /\ pos' \in Nat /\ pos' <= size
      /\ size' = (IF outcome = "ok" /\ avail = Made THEN 2 * size ELSE size)
      /\ size' \in Nat /\ size' >= size
  BY <1>2, <1>4, <1>6
<1>8. /\ size' - pos' \in Nat /\ avail' = UInt(size' - pos')
  BY <1>2, <1>7, <1>6
<1>9. avail' \in 0..(size' - pos') /\ (size' - pos' < UIntRange => avail' = size' - pos')
  BY <1>8, UIntKeeps
<1>10. pos = produced /\ avail = size - pos /\ size' < UIntRange =>
         pos' = produced' /\ avail' = size' - pos'
  BY <1>4, <1>5, <1>6, <1>7, <1>9, SizeAssumption
<1>11. size' < UIntRange /\ avail = size - pos /\ avail > 0 /\ outcome = "ok" => avail' > 0
  BY <1>4, <1>6, <1>7, <1>9, SizeAssumption
<1>12. kind \in Streams
  BY <1>3 DEF Streams
<1>13. pos' \in 0..size'
  BY <1>6, <1>7
<1> QED
  BY <1>2, <1>3, <1>7, <1>9, <1>10, <1>11, <1>12, <1>13, CallKeeps, Zenon

(* A buffer nothing has been put into.                                       *)
LEMMA NothingIsTyped ==
  ASSUME size' \in Nat, avail' = 0, pos' = 0, produced' = 0, reach' \in Nat
  PROVE  BufferTyped'
<1>1. \A s \in Nat : 0 \in 0..(s - 0) /\ 0 \in 0..s
  OBVIOUS
<1> QED
  BY <1>1, Zenon DEF BufferTyped

(* The calls that unpack a file in one go.  Sizes and positions of the loops  *)
(* are not touched.                                                          *)
LEMMA AnswerKeeps ==
  ASSUME IInv, stage = "read", kind \notin Streams, NEW ok, NEW m,
         Answer(ok, m), size' \in Nat,
         (SuccessIsContent /\ WholeIsUnpacked)'
  PROVE  IInv'
<1>1. FileTyped /\ BufferTyped /\ FlagsTyped /\ Untouched
  BY TypeParts, Zenon DEF IInv
<1>2. /\ kind' = kind /\ content' = content /\ reach' = reach /\ packed' = packed
      /\ avail' = avail /\ pos' = pos /\ produced' = produced
  BY DEF Answer, file
<1>3. /\ whole' = whole /\ input' = input /\ idle' = idle
      /\ stage' = IF ok THEN "true" ELSE "false"
  BY Zenon DEF Answer, file
<1>4. stage' \in {"true", "false"}
  BY <1>3, Zenon
<1>5. FileTyped' /\ BufferTyped'
  <2>1. avail = 0 /\ pos = 0 /\ produced = 0
    BY <1>1, Zenon DEF Untouched
  <2>2. FileTyped'
    BY <1>1, <1>2 DEF FileTyped
  <2>3. reach \in Nat
    BY <1>1, SizeAssumption DEF FileTyped
  <2>4. avail' = 0 /\ pos' = 0 /\ produced' = 0 /\ reach' \in Nat
    BY <1>2, <2>1, <2>3
  <2>5. BufferTyped'
    BY <2>4, NothingIsTyped, Zenon
  <2> QED BY <2>2, <2>5, Zenon
<1>6. FlagsTyped'
  BY <1>1, <1>3, <1>4, Zenon DEF FlagsTyped
<1>7. Untouched' /\ Yields' /\ Filled'
  BY <1>4, Zenon DEF Untouched, Yields, Filled
<1> QED
  BY <1>5, <1>6, <1>7, TypeParts, Zenon DEF IInv, TypeOK, FileTyped, BufferTyped, FlagsTyped

LEMMA ZstdCallKeeps == IInv /\ ZstdCall => IInv'
<1> SUFFICES ASSUME IInv, ZstdCall PROVE IInv'
  OBVIOUS
<1>1. FileTyped /\ BufferTyped /\ FlagsTyped /\ Yields
  BY TypeParts, Zenon DEF IInv
<1>2. stage = "read" /\ kind = "zstd" /\ Answer(whole, reach)
  BY Zenon DEF ZstdCall
<1>3. /\ content' = content /\ kind' = kind /\ whole' = whole
      /\ stage' = (IF whole THEN "true" ELSE "false")
      /\ output' = (IF whole THEN Numbers(1, reach) ELSE output)
  BY <1>2, Zenon DEF Answer, file
<1>4. size' \in Nat
  <2>1. reach \in Nat
    BY <1>1, SizeAssumption DEF FileTyped
  <2>2. size' = reach \/ size' = 0
    BY Zenon DEF ZstdCall
  <2> QED BY <2>1, <2>2
<1>5. SuccessIsContent'
  <2> SUFFICES ASSUME stage' = "true" PROVE output' = Numbers(1, content')
    BY Zenon DEF SuccessIsContent
  <2>1. whole /\ output' = Numbers(1, reach)
    BY <1>3, Zenon
  <2>2. Told = content /\ Shown = packed
    BY <1>2 DEF Told, Shown
  <2> QED BY <1>1, <1>2, <1>3, <2>1, <2>2, Zenon DEF Yields, Entire
<1>6. WholeIsUnpacked'
  BY <1>3, Zenon DEF WholeIsUnpacked
<1>7. kind \notin Streams
  BY <1>2 DEF Streams
<1> QED
  BY <1>1, <1>2, <1>4, <1>5, <1>6, <1>7, AnswerKeeps, Zenon DEF FlagsTyped

LEMMA Lz4CallKeeps == IInv /\ Lz4Call => IInv'
<1> SUFFICES ASSUME IInv, Lz4Call PROVE IInv'
  OBVIOUS
<1>1. FileTyped /\ BufferTyped /\ FlagsTyped /\ Yields
  BY TypeParts, Zenon DEF IInv
<1>2. stage = "read" /\ kind = "lz4" /\ size' = 4 * packed
  BY Zenon DEF Lz4Call
<1>3. PICK n \in (IF Entire THEN {reach} ELSE 0..reach), ok \in {Entire, TRUE} :
        Answer(ok /\ Shown # 0 /\ SInt(4 * packed) >= n, n)
  BY Zenon DEF Lz4Call
<1> DEFINE good == ok /\ Shown # 0 /\ SInt(4 * packed) >= n
<1>4. /\ content' = content /\ kind' = kind /\ packed' = packed /\ whole' = whole
      /\ stage' = (IF good THEN "true" ELSE "false")
      /\ output' = (IF good THEN Numbers(1, n) ELSE output)
  BY <1>3, Zenon DEF Answer, file
<1>5. /\ content \in Nat /\ packed \in Nat /\ reach \in Nat /\ reach <= content
      /\ 4 * packed \in Nat /\ UIntRange \div 2 \in Nat
  BY <1>1, SizeAssumption DEF FileTyped
<1>6. n \in Nat /\ n <= reach
  <2>1. n = reach \/ n \in 0..reach
    BY <1>3, Zenon
  <2> QED BY <1>5, <2>1
<1>7. Entire => n = reach
  BY <1>3, Zenon
<1>8. Entire /\ content < UIntRange => n = content
  BY <1>1, <1>2, <1>7, ToldBound, Zenon DEF Yields
<1>9. SizesFit' /\ whole => Shown = packed /\ Entire
  <2> SUFFICES ASSUME SizesFit', whole PROVE Shown = packed
    BY Zenon DEF Entire
  <2>1. packed < UIntRange /\ 4 * packed < UIntRange \div 2
    BY <1>2, <1>4, Zenon DEF SizesFit
  <2> QED BY <1>1, <2>1, ShownWhole
<1>10. SuccessIsContent'
  <2> SUFFICES ASSUME stage' = "true", SizesFit'
               PROVE  \/ output' = Numbers(1, content)
                      \/ ~whole /\ output' = Numbers(1, Len(output')) /\ Len(output') <= content
    BY <1>2, <1>4, Zenon DEF SuccessIsContent, Numbers
  <2>1. output' = Numbers(1, n)
    BY <1>4, Zenon
  <2>2. Len(output') = n
    BY <1>6, <2>1, NumbersAre, Zenon
  <2>3. n <= content
    BY <1>5, <1>6
  <2>4. content < UIntRange
    BY <1>4, Zenon DEF SizesFit
  <2> QED BY <1>8, <1>9, <2>1, <2>2, <2>3, <2>4, Zenon
<1>11. WholeIsUnpacked'
  <2> SUFFICES ASSUME stage' = "false", packed > 0, whole, SizesFit'
               PROVE  content > 4 * packed
    BY <1>2, <1>4, Zenon DEF WholeIsUnpacked
  <2>1. ok /\ Shown = packed /\ Entire
    <3>1. Shown = packed /\ Entire
      BY <1>9, Zenon
    <3>2. ok = Entire \/ ok = TRUE
      BY <1>3, Zenon
    <3> QED BY <3>1, <3>2, Zenon
  <2>2. Shown # 0
    BY <1>5, <2>1
  <2>3. ~(SInt(4 * packed) >= n)
    BY <1>4, <2>1, <2>2, Zenon
  <2>4. 4 * packed < UIntRange \div 2
    BY <1>2, <1>4, Zenon DEF SizesFit
  <2>5. SInt(4 * packed) = 4 * packed
    BY <1>5, <2>4, SIntKeeps
  <2>6. n = content
    BY <1>4, <1>8, <2>1, Zenon DEF SizesFit
  <2> QED BY <1>5, <2>3, <2>5, <2>6
<1>12. kind \notin Streams /\ size' \in Nat
  BY <1>2, <1>5 DEF Streams
<1>13. good \in BOOLEAN
  BY Zenon
<1> QED
  BY <1>2, <1>3, <1>10, <1>11, <1>12, <1>13, AnswerKeeps, Zenon

LEMMA Bzip2CallKeeps == IInv /\ Bzip2Call => IInv'
<1> SUFFICES ASSUME IInv, Bzip2Call PROVE IInv'
  OBVIOUS
<1>1. FileTyped /\ BufferTyped /\ FlagsTyped /\ Yields
  BY TypeParts, Zenon DEF IInv
<1> DEFINE good == Entire /\ reach <= size'
<1>2. /\ stage = "read" /\ kind = "bzip2" /\ Answer(good, reach)
  BY Zenon DEF Bzip2Call
<1>3. \E again \in {reach > UInt(4 * packed), reach > UInt(4 * packed) /\ Entire} :
        size' = UInt((IF again THEN 10 ELSE 4) * packed)
  BY Zenon DEF Bzip2Call
<1>4. /\ content' = content /\ kind' = kind /\ packed' = packed /\ whole' = whole
      /\ stage' = (IF good THEN "true" ELSE "false")
      /\ output' = (IF good THEN Numbers(1, reach) ELSE output)
  BY <1>2, Zenon DEF Answer, file
<1>5. /\ content \in Nat /\ packed \in Nat /\ reach \in Nat
      /\ 4 * packed \in Nat /\ 10 * packed \in Nat /\ UIntRange \in Nat
  BY <1>1, SizeAssumption DEF FileTyped
<1>6. UInt(4 * packed) \in Nat /\ UInt(10 * packed) \in Nat
      /\ (10 * packed < UIntRange => UInt(10 * packed) = 10 * packed)
  BY <1>5, UIntKeeps
<1>7. /\ size' = UInt(4 * packed) \/ size' = UInt(10 * packed)
      /\ Entire /\ reach > UInt(4 * packed) => size' = UInt(10 * packed)
      /\ ~(reach > UInt(4 * packed)) => size' = UInt(4 * packed)
  BY <1>3, Zenon
<1>8. size' \in Nat
  BY <1>6, <1>7
<1>9. Entire /\ content < UIntRange => reach = content
  BY <1>1, <1>2, ToldBound, Zenon DEF Yields
<1>10. SizesFit' => content < UIntRange /\ 10 * packed < UIntRange /\ (whole => Entire)
  <2> SUFFICES ASSUME SizesFit' PROVE content < UIntRange /\ 10 * packed < UIntRange /\ Shown = packed
    BY Zenon DEF Entire
  <2>1. content < UIntRange /\ packed < UIntRange /\ 10 * packed < UIntRange
    BY <1>2, <1>4, Zenon DEF SizesFit
  <2>2. kind # "lz4"
    BY <1>2
  <2> QED BY <1>1, <2>1, <2>2, ShownWhole, Zenon
<1>11. SuccessIsContent'
  BY <1>4, <1>9, <1>10, Zenon DEF SuccessIsContent, Entire
<1>12. WholeIsUnpacked'
  <2> SUFFICES ASSUME stage' = "false", whole, SizesFit'
               PROVE  content > 10 * packed
    BY <1>2, <1>4, Zenon DEF WholeIsUnpacked
  <2>1. ~(reach <= size')
    BY <1>4, <1>10, Zenon
  <2>2. reach > UInt(4 * packed)
    BY <1>5, <1>6, <1>7, <2>1
  <2> QED BY <1>5, <1>6, <1>7, <1>9, <1>10, <2>1, <2>2
<1>13. kind \notin Streams
  BY <1>2 DEF Streams
<1>14. good \in BOOLEAN
  BY Zenon
<1> QED
  BY <1>2, <1>8, <1>11, <1>12, <1>13, <1>14, AnswerKeeps, Zenon

LEMMA IdleKeeps == IInv /\ UNCHANGED vars => IInv'
<1> SUFFICES ASSUME IInv, UNCHANGED vars PROVE IInv'
  OBVIOUS
<1>1. /\ kind' = kind /\ content' = content /\ packed' = packed /\ reach' = reach
      /\ stage' = stage /\ size' = size /\ avail' = avail /\ pos' = pos
      /\ output' = output /\ produced' = produced
  BY DEF vars, file
<1>2. whole' = whole /\ input' = input /\ idle' = idle
  BY Zenon DEF vars, file
<1> QED
  BY <1>1, <1>2, Zenon DEF IInv, TypeOK, Untouched, Yields, Told, Entire, Shown, SInt, UInt, Filled, Numbers,
     SuccessIsContent, WholeIsUnpacked, SizesFit

LEMMA NextIInv == IInv /\ [Next]_vars => IInv'
<1> SUFFICES ASSUME IInv, [Next]_vars PROVE IInv'
  OBVIOUS
<1>1. CASE Pack BY <1>1, PackKeeps, Zenon
<1>2. CASE PackFails BY <1>2, PackFailsKeeps, Zenon
<1>3. CASE Cut BY <1>3, CutKeeps, Zenon
<1>4. CASE Begin BY <1>4, BeginKeeps, Zenon
<1>5. CASE LzmaCall BY <1>5, LzmaCallKeeps, Zenon
<1>6. CASE GzipCall BY <1>6, GzipCallKeeps, Zenon
<1>7. CASE ZstdCall BY <1>7, ZstdCallKeeps, Zenon
<1>8. CASE Lz4Call BY <1>8, Lz4CallKeeps, Zenon
<1>9. CASE Bzip2Call BY <1>9, Bzip2CallKeeps, Zenon
<1>10. CASE Ended \/ UNCHANGED vars BY <1>10, IdleKeeps, Zenon DEF Ended
<1> QED
  BY <1>1, <1>2, <1>3, <1>4, <1>5, <1>6, <1>7, <1>8, <1>9, <1>10, Zenon DEF Next, Unpack

THEOREM Invariance == Spec => []IInv
BY InitIInv, NextIInv, PTL DEF Spec

--------------------------------------------------------------------------------
(* The library is never told of more space than there is behind the position *)
(* it is to write to, and yields no more than the file holds: also when a    *)
(* size has been cut to 32 bits on its way to it.                            *)
THEOREM UnpackingTypeCorrect == Spec => []TypeOK
<1>1. IInv => TypeOK
  BY Zenon DEF IInv
<1> QED
  BY <1>1, Invariance, PTL

(* What unpacking returns as success is the content, byte for byte: for every *)
(* size of content and file, wherever the end of the stream falls in the     *)
(* buffer and however often the buffer grew.                                 *)
THEOREM SuccessIsAlwaysContent == Spec => []SuccessIsContent
<1>1. IInv => SuccessIsContent
  BY Zenon DEF IInv
<1> QED
  BY <1>1, Invariance, PTL

(* A whole file is refused only by the two compressors whose buffer is sized *)
(* by guess, and only if it was packed to less than the guess allows.        *)
THEOREM WholeIsAlwaysUnpacked == Spec => []WholeIsUnpacked
<1>1. IInv => WholeIsUnpacked
  BY Zenon DEF IInv
<1> QED
  BY <1>1, Invariance, PTL
================================================================================
