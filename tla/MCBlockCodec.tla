---- MODULE MCBlockCodec ----
(* A byte of 2 bits, so a word of 8, a length of 4, a delta count of 3; four *)
(* values to a ts2diff block.  Byte 2 is the newline.                        *)
EXTENDS BlockCodec

Op(p, d, t) == [pos |-> p, del |-> d, text |-> t]
Edit(b, ops) == [method |-> 0, begin |-> b, ops |-> ops]
Raw(line) == [method |-> 1, line |-> line]

None  == Edit(0, <<>>)
One   == Edit(2, <<Op(3, 0, <<1, 3>>)>>)
Two   == Edit(1, <<Op(0, 2, <<>>), Op(5, 1, <<0>>)>>)
Three == Edit(0, <<Op(1, 0, <<3>>), Op(2, 1, <<>>), Op(6, 2, <<0, 1>>)>>)
Empty == Raw(<<>>)
Full  == Raw(<<1, 0, 3>>)

Kinds == {None, One, Two, Three, Empty, Full}
BlocksUpTo(n) == UNION {[1..k -> Kinds] : k \in 0..n}

(* Every carried block of up to four records, alone or before a short one or *)
(* the empty one.                                                            *)
CarriedBlocks(n) == {b \in BlocksUpTo(n) : \E i \in DOMAIN b : b[i].method = 0 /\ Carried(b)}
MCCarried ==
  {<<b>> : b \in CarriedBlocks(4)}
    \cup {<<b, c>> : b \in CarriedBlocks(3), c \in {<<>>, <<Two, Full, Two>>, <<Empty, Three, None, One>>}}

(* What the proofs ask of an archive holds of these.                         *)
ASSUME MCCarriedAssumption == \A a \in MCCarried : CarriedArchive(a)

(* Blocks with no coded record: every line of the first block of a file whose *)
(* lines are all unlike each other.                                           *)
MCAllRaw == {<<b>> : b \in {c \in BlocksUpTo(2) : c # <<>> /\ \A i \in DOMAIN c : c[i].method = 1}}

(* Coded records that all equal their reference, or have one edit each.       *)
MCNoSteps == {<<<<Full, None>>>>, <<<<Full, One, One>>>>}

(* A single step between positions.                                           *)
MCSingleStep == {<<<<Full, Two, One>>>>}

(* Sixteen bytes of run lengths.                                              *)
MCLongMethods == {<<[i \in 1..11 |-> IF i % 2 = 1 THEN Full ELSE IF i < 5 THEN Three ELSE None]>>}

(* What the format cannot carry: these, and every short block not Carried.   *)
MCUncarried ==
  MCAllRaw \cup MCNoSteps \cup MCSingleStep \cup MCLongMethods
    \cup {<<b>> : b \in {c \in BlocksUpTo(3) : c # <<>> /\ ~Carried(c)}}
================================
