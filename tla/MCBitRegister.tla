---- MODULE MCBitRegister ----
(* A byte of 4 bits, so a register of 16.  Fields from no bit to the whole   *)
(* word, with bits set above the width too; widths beside the allowed ones.  *)
EXTENDS BitRegister

MCFields == {[n |-> 3, w |-> 0], [n |-> 1, w |-> 1], [n |-> 29, w |-> 3],
             [n |-> 181, w |-> 7], [n |-> 6981, w |-> 14], [n |-> 46459, w |-> 16]}
MCWidths == {0, 1, 3, 4, 6, 13, 16, 17}
================================
