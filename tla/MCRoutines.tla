----------------------------- MODULE MCRoutines -----------------------------
(* Small instances of Routines: two digits of three bits and one of four,  *)
(* bytes of two decimal digits as the code has them and two such bytes of  *)
(* a smaller radix, operands of two and four bits to shift.                *)
EXTENDS Routines

MCSizes   == {[h |-> 4, digits |-> 2], [h |-> 8, digits |-> 1]}
MCRadices == {[nib |-> 16, ten |-> 10, digits |-> 1], [nib |-> 4, ten |-> 3, digits |-> 2]}
MCWidths  == {2, 4}
=============================================================================
