---------------------------- MODULE SerialChannel ----------------------------
(***************************************************************************)
(* What the serial input of the emulator promises to the two ends: the     *)
(* bytes that the host writes reach the program running on the 68000 in    *)
(* the order they were written, each exactly once, with the newline        *)
(* translation of the -t option applied, and none of them is held forever. *)
(***************************************************************************)
EXTENDS Naturals, Sequences

CONSTANTS Input,        \* the bytes the host writes
          Received(_)   \* what the cat gets for each of them

VARIABLES written,   \* how many bytes the host has written
          received   \* what the cat has read

vars == <<written, received>>

Init ==
    /\ written \in 0..Len(Input)
    /\ received = <<>>

Write ==
    /\ written < Len(Input)
    /\ written' = written + 1
    /\ UNCHANGED received

Deliver ==
    /\ Len(received) < written
    /\ received' = Append(received, Received(Input[Len(received) + 1]))
    /\ UNCHANGED written

Next == Write \/ Deliver

SafeSpec == Init /\ [][Next]_vars

Spec == SafeSpec /\ WF_vars(Deliver)
=============================================================================
