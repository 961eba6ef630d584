----------------------------- MODULE MCEmulator -----------------------------
(* A small instance of Emulator: two addresses besides the entries of the  *)
(* handlers, which share one, and two values of the user stack pointer.    *)
EXTENDS Emulator

MCCode == {"main", "other", "entry"}
MCVector == [v \in Vectors |-> "entry"]
=============================================================================
