----------------------------- MODULE Keystrokes -----------------------------
(***************************************************************************)
(* What the keyboard promises: the cat sees the keys go down and up in the *)
(* order in which they do on the host, each stroke once, none of them so   *)
(* short that it is missed.                                                *)
(***************************************************************************)
EXTENDS Naturals, Sequences

CONSTANTS Strokes   \* a key of the cat that goes down or up

VARIABLES typed,   \* the strokes on the host's keyboard
          seen     \* the strokes that the cat has seen

vars == <<typed, seen>>

Init == typed = <<>> /\ seen = <<>>

(* A key goes down, goes up, or does both as it repeats.                    *)
Type ==
    /\ typed' \in Seq(Strokes)
    /\ Len(typed') - Len(typed) \in 1..2
    /\ SubSeq(typed', 1, Len(typed)) = typed
    /\ UNCHANGED seen

See ==
    /\ Len(seen) < Len(typed)
    /\ seen' = Append(seen, typed[Len(seen) + 1])
    /\ UNCHANGED typed

Next == Type \/ See

Spec == Init /\ [][Next]_vars
=============================================================================
