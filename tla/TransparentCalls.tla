-------------------------- MODULE TransparentCalls --------------------------
(***************************************************************************)
(* What exceptions promise to the program they interrupt: they are calls   *)
(* the program does not see.  The handler runs privileged, with a mask no  *)
(* lower than the one it found, and when it returns, the program goes on   *)
(* where it was, with the status register and the user stack it had; the   *)
(* calls return in the reverse order of their beginning.                   *)
(***************************************************************************)
EXTENDS Naturals, Sequences

CONSTANTS Code, UserStacks, StatusWords, Entries

VARIABLES ctx,    \* what runs now: a program counter and a status register
          usp,    \* the user stack pointer
          calls   \* the interrupted contexts, the last one last

vars == <<ctx, usp, calls>>

Contexts == [pc : Code, sr : StatusWords]

Init ==
    /\ ctx \in Contexts
    /\ usp \in UserStacks
    /\ calls = <<>>

(* Where one instruction can take what runs now.                           *)
Ran(c) == c \in Contexts /\ (ctx.sr.s \/ c.sr = ctx.sr)

(* ctx is at the entry of a handler that interrupted c.                    *)
Entered(c) ==
    /\ ctx' \in Contexts
    /\ ctx'.pc \in Entries
    /\ ctx'.sr.s
    /\ ctx'.sr.mask >= c.sr.mask

Run ==
    /\ Ran(ctx')
    /\ usp' \in UserStacks
    /\ ctx.sr.s => usp' = usp
    /\ UNCHANGED calls

Call ==
    /\ \E c \in Contexts :
          Ran(c) /\ Entered(c) /\ calls' = Append(calls, c)
    /\ UNCHANGED usp

Return ==
    /\ ctx.sr.s
    /\ calls # <<>>
    /\ ctx' = calls[Len(calls)]
    /\ calls' = SubSeq(calls, 1, Len(calls) - 1)
    /\ UNCHANGED usp

(* The return to a context that is interrupted again before it runs.       *)
ReturnInterrupted ==
    /\ ctx.sr.s
    /\ calls # <<>>
    /\ Entered(calls[Len(calls)])
    /\ UNCHANGED <<usp, calls>>

Reset ==
    /\ ctx' \in Contexts
    /\ ctx'.pc \in Entries
    /\ ctx'.sr.s
    /\ calls' = <<>>
    /\ UNCHANGED usp

Next == Run \/ Call \/ Return \/ ReturnInterrupted \/ Reset

Spec == Init /\ [][Next]_vars
=============================================================================
