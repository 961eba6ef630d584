------------------------------- MODULE Shifts -------------------------------
(***************************************************************************)
(* The shifts and rotations of m68k_in.c. An operand has w bits. Each of   *)
(* the eight instructions comes in two forms: S, with a count of 1 to 8 in *)
(* the instruction (a byte is never shifted further than its width; a word *)
(* in memory is shifted by one), and R, with a count of 0 to 63 from a     *)
(* register, where a count of zero clears C and leaves X, and a count      *)
(* beyond the width has branches of its own.                               *)
(***************************************************************************)
EXTENDS Alu

Sign(w) == 2^(w - 1)

(* Bit i of a; for an i below zero there is none.                          *)
BitOf(a, i) == i >= 0 /\ (a \div 2^i) % 2 = 1

(* MASK_OUT_ABOVE(a << n), for n up to w.                                  *)
Left(w, a, n) == (a % 2^(w - n)) * 2^n

(* m68ki_shift_8_table and its likes: the n highest bits.                  *)
TopBits(w, n) == IF n < w THEN 2^w - 2^(w - n) ELSE 2^w - 1

(* A shift puts the last bit out in C and X.                               *)
Shifted(w, r, out, v) == WithFlags(Sign(w), r, out, r = 0, v, out)

(* What a count of zero in a register does.                                *)
Unshifted(w, a, c, f) == WithFlags(Sign(w), a, f.x, a = 0, FALSE, c)

AsrS(w, a, n, f) ==
    LET fill == IF Negative(Sign(w), a) THEN TopBits(w, n) ELSE 0
    IN Shifted(w, (a \div 2^n) + fill, BitOf(a, n - 1), FALSE)

AsrR(w, a, n, f) ==
    IF n = 0 THEN Unshifted(w, a, FALSE, f)
    ELSE IF n < w THEN AsrS(w, a, n, f)
    ELSE LET neg == Negative(Sign(w), a)
         IN Shifted(w, IF neg THEN 2^w - 1 ELSE 0, neg, FALSE)

(* V tells whether the sign changed at any time: whether the n + 1 highest *)
(* bits differ. A byte shifted by 8 has no room for the other bits.        *)
AslSLastSign(w, a, n, f) ==
    LET r == Left(w, a, n)
    IN Shifted(w, r, BitOf(a, w - n), Negative(Sign(w), a) # Negative(Sign(w), r))

AslS(w, a, n, f) ==
    LET r   == Left(w, a, n)
        low == IF n + 1 < w THEN a % 2^(w - n - 1) ELSE 0
        top == a - low
    IN Shifted(w, r, BitOf(a, w - n), ~(top = 0 \/ (top = TopBits(w, n + 1) /\ n < w)))

AslR(w, a, n, f) ==
    IF n = 0 THEN Unshifted(w, a, FALSE, f)
    ELSE IF n < w THEN AslS(w, a, n, f)
    ELSE Shifted(w, 0, n = w /\ a % 2 = 1, a # 0)

LsrS(w, a, n, f) == Shifted(w, a \div 2^n, BitOf(a, n - 1), FALSE)

(* lsr 32 and lsl 32 have a branch for a count of 32, the 8 and 16 bit     *)
(* handlers let it pass with the smaller ones.                             *)
LsrR(long, w, a, n, f) ==
    IF n = 0 THEN Unshifted(w, a, FALSE, f)
    ELSE IF n < w \/ (n = w /\ ~long) THEN LsrS(w, a, n, f)
    ELSE Shifted(w, 0, long /\ n = w /\ Negative(Sign(w), a), FALSE)

LslS(w, a, n, f) == Shifted(w, Left(w, a, n), BitOf(a, w - n), FALSE)

LslR(long, w, a, n, f) ==
    IF n = 0 THEN Unshifted(w, a, FALSE, f)
    ELSE IF n < w \/ (n = w /\ ~long) THEN LslS(w, a, n, f)
    ELSE Shifted(w, 0, long /\ n = w /\ a % 2 = 1, FALSE)

-----------------------------------------------------------------------------
(* ROL_8, ROR_8 and their likes, for counts up to w.                       *)
Rol(w, a, n) == Left(w, a, n) + (a \div 2^(w - n))
Ror(w, a, n) == (a \div 2^n) + Left(w, a, w - n)

(* A rotation leaves X.                                                    *)
Rotated(w, r, c, f) == WithFlags(Sign(w), r, f.x, r = 0, FALSE, c)

RorS(w, a, n, f) == Rotated(w, Ror(w, a, n % w), BitOf(a, n - 1), f)

RorR(w, a, n, f) ==
    IF n = 0 THEN Unshifted(w, a, FALSE, f)
    ELSE Rotated(w, Ror(w, a, n % w), BitOf(a, ((n % w) - 1) % w), f)

RolS(w, a, n, f) == Rotated(w, Rol(w, a, n % w), BitOf(a, w - n), f)

RolR(w, a, n, f) ==
    IF n = 0 THEN Unshifted(w, a, FALSE, f)
    ELSE Rotated(w, Rol(w, a, n % w), BitOf(a, (w - (n % w)) % w), f)

(* ROL_9, ROR_17, ROR_33_64: X is bit w of the value that goes round.      *)
Extended(w, a, f) == a + 2^w * Bit(f.x)

(* FLAG_C = FLAG_X = the bit above the operand in the result.              *)
RotatedX(w, r) ==
    LET out == BitOf(r, w) IN WithFlags(Sign(w), r % 2^w, out, r % 2^w = 0, FALSE, out)

RoxrS(w, a, n, f) == RotatedX(w, Ror(w + 1, Extended(w, a, f), n))

RoxlS(w, a, n, f) == RotatedX(w, Rol(w + 1, Extended(w, a, f), n))

RoxrR(w, a, n, f) ==
    IF n = 0 THEN Unshifted(w, a, f.x, f)
    ELSE RotatedX(w, Ror(w + 1, Extended(w, a, f), n % (w + 1)))

RoxlR(w, a, n, f) ==
    IF n = 0 THEN Unshifted(w, a, f.x, f)
    ELSE RotatedX(w, Rol(w + 1, Extended(w, a, f), n % (w + 1)))

-----------------------------------------------------------------------------
ShiftNames == {"asr", "asl", "lsr", "lsl", "ror", "rol", "roxr", "roxl"}

Shift(op, form, long, w, a, n, f) ==
    LET static == form = "s"
    IN CASE op = "asr"  -> IF static THEN AsrS(w, a, n, f) ELSE AsrR(w, a, n, f)
         [] op = "asl"  -> IF static THEN AslS(w, a, n, f) ELSE AslR(w, a, n, f)
         [] op = "lsr"  -> IF static THEN LsrS(w, a, n, f) ELSE LsrR(long, w, a, n, f)
         [] op = "lsl"  -> IF static THEN LslS(w, a, n, f) ELSE LslR(long, w, a, n, f)
         [] op = "ror"  -> IF static THEN RorS(w, a, n, f) ELSE RorR(w, a, n, f)
         [] op = "rol"  -> IF static THEN RolS(w, a, n, f) ELSE RolR(w, a, n, f)
         [] op = "roxr" -> IF static THEN RoxrS(w, a, n, f) ELSE RoxrR(w, a, n, f)
         [] op = "roxl" -> IF static THEN RoxlS(w, a, n, f) ELSE RoxlR(w, a, n, f)
=============================================================================
