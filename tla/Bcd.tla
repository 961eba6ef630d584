-------------------------------- MODULE Bcd ---------------------------------
(***************************************************************************)
(* Decimal arithmetic (abcd, sbcd, nbcd) and the word multiplications,     *)
(* divisions and chk of m68k_in.c.                                         *)
(*                                                                         *)
(* A decimal byte is two nibbles. Their range "nib" (16 in the code) and   *)
(* the base "ten" of the digits in them (10) are parameters: 0x99, 0x9a,   *)
(* 0xa0 and the correction 6 follow from them.                             *)
(***************************************************************************)
EXTENDS Alu

Low(nib, a)  == a % nib                          \* LOW_NIBBLE
High(nib, a) == (a % (nib * nib)) - (a % nib)    \* HIGH_NIBBLE

Nines(nib, ten) == (ten - 1) * nib + (ten - 1)   \* 0x99

SignBit(nib) == (nib * nib) \div 2

(* The V flag is what comes of ~res before the correction and res after.   *)
DecimalFlags(nib, before, after, c, f) ==
    LET r == after % (nib * nib)
        h == SignBit(nib)
    IN WithFlags(h, r, c, f.z /\ r = 0, ~Negative(h, before) /\ Negative(h, after), c)

(* abcd: src + dst + X.                                                    *)
Abcd(nib, ten, s, d, f) ==
    LET lows == Low(nib, s) + Low(nib, d) + Bit(f.x)
        low  == IF lows > ten - 1 THEN lows + (nib - ten) ELSE lows
        sum  == low + High(nib, s) + High(nib, d)
        c    == sum > Nines(nib, ten)
    IN DecimalFlags(nib, lows, IF c THEN sum - ten * nib ELSE sum, c, f)

(* sbcd: dst - src - X. The differences are unsigned: below zero is above  *)
(* every bound.                                                            *)
SbcdSigned(nib, ten, s, d, f) ==
    LET lows == Low(nib, d) - Low(nib, s) - Bit(f.x)
        low  == IF lows > ten - 1 THEN lows - (nib - ten) ELSE lows
        diff == low + High(nib, d) - High(nib, s)
        c    == diff < 0 \/ diff > Nines(nib, ten)
    IN DecimalFlags(nib, lows, IF c THEN diff + ten * nib ELSE diff, c, f)

Sbcd(nib, ten, s, d, f) ==
    LET lows == Low(nib, d) - Low(nib, s) - Bit(f.x)
        low  == IF lows < 0 \/ lows > ten - 1 THEN lows - (nib - ten) ELSE lows
        diff == low + High(nib, d) - High(nib, s)
        c    == diff < 0 \/ diff > Nines(nib, ten)
    IN DecimalFlags(nib, lows, IF c THEN diff + ten * nib ELSE diff, c, f)

(* nbcd: a zero without X is not written and leaves Z; C and X are set for *)
(* everything else.                                                        *)
Nbcd(nib, ten, d, f) ==
    LET start == (ten - 1) * nib + ten
        diff  == (start - d - Bit(f.x)) % (nib * nib)
        fixed == IF Low(nib, diff) = ten THEN High(nib, diff) + nib ELSE diff
    IN IF diff = start
       THEN [res |-> d,
             f   |-> [f EXCEPT !.x = FALSE, !.c = FALSE, !.v = FALSE,
                               !.n = Negative(SignBit(nib), diff)]]
       ELSE DecimalFlags(nib, diff, fixed % (nib * nib), TRUE, f)

-----------------------------------------------------------------------------
(* Words of sign weight h make longs of sign weight 2*h*h.                 *)
LongSign(h) == 2 * h * h

Signed(h, a) == IF Negative(h, a) THEN (a % (2 * h)) - 2 * h ELSE a % (2 * h)

Mulu(h, s, d, f) == Logical(LongSign(h), s * d, f)

Muls(h, s, d, f) ==
    Logical(LongSign(h), (Signed(h, s) * Signed(h, d)) % (4 * h * h), f)

(* The quotient in the low word, the remainder in the high word. A         *)
(* quotient that does not fit sets V and leaves everything else alone. The *)
(* divisor is not zero: the instruction has trapped.                       *)
QuotientOnTop(h, q, r, f) ==
    [res |-> (r % (2 * h)) + (2 * h) * (q % (2 * h)),
     f   |-> [f EXCEPT !.z = q = 0, !.n = Negative(h, q), !.v = FALSE, !.c = FALSE]]

Quotient(h, q, r, f) ==
    [res |-> (q % (2 * h)) + (2 * h) * (r % (2 * h)),
     f   |-> [f EXCEPT !.z = q = 0, !.n = Negative(h, q), !.v = FALSE, !.c = FALSE]]

Overflow(d, f) == [res |-> d, f |-> [f EXCEPT !.v = TRUE]]

DivuNoOverflow(h, s, d, f) == Quotient(h, d \div s, d % s, f)

Divu(h, s, d, f) ==
    IF d \div s < 2 * h THEN Quotient(h, d \div s, d % s, f) ELSE Overflow(d, f)

Magnitude(a) == IF a < 0 THEN -a ELSE a

(* The quotient of C, which truncates towards zero. The smallest long      *)
(* divided by -1 has a case of its own, which gives zero.                  *)
Divs(h, s, d, f) ==
    LET num == Signed(LongSign(h), d)
        den == Signed(h, s)
        q   == IF (num < 0) = (den < 0) THEN Magnitude(num) \div Magnitude(den)
                                        ELSE -(Magnitude(num) \div Magnitude(den))
    IN IF d = LongSign(h) /\ den = -1
       THEN Quotient(h, 0, 0, f)
       ELSE IF q \in (-h)..(h - 1) THEN Quotient(h, q, num - q * den, f)
                                   ELSE Overflow(d, f)

(* chk: the trap is taken when "out" holds; N is set only then.            *)
Chk(h, src, bound, f) ==
    LET s   == Signed(h, src)
        out == s < 0 \/ s > Signed(h, bound)
        g   == [f EXCEPT !.z = s = 0, !.v = FALSE, !.c = FALSE]
    IN [out |-> out, f |-> IF out THEN [g EXCEPT !.n = s < 0] ELSE g]
=============================================================================
