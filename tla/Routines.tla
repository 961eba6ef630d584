------------------------------ MODULE Routines ------------------------------
(***************************************************************************)
(* What programs build from the arithmetic instructions: sums of several   *)
(* words by addx, subx and negx, decimal sums by abcd, sbcd and nbcd, long *)
(* divisions and multiplications by divu and mulu, comparisons, and shifts *)
(* of n places. A step is one turn of the loop of such a routine: the      *)
(* instruction, as Alu, Bcd and Shifts have it, on the next digit or bit.  *)
(* The routine keeps the numbers it has seen so far as history, and the    *)
(* invariants compare the digits and flags produced with the arithmetic on *)
(* these numbers.                                                          *)
(***************************************************************************)
EXTENDS Bcd, Shifts

CONSTANTS Sizes,    \* [h, digits]: sign weight of a digit, bound on the digits
          Radices,  \* [nib, ten, digits]: ranges of a nibble and its digit
          Widths    \* widths of the operands that are shifted

ASSUME SizesAssumption ==
    Sizes \subseteq [h : Nat \ {0}, digits : Nat]

(* Some values of a nibble are no digit: nbcd (m68k_in.c 7812) tells a     *)
(* nibble that holds ten from a zero.                                      *)
ASSUME RadicesAssumption ==
    /\ Radices \subseteq [nib : Nat, ten : Nat, digits : Nat]
    /\ \A r \in Radices : r.ten \in 2..(r.nib - 1)

ASSUME WidthsAssumption == Widths \subseteq Nat \ {0, 1}

VARIABLE job

StartFlags(x) == [x |-> x, n |-> FALSE, z |-> TRUE, v |-> FALSE, c |-> x]

(* A chain works from the least significant digit: "weight" is that of the *)
(* next one, src, dst and res are the numbers made of the digits before.   *)
BinaryStarts ==
    {[kind |-> k, long |-> l, size |-> s, n |-> 0, weight |-> 1,
      src |-> 0, dst |-> 0, res |-> 0, x |-> x, f |-> StartFlags(x)] :
        k \in {"add", "sub", "neg"}, l \in BOOLEAN, s \in Sizes, x \in BOOLEAN}

DecimalStarts ==
    {[kind |-> k, size |-> r, n |-> 0, weight |-> 1,
      src |-> 0, dst |-> 0, res |-> 0, x |-> x, f |-> StartFlags(x)] :
        k \in {"abcd", "sbcd", "nbcd"}, r \in Radices, x \in BOOLEAN}

ProductStarts ==
    UNION {{[kind |-> "mul", size |-> s, n |-> 0, weight |-> 1, src |-> 0,
             by |-> b, res |-> 0, carry |-> 0] : b \in 0..(2 * s.h - 1)} : s \in Sizes}

(* A long division works from the most significant digit.                  *)
DivisionStarts ==
    UNION {{[kind |-> "div", size |-> s, n |-> 0, src |-> 0, by |-> b,
             res |-> 0, rem |-> 0, f |-> StartFlags(FALSE)] : b \in 1..(2 * s.h - 1)} :
             s \in Sizes}

(* Counts in the instruction are no larger than the width; one in a        *)
(* register goes to 63, eight times the width of a byte.                   *)
ShiftStarts ==
    UNION {{[kind |-> "shift", op |-> op, form |-> form, long |-> l, w |-> w,
             count |-> n, start |-> a, n |-> 0, a |-> a, changed |-> FALSE,
             out |-> FALSE, was |-> StartFlags(x), x |-> x] :
                op \in ShiftNames, form \in {"s", "r"}, l \in BOOLEAN,
                n \in 0..(2 * w + 2), a \in 0..(2^w - 1), x \in BOOLEAN} : w \in Widths}

SingleStarts ==
    {[kind |-> k, size |-> s, f |-> StartFlags(x)] :
        k \in {"cmp", "divu", "divs"}, s \in Sizes, x \in BOOLEAN}

Init ==
    \/ job \in BinaryStarts
    \/ job \in DecimalStarts
    \/ job \in ProductStarts
    \/ job \in DivisionStarts
    \/ job \in SingleStarts
    \/ job \in ShiftStarts /\ (job.form = "s" => job.count \in 1..job.w)

Running(kind) == job.kind = kind /\ job.n < job.size.digits

Digits == 0..(2 * job.size.h - 1)

-----------------------------------------------------------------------------
(* One turn of a loop on digits s and d, which gave q.                     *)
BinaryTurn(s, d, q) ==
    job' = [job EXCEPT !.n = @ + 1, !.weight = @ * (2 * job.size.h),
                       !.src = @ + s * job.weight, !.dst = @ + d * job.weight,
                       !.res = @ + q.res * job.weight, !.f = q.f]

AddDigit ==
    /\ Running("add")
    /\ \E s, d \in Digits : BinaryTurn(s, d, Addx(job.long, job.size.h, s, d, job.f))

SubDigit ==
    /\ Running("sub")
    /\ \E s, d \in Digits : BinaryTurn(s, d, Subx(job.long, job.size.h, s, d, job.f))

NegDigit ==
    /\ Running("neg")
    /\ \E s \in Digits : BinaryTurn(s, 0, Negx(job.long, job.size.h, s, job.f))

(* Decimal digits come in pairs.                                           *)
Packed(r) == {r.nib * i + j : i, j \in 0..(r.ten - 1)}
Unpacked(r, b) == r.ten * (b \div r.nib) + (b % r.nib)

DecimalTurn(s, d, q) ==
    LET Val(b) == Unpacked(job.size, b) * job.weight
    IN job' = [job EXCEPT !.n = @ + 1, !.weight = @ * (job.size.ten * job.size.ten),
                          !.src = @ + Val(s), !.dst = @ + Val(d),
                          !.res = @ + Val(q.res), !.f = q.f]

AbcdDigits ==
    /\ Running("abcd")
    /\ \E s, d \in Packed(job.size) :
          DecimalTurn(s, d, Abcd(job.size.nib, job.size.ten, s, d, job.f))

SbcdDigits ==
    /\ Running("sbcd")
    /\ \E s, d \in Packed(job.size) :
          DecimalTurn(s, d, Sbcd(job.size.nib, job.size.ten, s, d, job.f))

NbcdDigits ==
    /\ Running("nbcd")
    /\ \E s \in Packed(job.size) :
          DecimalTurn(s, 0, Nbcd(job.size.nib, job.size.ten, s, job.f))

(* mulu of a digit, add.l of the carry, the high word is the next carry.   *)
MultiplyDigit ==
    /\ Running("mul")
    /\ \E d \in Digits :
          LET h == job.size.h
              p == Mulu(h, job.by, d, StartFlags(FALSE))
              q == Add(TRUE, LongSign(h), job.carry, p.res, p.f)
          IN job' = [job EXCEPT !.n = @ + 1, !.weight = @ * (2 * h),
                                !.src = @ + d * job.weight,
                                !.res = @ + (q.res % (2 * h)) * job.weight,
                                !.carry = q.res \div (2 * h)]

(* divu of the remainder so far with the next digit below it.              *)
DivideDigit ==
    /\ Running("div")
    /\ \E d \in Digits :
          LET w == 2 * job.size.h
              q == Divu(job.size.h, job.by, job.rem * w + d, job.f)
          IN job' = [job EXCEPT !.n = @ + 1, !.src = @ * w + d,
                                !.res = @ * w + (q.res % w), !.rem = q.res \div w,
                                !.f = q.f]

(* One comparison or division of any operands.                             *)
Single(kind, s, d, q) ==
    job' = [kind |-> kind, size |-> job.size, src |-> s, dst |-> d,
            was |-> job.f, res |-> q.res, f |-> q.f]

Compare ==
    /\ job.kind = "cmp"
    /\ \E long \in BOOLEAN, s, d \in Digits :
          Single("compared", s, d, Cmp(long, job.size.h, s, d, job.f))

Longs == 0..(4 * job.size.h * job.size.h - 1)

DivideUnsigned ==
    /\ job.kind = "divu"
    /\ \E s \in Digits \ {0}, d \in Longs :
          Single("dividedu", s, d, Divu(job.size.h, s, d, job.f))

DivideSigned ==
    /\ job.kind = "divs"
    /\ \E s \in Digits \ {0}, d \in Longs :
          Single("divideds", s, d, Divs(job.size.h, s, d, job.f))

-----------------------------------------------------------------------------
(* What one place does to the value, X and the last bit out.               *)
ToTheLeft == job.op \in {"asl", "lsl", "rol", "roxl"}
KeepsX    == job.op \in {"rol", "ror"}
ThroughX  == job.op \in {"roxl", "roxr"}

ShiftPlace ==
    /\ job.kind = "shift" /\ job.n < job.count
    /\ LET top == job.a >= 2^(job.w - 1)
           out == IF ToTheLeft THEN top ELSE job.a % 2 = 1
           in  == CASE KeepsX         -> out
                    [] ThroughX       -> job.x
                    [] job.op = "asr" -> top
                    [] OTHER          -> FALSE
           new == IF ToTheLeft THEN ((2 * job.a) % 2^job.w) + Bit(in)
                               ELSE (job.a \div 2) + 2^(job.w - 1) * Bit(in)
       IN job' = [job EXCEPT !.n = @ + 1, !.a = new, !.out = out,
                             !.x = IF KeepsX THEN @ ELSE out,
                             !.changed = @ \/ (new >= 2^(job.w - 1)) # top]

Next ==
    \/ AddDigit \/ SubDigit \/ NegDigit
    \/ AbcdDigits \/ SbcdDigits \/ NbcdDigits
    \/ MultiplyDigit \/ DivideDigit
    \/ Compare \/ DivideUnsigned \/ DivideSigned
    \/ ShiftPlace

Spec == Init /\ [][Next]_job

-----------------------------------------------------------------------------
BinaryKinds  == {"add", "sub", "neg"}
DecimalKinds == {"abcd", "sbcd", "nbcd"}

(* The number the routine should have produced.                            *)
Wanted ==
    CASE job.kind \in {"add", "abcd"} -> job.dst + job.src + Bit(job.x)
      [] job.kind \in {"sub", "sbcd"} -> job.dst - job.src - Bit(job.x)
      [] job.kind \in {"neg", "nbcd"} -> -job.src - Bit(job.x)

(* The number it did produce: X is the carry, or what was borrowed.        *)
Produced ==
    IF job.kind \in {"add", "abcd"} THEN job.res + Bit(job.f.x) * job.weight
                                    ELSE job.res - Bit(job.f.x) * job.weight

(* Sums, differences and negations of several digits are those of the      *)
(* numbers: X carries from digit to digit in every size, although the 32   *)
(* bit handlers work it out from the sign bits (m68kcpu.h 770), and Z,     *)
(* which these instructions can only clear, tells whether the whole number *)
(* is zero.                                                                *)
MultiwordExact ==
    job.kind \in BinaryKinds =>
        /\ Produced = Wanted
        /\ job.f.z <=> job.res = 0
        /\ job.f.c = job.f.x

(* The value of a number as a signed one, its weight being that of the     *)
(* digit above it.                                                         *)
AsSigned(a) == IF 2 * a >= job.weight THEN a - job.weight ELSE a

(* After the last digit N and V are those of the whole numbers: N is the   *)
(* sign of the result, V tells that the signed result does not fit.        *)
MultiwordSign ==
    job.kind \in BinaryKinds /\ job.n > 0 =>
        LET s == AsSigned(job.src)
            d == AsSigned(job.dst)
            r == CASE job.kind = "add" -> d + s + Bit(job.x)
                   [] job.kind = "sub" -> d - s - Bit(job.x)
                   [] job.kind = "neg" -> -s - Bit(job.x)
        IN /\ job.f.n <=> AsSigned(job.res) < 0
           /\ job.f.v <=> (2 * r < -job.weight \/ 2 * r >= job.weight)

(* The decimal instructions do decimal arithmetic on digits that are valid *)
(* and their result is made of valid digits.                               *)
DecimalExact ==
    job.kind \in DecimalKinds =>
        /\ Produced = Wanted
        /\ job.res \in 0..(job.weight - 1)
        /\ job.f.z <=> job.res = 0

(* A product by digits loses no carry: the carry that mulu's upper word    *)
(* hands on and add.l takes in is the rest of the product.  (Proved; no    *)
(* run repeats it.)                                                        *)
ProductExact ==
    job.kind = "mul" => job.res + job.carry * job.weight = job.src * job.by

(* A long division by a digit, with divu, never overflows and leaves a     *)
(* remainder below the divisor.                                            *)
DivisionExact ==
    job.kind = "div" =>
        /\ job.src = job.res * job.by + job.rem
        /\ job.rem \in 0..(job.by - 1)
        /\ ~job.f.v

(* After a comparison each condition of bcc, scc and dbcc is the relation  *)
(* of the integers it is named for, and X is what it was.                  *)
ConditionsCompare ==
    job.kind = "compared" =>
        LET ss == Signed(job.size.h, job.src)
            sd == Signed(job.size.h, job.dst)
            Holds(cc) == Cond(job.f, cc)
        IN /\ Holds("hi") <=> job.dst > job.src
           /\ Holds("ls") <=> job.dst <= job.src
           /\ Holds("cc") <=> job.dst >= job.src
           /\ Holds("cs") <=> job.dst < job.src
           /\ Holds("gt") <=> sd > ss
           /\ Holds("le") <=> sd <= ss
           /\ Holds("ge") <=> sd >= ss
           /\ Holds("lt") <=> sd < ss
           /\ Holds("eq") <=> job.dst = job.src
           /\ Holds("ne") <=> job.dst # job.src
           /\ job.f.x = job.was.x

(* divu and divs: when the quotient fits, quotient and remainder are those *)
(* of a division that truncates, with the remainder's sign that of the     *)
(* dividend; otherwise the operand and every flag but V are kept. The one  *)
(* dividend divs treats apart, the smallest by -1, counts as fitting and   *)
(* gives zero.                                                             *)
QuotientOrKept ==
    job.kind \in {"dividedu", "divideds"} =>
        LET h  == job.size.h
            sg == job.kind = "divideds"
            s  == IF sg THEN Signed(h, job.src) ELSE job.src
            d  == IF sg THEN Signed(LongSign(h), job.dst) ELSE job.dst
            q  == IF sg THEN Signed(h, job.res % (2 * h)) ELSE job.res % (2 * h)
            r  == IF sg THEN Signed(h, job.res \div (2 * h)) ELSE job.res \div (2 * h)
            smallest == sg /\ job.dst = LongSign(h) /\ s = -1
            fits == \E k \in (IF sg THEN (-h)..(h - 1) ELSE 0..(2 * h - 1)) :
                        /\ Magnitude(d - k * s) < Magnitude(s)
                        /\ d - k * s # 0 => ((d - k * s < 0) = (d < 0))
        IN CASE smallest -> job.res = 0 /\ job.f.z
             [] fits /\ ~smallest ->
                    /\ q * s + r = d /\ Magnitude(r) < Magnitude(s)
                    /\ r # 0 => ((r < 0) = (d < 0))
                    /\ ~job.f.v /\ (job.f.z <=> q = 0)
             [] OTHER -> job.res = job.dst /\ job.f = [job.was EXCEPT !.v = TRUE]

(* A shift by n places is n shifts by one place, for every count: X and C  *)
(* are the last bit out (through X for roxl and roxr), V of asl tells that *)
(* the sign changed on the way, a count of zero leaves X, and so does a    *)
(* rotation.                                                               *)
ShiftsCompose ==
    job.kind = "shift" /\ job.n = job.count =>
        LET q == Shift(job.op, job.form, job.long, job.w, job.start, job.count, job.was)
            c == IF job.count = 0 THEN ThroughX /\ job.x ELSE job.out
        IN /\ q.res = job.a
           /\ q.f = [x |-> job.x, n |-> job.a >= 2^(job.w - 1), z |-> job.a = 0,
                     v |-> job.op = "asl" /\ job.changed, c |-> c]
=============================================================================
