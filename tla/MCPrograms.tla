----------------------------- MODULE MCPrograms -----------------------------
(* Programs of the guest and what they are for, for a cpu with bytes of    *)
(* six bits and decimal digits 0 to 4.                                     *)
EXTENDS Programs, SequencesExt

MCByteBits == 6
MCSpace    == 1024
MCRam      == 832..1023

-----------------------------------------------------------------------------
(* An assembler. An instruction names the one it branches to by its place  *)
(* in the program, in n; an address relative to the pc stands as it is.    *)
E(op, sz, mode, y, x, ext) == Instr(op, sz, mode, y, x, ext)
D(op, sz, y, x) == Instr(op, sz, "d", y, x, <<>>)
Mv(op, mode, y, xmode, x, ext) == [Instr(op, "l", mode, y, x, ext) EXCEPT !.xmode = xmode]
Q(op, sz, n, mode, y, ext) == [Instr(op, sz, mode, y, 0, ext) EXCEPT !.n = n]
Static(op, mode, y, ext) == [Instr(op, "b", mode, y, 0, ext) EXCEPT !.form = "s"]
Sh(op, form, sz, y, x, n) == [Instr(op, sz, "d", y, x, <<>>) EXCEPT !.form = form, !.n = n]
S(cc, mode, y, ext) == [Instr("scc", "b", mode, y, 0, ext) EXCEPT !.cc = cc]
B(op, cc, j) == [Instr(op, "w", "d", 0, 0, <<0>>) EXCEPT !.cc = cc, !.n = j]
Db(op, cc, y, j) == [Instr(op, "w", "d", y, 0, <<0>>) EXCEPT !.cc = cc, !.n = j]
Op(op) == Instr(op, "w", "d", 0, 0, <<>>)
Lea(a, x) == Instr("lea", "l", "aw", 0, x, <<a>>)
Moveq(n, x) == [Instr("moveq", "l", "d", 0, x, <<>>) EXCEPT !.n = n]
Long(n) == <<n \div 4096, n % 4096>>
Label(op, x, j) == [Instr(op, "l", "pcdi", 0, x, <<0>>) EXCEPT !.n = j, !.form = "label"]
Ix(xn, long, disp) == [xn |-> xn, long |-> long, disp |-> disp]

Branches == {"bra", "bsr", "bcc", "dbt", "dbf", "dbcc"}

AddressOf(seq, base) ==
    LET at[i \in 1..(Len(seq) + 1)] ==
            IF i = 1 THEN base ELSE at[i - 1] + 2 + 2 * Len(seq[i - 1].ext)
    IN at

Asm(seq, base) ==
    LET at == AddressOf(seq, base)
        from(i) == at[i] + 2
        Linked(i) ==
            LET q == seq[i]
            IN CASE q.op \in Branches /\ q.sz = "w" -> [q EXCEPT !.ext = <<(at[q.n] - from(i)) % 4096>>]
                 [] q.op \in Branches /\ q.sz = "b" -> [q EXCEPT !.n = at[q.n] - from(i)]
                 [] q.mode = "pcdi" /\ q.form = "label" -> [q EXCEPT !.ext = <<(at[q.n] - from(i)) % 4096>>]
                 [] q.mode = "pcdi" /\ q.form # "label" -> [q EXCEPT !.ext[1] = (@ - from(i)) % 4096]
                 [] OTHER -> q
    IN [a \in {at[i] : i \in 1..Len(seq)} |-> Linked(CHOOSE i \in 1..Len(seq) : at[i] = a)]

-----------------------------------------------------------------------------
(* The handlers. The timer's one uses registers that it saves; that of     *)
(* traps counts them; that of refused instructions counts them and goes on *)
(* where a6 says.                                                          *)
TickCell == 832
TrapCell == 833
RefuseCell == 834

TickHandler == <<
    E("movem_re_pd", "l", "pd", 7, 0, <<{15, 14, 7}>>),
    Moveq(-1, 0),
    E("movea", "w", "i", 0, 0, <<4095>>),
    D("sub_er", "w", 0, 1),
    Q("addq", "b", 1, "aw", 0, <<TickCell>>),
    E("movem_er_pi", "l", "pi", 7, 0, <<{0, 1, 8}>>),
    Op("rte") >>

TrapHandlerCode == << Q("addq", "b", 1, "aw", 0, <<TrapCell>>), Op("rte") >>

RefuseHandler == <<
    Q("addq", "b", 1, "aw", 0, <<RefuseCell>>),
    Mv("move32", "a", 6, "di", 7, <<2>>),
    Op("rte") >>

Handlers == Asm(TickHandler, 600) @@ Asm(TrapHandlerCode, 640) @@ Asm(RefuseHandler, 660)

MCVectors ==
    [v \in 0..255 |-> IF v = 25 THEN 600 ELSE IF v \in {5, 6, 7, 32, 35} THEN 640 ELSE 660]

-----------------------------------------------------------------------------
(* What a case starts with: registers that are full of bits, clear memory  *)
(* and two stacks, and what is said of each otherwise.                     *)
UserTop  == 944
SuperTop == 1024

Junk == [k \in 0..15 |-> IF k = 15 THEN UserTop ELSE 7000001 + 100003 * k]
Part(k, sz, v) == (Junk[k] - (Junk[k] % Limit(sz))) + v

Case(r, mem, wr, wm) ==
    [r |-> r @@ Junk, bank |-> SuperTop, s |-> FALSE, mem |-> mem @@ [a \in Ram |-> 0],
     want |-> [r |-> wr @@ (15 :> UserTop), mem |-> wm]]

SuperCase(r, mem, wr, wm) ==
    [Case(r, mem, wr, wm) EXCEPT !.r[15] = SuperTop, !.bank = UserTop, !.s = TRUE]

None == [k \in {} |-> 0]

(* The n bytes, or the words, of a number at an address.                   *)
Digits(a, n, v) == [i \in a..(a + n - 1) |-> (v \div 64^(a + n - 1 - i)) % 64]
WordAt(a, v)  == Digits(a, 2, v % 4096)

Flag(b) == IF b THEN 63 ELSE 0
-----------------------------------------------------------------------------
(* Three bytes added to three bytes: addx from the last byte on.           *)
SumCode == <<
    Lea(843, 0), Lea(847, 1), Moveq(2, 3),
    E("move_toc", "w", "i", 0, 0, <<4>>),
    E("addx", "b", "pd", 0, 1, <<>>),
    Db("dbf", "f", 3, 5),
    S("eq", "d", 5, <<>>), S("cs", "aw", 0, <<850>>),
    B("bra", "t", 9) >>

Numbers == {0, 1, 63, 4095, 5000, 131072, 262143}

SumCases ==
    { Case(None, Digits(840, 3, a) @@ Digits(844, 3, b),
           (8 :> 840) @@ (5 :> Part(5, "b", Flag((a + b) % 262144 = 0))),
           Digits(844, 3, (a + b) % 262144) @@ (850 :> Flag(a + b > 262143)))
      : a \in Numbers, b \in {1, 4160, 262143} }
(* The difference of two numbers, by subx, and then its negative, by negx. *)
DifferenceCode == <<
    Lea(844, 0), Lea(848, 1), Moveq(3, 3),
    E("move_toc", "w", "i", 0, 0, <<4>>),
    E("subx", "w", "pd", 0, 1, <<>>), E("subx", "w", "pd", 0, 1, <<>>),
    S("eq", "aw", 0, <<850>>), S("cs", "aw", 0, <<851>>),
    Lea(848, 1), E("move_toc", "w", "i", 0, 0, <<4>>),
    E("negx", "b", "pd", 1, 0, <<>>),
    Db("dbf", "f", 3, 11),
    S("ne", "aw", 0, <<852>>),
    B("bra", "t", 14) >>

Big == 16777216

DifferenceCases ==
    { Case(None, Digits(840, 4, a) @@ Digits(844, 4, b), 9 :> 844,
           Digits(844, 4, (a - b) % Big) @@ (850 :> Flag(a = b)) @@ (851 :> Flag(b < a))
           @@ (852 :> Flag(a # b)))
      : a \in {1, 64, 4096, 999999}, b \in {0, 64, 4095, 16000000} }

(* The sum of 1 to n by a procedure that calls itself: an argument on the  *)
(* stack, a local variable below the frame pointer, saved registers.       *)
RecursionCode == <<
    Mv("move16", "d", 1, "pd", 7, <<>>),
    B("bsr", "t", 5),
    Q("addq", "w", 2, "a", 7, <<>>),
    B("bra", "t", 4),
    E("link", "w", "a", 6, 0, <<4094>>),
    E("movem_re_pd", "l", "pd", 7, 0, <<{14, 7}>>),
    D("sub_er", "w", 0, 0),
    Mv("move16", "di", 6, "d", 1, <<8>>),
    B("bcc", "eq", 17),
    Mv("move16", "d", 1, "di", 6, <<4094>>),
    E("suba", "l", "a", 0, 0, <<>>),
    Q("subq", "w", 1, "d", 1, <<>>),
    Mv("move16", "d", 1, "pd", 7, <<>>),
    Label("jsr", 0, 5),
    Q("addq", "l", 2, "a", 7, <<>>),
    E("add_er", "w", "di", 6, 0, <<4094>>),
    E("movem_er_pi", "l", "pi", 7, 0, <<{1, 8}>>),
    Q("unlk", "l", 0, "a", 6, <<>>),
    Op("rts") >>

RecursionCases ==
    { Case(1 :> Part(1, "w", n), None, 0 :> Part(0, "w", (n * (n + 1)) \div 2), None)
      : n \in 0..2 }

(* A string put on the stack byte by byte, and back in reverse; then a     *)
(* comparison of the strings up to the first byte in which they differ.    *)
ReverseCode == <<
    Lea(840, 0), Lea(850, 1), Moveq(0, 0),
    Mv("move8", "pi", 0, "pd", 7, <<>>),
    B("bcc", "eq", 8),
    Q("addq", "w", 1, "d", 0, <<>>),
    B("bra", "t", 4),
    Q("addq", "w", 2, "a", 7, <<>>),
    B("bra", "t", 11),
    Mv("move8", "pi", 7, "pi", 1, <<>>),
    Db("dbf", "f", 0, 10),
    Lea(840, 0), Lea(850, 1), Moveq(7, 0),
    E("cmpm", "b", "pi", 0, 1, <<>>),
    Db("dbcc", "ne", 0, 15),
    B("bra", "t", 17) >>

SeqAt(a, s) == [i \in a..(a + Len(s) - 1) |-> s[i - a + 1]]

ReverseCases ==
    { Case(None, SeqAt(840, s \o <<0>>),
           0 :> c, SeqAt(850, Reverse(s) \o <<0>>))
      : <<s, c>> \in {<< <<5, 9, 63>>, 7>>, << <<7, 1, 7>>, 4095>>, << <<>>, 4095>>} }

(* A sum of words that are reached in every addressing mode. The index in  *)
(* d1 is -4 in the low word, whatever the high one; an absolute word is    *)
(* sign extended: 3922 is 4096 - 174, and 850 is 1024 - 174.               *)
ModesCode == <<
    Lea(844, 0),
    Mv("move16", "i", 0, "d", 1, <<4092>>),
    Moveq(2, 2),
    E("clr", "w", "d", 0, 0, <<>>),
    E("add_er", "w", "ai", 0, 0, <<>>),
    E("add_er", "w", "di", 0, 0, <<2>>),
    E("add_er", "w", "di", 0, 0, <<4094>>),
    E("add_er", "w", "ix", 0, 0, <<Ix(1, FALSE, 0)>>),
    E("lea", "l", "ix", 0, 6, <<Ix(1, FALSE, 0)>>),
    E("add_er", "w", "ix", 0, 0, <<Ix(2, TRUE, 2)>>),
    E("add_er", "w", "aw", 0, 0, <<3922>>),
    E("add_er", "w", "al", 0, 0, Long(852)),
    E("add_er", "w", "pcdi", 0, 0, <<854>>),
    Label("lea", 3, 17),
    E("movea", "l", "i", 0, 4, Long(888)),
    E("suba", "l", "a", 3, 4, <<>>),
    E("add_er", "w", "pcix", 0, 0, <<Ix(12, TRUE, -32)>>),
    E("add_er", "w", "pi", 0, 0, <<>>),
    E("add_er", "w", "pd", 0, 0, <<>>),
    E("add_er", "w", "i", 0, 0, <<300>>),
    E("adda", "w", "i", 0, 0, <<4090>>),
    E("adda", "l", "d", 2, 0, <<>>),
    Mv("move32", "pi", 0, "pd", 5, <<>>),
    Mv("move16", "d", 0, "al", 0, Long(870)),
    B("bra", "t", 25) >>

ModesCases ==
    LET word(k, a) == (k + 389 * (a - 840)) % 4096
        table(k) == [a \in 840..859 |-> IF a % 2 = 0 THEN word(k, a) \div 64
                                                     ELSE word(k, a - 1) % 64]
        total(k) == FoldSet(LAMBDA a, t : t + word(k, a), 300 + 2 * word(k, 844),
                            {840, 842, 844, 846, 848, 850, 852, 854, 858}) % 4096
    IN { Case(13 :> 880, table(k),
              (0 :> Part(0, "w", total(k))) @@ (1 :> Part(1, "w", 4092)) @@ (8 :> 844)
              @@ (14 :> 840) @@ (13 :> 876),
              WordAt(870, total(k)) @@ Digits(876, 4, word(k, 840) * 4096 + word(k, 842)))
         : k \in {7, 2100, 4095} }

(* Every condition after a comparison of two bytes, in memory through a    *)
(* pointer, and a branch and a loop that depend on one.                    *)
CcOrder == <<"t", "f", "hi", "ls", "cc", "cs", "ne", "eq", "vc", "vs", "pl", "mi", "ge", "lt", "gt", "le">>

ConditionsCode ==
    << Lea(840, 0), Moveq(3, 3), D("cmp", "b", 1, 0) >>
    \o [i \in 1..16 |-> S(CcOrder[i], "pi", 0, <<>>)]
    \o << B("bcc", "gt", 22), D("eor", "w", 2, 2),
          Db("dbcc", "le", 3, 22), Db("dbt", "t", 3, 1), B("bra", "t", 24) >>

Int6(a) == IF a >= 32 THEN a - 64 ELSE a

ConditionsCases ==
    LET diff(a, b) == Int6(a) - Int6(b)
        byte(a, b) == (a - b) % 64
        truth(a, b) == <<TRUE, FALSE, a > b, a <= b, a >= b, a < b, a # b, a = b,
                         diff(a, b) \in -32..31, diff(a, b) \notin -32..31,
                         byte(a, b) < 32, byte(a, b) >= 32,
                         diff(a, b) >= 0, diff(a, b) < 0, diff(a, b) > 0, diff(a, b) <= 0>>
    IN { Case((0 :> Part(0, "b", a)) @@ (1 :> Part(1, "b", b)), None,
              (2 :> IF diff(a, b) > 0 THEN Junk[2] ELSE Part(2, "w", 0))
              @@ (3 :> IF diff(a, b) > 0 THEN 4095 ELSE 3),
              SeqAt(840, [i \in 1..16 |-> Flag(truth(a, b)[i])]))
         : a \in {0, 1, 31, 32, 63}, b \in {0, 1, 31, 32, 62} }

(* Single bits of a register and of memory: the number is taken modulo the *)
(* width of what it is a bit of.                                           *)
BitsCode == <<
    Lea(840, 0),
    D("bset", "l", 0, 1), S("eq", "aw", 0, <<850>>),
    Static("bchg", "d", 0, <<3>>), S("eq", "aw", 0, <<851>>),
    E("bclr", "b", "ai", 0, 1, <<>>), S("eq", "aw", 0, <<852>>),
    Static("bset", "pi", 0, <<2>>),
    Static("btst", "pd", 0, <<0>>), S("ne", "aw", 0, <<853>>),
    E("tas", "b", "ai", 0, 0, <<>>), S("mi", "aw", 0, <<854>>),
    B("bra", "t", 13) >>

BitsCases ==
    LET has(v, i) == (v \div 2^i) % 2 = 1
        with(v, i) == IF has(v, i) THEN v ELSE v + 2^i
        without(v, i) == IF has(v, i) THEN v - 2^i ELSE v
        flip(v, i) == IF has(v, i) THEN v - 2^i ELSE v + 2^i
        left(v, i) == with(without(v, i % 6), 2)
    IN { Case((0 :> n) @@ (1 :> i), 840 :> v,
              (0 :> flip(with(n, i % 24), 3)) @@ (8 :> 840),
              (840 :> with(left(v, i), 5)) @@ (850 :> Flag(~has(n, i % 24)))
              @@ (851 :> Flag(~has(with(n, i % 24), 3))) @@ (852 :> Flag(~has(v, i % 6)))
              @@ (853 :> Flag(has(v, 0))) @@ (854 :> Flag(has(left(v, i), 5))))
         : n \in {0, 40, 16777215}, v \in {0, 33, 63}, i \in {29, 26} }

(* Decimal numbers of two bytes, four digits 0 to 4: added, subtracted     *)
(* again, and one of them negated.                                         *)
DecimalCode == <<
    Lea(844, 0), Lea(848, 1), E("move_toc", "w", "i", 0, 0, <<4>>),
    E("abcd", "b", "pd", 0, 1, <<>>), E("abcd", "b", "pd", 0, 1, <<>>),
    S("eq", "aw", 0, <<850>>), S("cs", "aw", 0, <<851>>),
    Lea(844, 0), Lea(848, 1), E("move_toc", "w", "i", 0, 0, <<4>>),
    E("sbcd", "b", "pd", 0, 1, <<>>), E("sbcd", "b", "pd", 0, 1, <<>>),
    S("cs", "aw", 0, <<852>>), E("move_toc", "w", "i", 0, 0, <<4>>),
    E("nbcd", "b", "aw", 0, 0, <<843>>), E("nbcd", "b", "aw", 0, 0, <<842>>),
    S("cs", "aw", 0, <<853>>),
    B("bra", "t", 18) >>

DecimalAt(a, n) ==
    LET byte(k) == 8 * (k \div 5) + (k % 5) IN (a :> byte(n \div 25)) @@ (a + 1 :> byte(n % 25))

DecimalCases ==
    { Case(None, DecimalAt(842, a) @@ DecimalAt(846, b), None,
           DecimalAt(842, (-a) % 625) @@ DecimalAt(846, b)
           @@ (850 :> Flag((a + b) % 625 = 0)) @@ (851 :> Flag(a + b > 624))
           @@ (852 :> Flag(a + b > 624)) @@ (853 :> Flag(a # 0)))
      : a \in {0, 1, 24, 313, 624}, b \in {0, 312, 624} }

(* A quotient and its remainder; a product and its quotient; and divisions *)
(* by zero, which trap and change nothing.                                 *)
ProductsCode == <<
    D("divu", "w", 1, 0), S("vs", "aw", 0, <<850>>),
    Mv("move32", "d", 0, "aw", 0, <<840>>),
    D("muls", "w", 1, 2), Mv("move32", "d", 2, "aw", 0, <<844>>),
    D("divs", "w", 1, 2),
    E("divu", "w", "i", 0, 3, <<0>>), E("divs", "w", "i", 0, 3, <<0>>),
    E("mulu", "w", "i", 0, 4, <<4095>>),
    B("bra", "t", 10) >>

Int12(a) == IF a >= 2048 THEN a - 4096 ELSE a

ProductsCases ==
    LET quotient(n, d) == IF n \div d > 4095 THEN n ELSE (n % d) * 4096 + (n \div d)
    IN { Case((0 :> n) @@ (1 :> Part(1, "w", d)) @@ (2 :> Part(2, "w", k)), None,
              (0 :> quotient(n, d)) @@ (2 :> k) @@ (3 :> Junk[3])
              @@ (4 :> (Junk[4] % 4096) * 4095),
              (850 :> Flag(n \div d > 4095)) @@ Digits(840, 4, quotient(n, d))
              @@ Digits(844, 4, (Int12(k) * Int12(d)) % 16777216) @@ (TrapCell :> 2))
         : n \in {0, 999, 8000000}, d \in {1, 2047, 4095, 3000}, k \in {0, 7, 2049, 4094} }

(* Registers to every other byte of memory and back.                       *)
MovepCode == <<
    Lea(840, 0),
    E("movep_re", "l", "di", 0, 0, <<0>>),
    E("movep_er", "w", "di", 0, 1, <<4>>),
    E("movep_er", "l", "di", 0, 2, <<0>>),
    E("movep_re", "w", "di", 0, 2, <<1>>),
    B("bra", "t", 6) >>

MovepCases ==
    { Case(0 :> n, [a \in 840..847 |-> 17],
           (1 :> Part(1, "w", n % 4096)) @@ (2 :> n),
           [k \in {840, 842, 844, 846} |-> (n \div 64^((846 - k) \div 2)) % 64]
           @@ (841 :> (n % 4096) \div 64) @@ (843 :> n % 64) @@ (845 :> 17) @@ (847 :> 17))
      : n \in {0, 1, 16777214, 6000000} }

(* Lists of registers to and from memory, the pointer among them.          *)
ListsCode == <<
    Lea(864, 0),
    E("movem_re_pd", "w", "pd", 0, 0, <<{15, 14, 7}>>),
    E("movem_er", "w", "di", 0, 0, <<{2, 3, 9}, 0>>),
    E("movem_re", "l", "ai", 0, 0, <<{2, 8}>>),
    E("movem_er_pi", "l", "pi", 0, 0, <<{4, 8}>>),
    E("movem_er", "l", "aw", 0, 0, <<{5}, 862>>),
    Op("nop"),
    B("bra", "t", 8) >>

ListsCases ==
    { Case((0 :> Part(0, "w", v)) @@ (1 :> Part(1, "w", k)), None,
           [r \in {2, 4} |-> Int12(v) % 16777216] @@ (3 :> Int12(k) % 16777216)
           @@ (9 :> 864) @@ (8 :> 866) @@ (5 :> 858),
           Digits(858, 4, Int12(v) % 16777216) @@ Digits(862, 4, 858))
      : v \in {0, 2047, 4095}, k \in {1, 2048} }

(* A number of two words doubled in memory; shifts of registers by numbers *)
(* below and beyond their widths.                                          *)
ShiftsCode == <<
    E("lsl", "w", "aw", 0, 0, <<842>>), E("roxl", "w", "aw", 0, 0, <<840>>),
    S("cs", "aw", 0, <<850>>),
    Sh("asr", "s", "l", 0, 0, 3),
    Sh("lsl", "r", "w", 1, 3, 0),
    Sh("rol", "r", "b", 2, 7, 0), Sh("ror", "r", "b", 2, 7, 0),
    Sh("asl", "s", "b", 4, 0, 2), S("vs", "aw", 0, <<851>>),
    E("move_toc", "w", "i", 0, 0, <<16>>),
    Sh("roxr", "r", "w", 5, 3, 0), S("cs", "aw", 0, <<852>>),
    Sh("lsr", "s", "w", 6, 0, 8),
    B("bra", "t", 14) >>

ShiftsCases ==
    LET int(n)  == IF n >= 8388608 THEN n - 16777216 ELSE n
        low(n)  == n % 64
        fits(n) == 4 * Int6(low(n)) \in -32..31
    IN { Case([k \in {0, 1, 2, 4, 5, 6} |-> n] @@ (3 :> 13) @@ (7 :> 62), Digits(840, 4, n),
              (0 :> (int(n) \div 8) % 16777216) @@ (1 :> n - (n % 4096)) @@ (2 :> n) @@ (5 :> n)
              @@ (4 :> (n - low(n)) + ((4 * low(n)) % 64))
              @@ (6 :> (n - (n % 4096)) + ((n % 4096) \div 256)),
              Digits(840, 4, (2 * n) % 16777216) @@ (850 :> Flag(n >= 8388608))
              @@ (851 :> Flag(~fits(n))) @@ (852 :> 63))
         : n \in {0, 8, 31, 2049, 8390000, 16777215} }

(* Exchanges, one of them by three exclusive ors, and what comes in one    *)
(* register: words swapped, extended, inverted and negated.                *)
SwapsCode == <<
    D("eor", "l", 1, 0), D("eor", "l", 0, 1), D("eor", "l", 1, 0),
    [D("exg", "l", 0, 2) EXCEPT !.form = "dd"],
    [D("exg", "l", 3, 3) EXCEPT !.form = "da"],
    [D("exg", "l", 1, 2) EXCEPT !.form = "aa"],
    D("swap", "l", 4, 0),
    D("ext", "w", 5, 0), D("ext", "l", 5, 0),
    D("not", "w", 6, 0), D("neg", "w", 6, 0),
    D("clr", "b", 7, 0),
    D("tst", "b", 7, 0), S("eq", "aw", 0, <<850>>),
    B("bra", "t", 15) >>

SwapsCases ==
    { Case((0 :> a) @@ (5 :> Part(5, "b", b)), None,
           (1 :> a) @@ (2 :> Junk[1]) @@ (0 :> Junk[2]) @@ (3 :> Junk[11]) @@ (11 :> Junk[3])
           @@ (9 :> Junk[10]) @@ (10 :> Junk[9])
           @@ (4 :> (Junk[4] \div 4096) + 4096 * (Junk[4] % 4096))
           @@ (5 :> Int6(b) % 16777216) @@ (6 :> Part(6, "w", (Junk[6] + 1) % 4096))
           @@ (7 :> Part(7, "b", 0)),
           850 :> 63)
      : a \in {0, 12345678}, b \in {0, 31, 32, 63} }

(* What a user's program may not execute, each with the place to go on in  *)
(* a6; and instructions that the 68000 does not have.                      *)
Refused ==
    << E("andi_tos", "w", "i", 0, 0, <<0>>), E("ori_tos", "w", "i", 0, 0, <<2048>>),
       E("eori_tos", "w", "i", 0, 0, <<2048>>), E("move_tos", "w", "i", 0, 0, <<2048>>),
       D("move_tos", "w", 0, 0), D("move_fru", "l", 0, 0), D("move_tou", "l", 0, 0),
       Op("rte"), E("stop", "w", "i", 0, 0, <<0>>), Op("reset"),
       Op("illegal"), Op("line1010"), Op("line1111"),
       E("tst", "w", "a", 0, 0, <<>>), E("tst", "b", "i", 0, 0, <<0>>),
       E("tst", "b", "pcdi", 0, 0, <<0>>), E("cmpi", "w", "pcix", 0, 0, <<0, Ix(0, FALSE, 0)>>) >>
    \o FoldSet(LAMBDA op, s : Append(s, [Op(op) EXCEPT !.mode = "ai", !.ext = <<1032>>]),
               <<>>, LaterOps)

RefusedCode ==
    [i \in 1..(2 * Len(Refused)) |->
        IF i % 2 = 1 THEN Label("lea", 6, i + 2) ELSE Refused[i \div 2]]
    \o << B("bra", "t", 2 * Len(Refused) + 1) >>

RefusedCases ==
    { Case(0 :> 2048, None, [k \in 1..13 |-> Junk[k]] @@ (0 :> 2048),
           RefuseCell :> Len(Refused)) }

(* The traps that a program asks for, and those of its mistakes.           *)
TrapsCode == <<
    Q("trap", "w", 3, "d", 0, <<>>),
    E("ori_toc", "b", "i", 0, 0, <<2>>), Op("trapv"),
    E("andi_toc", "b", "i", 0, 0, <<29>>), Op("trapv"),
    D("chk", "w", 1, 0),
    E("divs", "w", "i", 0, 2, <<0>>),
    E("move_toc", "w", "i", 0, 0, <<21>>), E("eori_toc", "b", "i", 0, 0, <<3>>),
    E("move_frs", "w", "aw", 0, 0, <<860>>),
    Q("trap", "w", 0, "d", 0, <<>>),
    B("bra", "t", 12) >>

TrapsCases ==
    { Case((0 :> Part(0, "w", v)) @@ (1 :> Part(1, "w", k)), None,
           (2 :> Junk[2]) @@ (0 :> Part(0, "w", v)),
           (TrapCell :> IF Int12(v) < 0 \/ Int12(v) > Int12(k) THEN 5 ELSE 4) @@ WordAt(860, 22))
      : v \in {0, 5, 2047, 4095}, k \in {0, 5, 4000} }

(* A supervisor that masks the timer, waits for it, and leaves to a user   *)
(* program on the stack that it gave it.                                   *)
SystemCode == <<
    E("movea", "l", "i", 0, 0, Long(UserTop - 16)),
    D("move_tou", "l", 0, 0), D("move_fru", "l", 1, 0),
    E("ori_tos", "w", "i", 0, 0, <<64>>),
    Q("addq", "b", 1, "aw", 0, <<860>>),
    E("andi_tos", "w", "i", 0, 0, <<4031>>),
    E("move_tos", "w", "i", 0, 0, <<2048 + 192>>),
    E("eori_tos", "w", "i", 0, 0, <<192>>),
    E("stop", "w", "i", 0, 0, <<2048 + 4>>), S("eq", "aw", 0, <<850>>),
    Op("reset"),
    Label("pea", 0, 15),
    Mv("move16", "i", 0, "pd", 7, <<1>>),
    Op("rte"),
    S("cs", "aw", 0, <<851>>),
    B("bra", "t", 16) >>

SystemCases ==
    { SuperCase(None, None, (15 :> UserTop - 16) @@ (8 :> UserTop - 16) @@ (9 :> UserTop - 16),
                (850 :> 63) @@ (851 :> 63) @@ (860 :> 1)) }

(* Jumps through a table, a call that returns with new condition codes, an *)
(* address put on the stack to return to, and a frame of a7 itself.        *)
CallsCode == <<
    Label("lea", 0, 4), Moveq(2, 1),
    E("jmp", "l", "ix", 0, 0, <<Ix(1, FALSE, 0)>>),
    Op("illegal"),
    Label("lea", 1, 15), E("jsr", "l", "ai", 1, 0, <<>>),
    Label("pea", 0, 9), Op("rts"),
    E("link_a7", "w", "a", 7, 0, <<4092>>), Q("addq", "l", 4, "a", 7, <<>>), Op("unlk_a7"),
    Q("addq", "l", 4, "a", 7, <<>>),
    S("cs", "aw", 0, <<850>>),
    B("bra", "t", 14),
    Mv("move16", "i", 0, "pd", 7, <<5>>), Op("rtr") >>

CallsCases == { Case(None, None, 15 :> UserTop, (850 :> 63) @@ (RefuseCell :> 0)) }

(* move16 as its handler works on this cpu.                                *)
LineCode == << Lea(840, 0), Lea(860, 1), E("move16_line", "l", "pi", 0, 0, <<1>>), B("bra", "t", 4) >>

LineCases ==
    { Case(None, [a \in 840..855 |-> a - 800], (8 :> 856) @@ (9 :> 876),
           [a \in 860..875 |-> a - 820]) }

(* Operands in memory; addresses, which change as a whole and leave the    *)
(* condition codes.                                                        *)
MemoryCode == <<
    E("add_re", "w", "aw", 0, 0, <<840>>), E("sub_re", "b", "aw", 0, 1, <<842>>),
    E("addi", "l", "aw", 0, 0, Long(70000) \o <<844>>),
    E("subi", "w", "aw", 0, 0, <<9, 840>>), Q("subq", "b", 8, "aw", 0, <<842>>),
    E("and_re", "b", "aw", 0, 2, <<848>>), E("or_re", "b", "aw", 0, 2, <<849>>),
    E("andi", "b", "aw", 0, 0, <<15, 850>>), E("ori", "b", "aw", 0, 0, <<15, 851>>),
    E("eori", "b", "aw", 0, 0, <<15, 852>>),
    E("and_er", "w", "aw", 0, 4, <<840>>), E("or_er", "w", "aw", 0, 5, <<840>>),
    E("movea", "w", "i", 0, 2, <<4090>>), E("cmpa", "w", "i", 0, 2, <<4090>>),
    Q("subq", "w", 1, "a", 2, <<>>), S("eq", "aw", 0, <<853>>),
    E("cmpi", "w", "aw", 0, 0, <<16, 840>>), S("eq", "aw", 0, <<854>>),
    E("tst", "w", "aw", 0, 0, <<840>>), S("pl", "aw", 0, <<855>>),
    B("bra", "t", 21) >>

MemoryCases ==
    LET word(v) == (1000 + v - 9) % 4096
        both(a, b) == FoldSet(LAMBDA i, t : t + 2^i * ((a \div 2^i) % 2) * ((b \div 2^i) % 2), 0, 0..11)
    IN { Case((0 :> Part(0, "w", v)) @@ (1 :> Part(1, "b", 3)) @@ (2 :> Part(2, "b", 42)),
              WordAt(840, 1000) @@ (842 :> 5) @@ Digits(844, 4, 16777000)
              @@ [a \in 848..852 |-> 25],
              (4 :> Part(4, "w", both(Junk[4] % 4096, word(v))))
              @@ (5 :> Part(5, "w", (Junk[5] % 4096) + word(v) - both(Junk[5] % 4096, word(v))))
              @@ (10 :> 16777209) @@ (0 :> Part(0, "w", v)),
              WordAt(840, word(v)) @@ (842 :> 58) @@ Digits(844, 4, 69784)
              @@ (848 :> 8) @@ (849 :> 59) @@ (850 :> 9) @@ (851 :> 31) @@ (852 :> 22)
              @@ (853 :> 63) @@ (854 :> Flag(word(v) = 16)) @@ (855 :> Flag(word(v) < 2048)))
         : v \in {0, 1057, 3121, 4095} }

-----------------------------------------------------------------------------
MCLibrary ==
    LET handlers == Handlers
        program(p) ==
            LET end == CHOOSE i \in 1..Len(p.seq) : p.seq[i].op = "bra" /\ p.seq[i].n = i
            IN [code |-> Asm(p.seq, 0) @@ handlers, exit |-> AddressOf(p.seq, 0)[end],
                cases |-> p.cases]
    IN { program(p) : p \in {
           [seq |-> SumCode,        cases |-> SumCases],
           [seq |-> DifferenceCode, cases |-> DifferenceCases],
           [seq |-> RecursionCode,  cases |-> RecursionCases],
           [seq |-> ReverseCode,    cases |-> ReverseCases],
           [seq |-> ModesCode,      cases |-> ModesCases],
           [seq |-> ConditionsCode, cases |-> ConditionsCases],
           [seq |-> BitsCode,       cases |-> BitsCases],
           [seq |-> DecimalCode,    cases |-> DecimalCases],
           [seq |-> ProductsCode,   cases |-> ProductsCases],
           [seq |-> MovepCode,      cases |-> MovepCases],
           [seq |-> ListsCode,      cases |-> ListsCases],
           [seq |-> ShiftsCode,     cases |-> ShiftsCases],
           [seq |-> SwapsCode,      cases |-> SwapsCases],
           [seq |-> RefusedCode,    cases |-> RefusedCases],
           [seq |-> TrapsCode,      cases |-> TrapsCases],
           [seq |-> SystemCode,     cases |-> SystemCases],
           [seq |-> CallsCode,      cases |-> CallsCases],
           [seq |-> LineCode,       cases |-> LineCases],
           [seq |-> MemoryCode,     cases |-> MemoryCases] } }
=============================================================================
