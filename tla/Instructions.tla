---------------------------- MODULE Instructions ----------------------------
(***************************************************************************)
(* The instruction handlers of m68k_in.c for the 68000. A handler takes    *)
(* the machine after the fetch: ppc is the address of the instruction, pc  *)
(* that of the word after it, ir the instruction. The generated handlers   *)
(* of an instruction, one for each size and addressing mode, are one       *)
(* definition here with ir.sz and ir.mode as its parameters.               *)
(*                                                                         *)
(* The order in which a handler evaluates its operands is the code's: the  *)
(* words after the opcode are read as they are needed, a source is read    *)
(* before the address of the destination is computed, a register that an   *)
(* address mode changed is seen changed from there on.                     *)
(***************************************************************************)
EXTENDS Addressing, Bcd, Shifts, FiniteSetsExt

CONSTANT Ten    \* the base of decimal digits, 10 in the code

ASSUME TenAssumption == Ten \in 2..2^(ByteBits \div 2)

IsLong(m)  == m.ir.sz = "l"
IrHalf(m)  == Half(m.ir.sz)
IrX(m)     == Mask(m.r[m.ir.x], m.ir.sz)     \* DX, masked to the size
Source(m)  == Operand(m, m.ir.mode, m.ir.y, m.ir.sz)

WithFlagsOf(m, q) == [m EXCEPT !.f = q.f]

(* A result q goes to a data register, to an address or to a register that *)
(* changes as a whole.                                                     *)
ResultToD(m, n, sz, q)   == SetD(WithFlagsOf(m, q), n, sz, q.res)
ResultToEa(m, ea, sz, q) == Write(WithFlagsOf(m, q), ea, sz, q.res)
ResultToR(m, k, q)       == SetR(WithFlagsOf(m, q), k, q.res)

(* Read, change and write back an operand: F(dst, flags) gives the result. *)
ModifyAt(e, sz, F(_, _)) == ResultToEa(e.m, e.v, sz, F(Read(e.m, e.v, sz), e.m.f))

Modify(m, mode, n, sz, F(_, _)) ==
    IF mode = "d" THEN ResultToD(m, n, sz, F(Mask(m.r[n], sz), m.f))
                  ELSE ModifyAt(Ea(m, mode, n, sz), sz, F)

(* The forms of the instructions with two operands; Op(long, half, src,    *)
(* dst, flags). er: <ea> op Dx -> Dx; re: Dx op <ea> -> <ea>; an immediate *)
(* word is read before the address; the number of addq is in the opcode.   *)
OntoDx(m, src, Op(_, _, _, _, _)) ==
    ResultToD(m, m.ir.x, m.ir.sz, Op(IsLong(m), IrHalf(m), src, IrX(m), m.f))

EaToDx(m, Op(_, _, _, _, _)) == LET o == Source(m) IN OntoDx(o.m, o.v, Op)

IntoEa(m, src, Op(_, _, _, _, _)) ==
    LET F(d, f) == Op(IsLong(m), IrHalf(m), src, d, f)
    IN Modify(m, m.ir.mode, m.ir.y, m.ir.sz, F)

DxToEa(m, Op(_, _, _, _, _)) == IntoEa(m, IrX(m), Op)

ImmToEa(m, Op(_, _, _, _, _)) ==
    LET i == ReadImm(m, m.ir.sz) IN IntoEa(i.m, i.v, Op)

(* Dy op Dx -> Dx, or -(Ay) op -(Ax) -> -(Ax), the source first.           *)
Extend(m, F(_, _, _)) ==
    LET o == Source(m)
        G(d, f) == F(o.v, d, f)
    IN Modify(o.m, m.ir.mode, m.ir.x, m.ir.sz, G)

(* The sum of an address register: the whole of it, no flags. A word is    *)
(* sign extended, and the register is read after the source.               *)
OntoAx(m, v) == SetR(m, A(m.ir.x), m.r[A(m.ir.x)] + v)

IntoAx(m, sign) == LET o == Source(m) IN OntoAx(o.m, sign * MakeInt(o.v, m.ir.sz))

-----------------------------------------------------------------------------
AddErOp(m) == EaToDx(m, Add)
AddReOp(m) == DxToEa(m, Add)
AddiOp(m)  == ImmToEa(m, Add)
AddaOp(m)  == IntoAx(m, 1)
AddxOp(m)  == LET F(s, d, f) == Addx(IsLong(m), IrHalf(m), s, d, f) IN Extend(m, F)

(* Quick data to an address register: all of it, no flags, in any size.    *)
Quick(m, sign, Op(_, _, _, _, _)) ==
    IF m.ir.mode = "a" THEN SetR(m, A(m.ir.y), m.r[A(m.ir.y)] + sign * m.ir.n)
                       ELSE IntoEa(m, m.ir.n, Op)

AddqOp(m) == Quick(m, 1, Add)
SubqOp(m) == Quick(m, -1, Sub)

SubErOp(m) == EaToDx(m, Sub)
SubReOp(m) == DxToEa(m, Sub)
SubiOp(m)  == ImmToEa(m, Sub)
SubaOp(m)  == IntoAx(m, -1)
SubxOp(m)  == LET F(s, d, f) == Subx(IsLong(m), IrHalf(m), s, d, f) IN Extend(m, F)

NegOp(m) ==
    LET F(d, f) == Neg(IsLong(m), IrHalf(m), d, f) IN Modify(m, m.ir.mode, m.ir.y, m.ir.sz, F)

NegxOp(m) ==
    LET F(d, f) == Negx(IsLong(m), IrHalf(m), d, f) IN Modify(m, m.ir.mode, m.ir.y, m.ir.sz, F)

(* The comparisons write nothing.                                          *)
Compared(m, sz, src, dst) ==
    [m EXCEPT !.f = Cmp(sz = "l", Half(sz), src, dst, m.f).f]

CmpOp(m) == LET o == Source(m) IN Compared(o.m, m.ir.sz, o.v, IrX(o.m))

(* cmpa compares longs, a word being sign extended.                        *)
CmpaOp(m) ==
    LET o == Source(m)
    IN Compared(o.m, "l", Mask(MakeInt(o.v, m.ir.sz), "l"), o.m.r[A(m.ir.x)])

(* The 68000 has cmpi and tst for what can be written only.                *)
CmpiOp(m) ==
    LET i == ReadImm(m, m.ir.sz)
        o == Source(i.m)
    IN IF m.ir.mode \in {"pcdi", "pcix"} THEN ExceptionIllegal(m)
                                         ELSE Compared(o.m, m.ir.sz, i.v, o.v)

CmpmOp(m) ==
    LET s == Operand(m, "pi", m.ir.y, m.ir.sz)
        d == Operand(s.m, "pi", m.ir.x, m.ir.sz)
    IN Compared(d.m, m.ir.sz, s.v, d.v)

-----------------------------------------------------------------------------
(* Decimal.                                                                *)
Nibble == 2^(ByteBits \div 2)

AbcdOp(m) == LET F(s, d, f) == Abcd(Nibble, Ten, s, d, f) IN Extend(m, F)
SbcdOp(m) == LET F(s, d, f) == Sbcd(Nibble, Ten, s, d, f) IN Extend(m, F)

(* nbcd writes nothing when there is nothing to negate.                    *)
NbcdOp(m) ==
    LET o == Source(m)
        F(d, f) == Nbcd(Nibble, Ten, d, f)
    IN IF o.v = 0 /\ ~m.f.x THEN WithFlagsOf(o.m, F(o.v, m.f))
                            ELSE Modify(m, m.ir.mode, m.ir.y, "b", F)

(* Logic. The operators &, | and ^ of C, from what they give for two bits. *)
Bitwise(a, b, OfBits(_, _)) ==
    FoldSet(LAMBDA i, t : t + 2^i * OfBits((a \div 2^i) % 2, (b \div 2^i) % 2),
            0, 0..(Width("l") - 1))

And(a, b) == Bitwise(a, b, LAMBDA i, j : i * j)
Or(a, b)  == Bitwise(a, b, LAMBDA i, j : i + j - i * j)
Eor(a, b) == Bitwise(a, b, LAMBDA i, j : (i + j) % 2)

LogicalAnd(long, h, s, d, f) == Logical(h, And(s, d), f)
LogicalOr(long, h, s, d, f)  == Logical(h, Or(s, d), f)
LogicalEor(long, h, s, d, f) == Logical(h, Eor(s, d), f)

AndErOp(m) == EaToDx(m, LogicalAnd)
AndReOp(m) == DxToEa(m, LogicalAnd)
AndiOp(m)  == ImmToEa(m, LogicalAnd)
OrErOp(m)  == EaToDx(m, LogicalOr)
OrReOp(m)  == DxToEa(m, LogicalOr)
OriOp(m)   == ImmToEa(m, LogicalOr)
EorOp(m)   == DxToEa(m, LogicalEor)
EoriOp(m)  == ImmToEa(m, LogicalEor)

NotOp(m) ==
    LET F(d, f) == Logical(IrHalf(m), Limit(m.ir.sz) - 1 - d, f)
    IN Modify(m, m.ir.mode, m.ir.y, m.ir.sz, F)

(* To the condition codes; to the status register only in supervisor mode. *)
ToCcr(m, Op(_, _)) ==
    LET i == ReadImm(m, "b") IN [i.m EXCEPT !.f = Ccr(Op(GetCcr(m.f), i.v))]

ToSr(m, Op(_, _)) ==
    IF m.s THEN LET i == ReadImm16(m) IN SetSr(i.m, Op(GetSr(m), i.v))
           ELSE ExceptionPrivilege(m)

AndiTocOp(m) == ToCcr(m, And)
AndiTosOp(m) == ToSr(m, And)
OriTocOp(m)  == ToCcr(m, Or)
OriTosOp(m)  == ToSr(m, Or)
EoriTocOp(m) == ToCcr(m, Eor)
EoriTosOp(m) == ToSr(m, Eor)

(* bchg, bclr, bset, btst: a long in a register, a byte in memory, and Z   *)
(* tells what the bit was. The number of the bit comes from a register or  *)
(* from a word after the opcode, read before the address.                  *)
BitNumber(m) ==
    IF m.ir.form = "s" THEN ReadImm(m, "b") ELSE [v |-> m.r[m.ir.x], m |-> m]

ChangeBit(m, New(_)) ==
    LET b   == BitNumber(m)
        sz  == IF m.ir.mode = "d" THEN "l" ELSE "b"
        bit == 2^(b.v % Width(sz))
        was(d)  == (d \div bit) % 2
        F(d, f) == [res |-> d + bit * (New(was(d)) - was(d)), f |-> [f EXCEPT !.z = was(d) = 0]]
    IN Modify(b.m, m.ir.mode, m.ir.y, sz, F)

BchgOp(m) == ChangeBit(m, LAMBDA was : 1 - was)
BclrOp(m) == ChangeBit(m, LAMBDA was : 0)
BsetOp(m) == ChangeBit(m, LAMBDA was : 1)

BtstOp(m) ==
    LET b  == BitNumber(m)
        sz == IF m.ir.mode = "d" THEN "l" ELSE "b"
        o  == Operand(b.m, m.ir.mode, m.ir.y, sz)
    IN [o.m EXCEPT !.f.z = (o.v \div 2^(b.v % Width(sz))) % 2 = 0]

-----------------------------------------------------------------------------
(* Shifts and rotations of a data register, by a number in the opcode or   *)
(* by a register modulo 64, and of a word in memory by one.                *)
ShiftOp(m) ==
    LET count == IF m.ir.form = "s" THEN m.ir.n ELSE m.r[m.ir.x] % (8 * ByteBits)
        Reg(d, f) == Shift(m.ir.op, m.ir.form, IsLong(m), Width(m.ir.sz), d, count, f)
        Mem(d, f) == Shift(m.ir.op, "s", FALSE, Width("w"), d, 1, f)
    IN IF m.ir.mode = "d" THEN Modify(m, "d", m.ir.y, m.ir.sz, Reg)
                          ELSE Modify(m, m.ir.mode, m.ir.y, "w", Mem)

-----------------------------------------------------------------------------
(* Moves. The source is read before the address of the destination.        *)
StoreAt(e, mode, sz, v) ==
    IF mode = "pd" /\ sz = "l" THEN Write32Pd(e.m, e.v, v) ELSE Write(e.m, e.v, sz, v)

Store(m, mode, n, sz, v) ==
    IF mode = "d" THEN SetD(m, n, sz, v) ELSE StoreAt(Ea(m, mode, n, sz), mode, sz, v)

StoreResult(m, sz, q) == Store(WithFlagsOf(m, q), m.ir.xmode, m.ir.x, sz, q.res)

Moved(m, sz) ==
    LET o == Operand(m, m.ir.mode, m.ir.y, sz)
    IN StoreResult(o.m, sz, Logical(Half(sz), o.v, m.f))

Move8Op(m)  == Moved(m, "b")
Move16Op(m) == Moved(m, "w")
Move32Op(m) == Moved(m, "l")

(* An address register is written as a whole and the flags stay.           *)
MoveaOp(m) == LET o == Source(m) IN SetR(o.m, A(m.ir.x), MakeInt(o.v, m.ir.sz))

MoveqOp(m) ==
    LET v == Mask(MakeInt(m.ir.n, "b"), "l")
    IN SetR(WithFlagsOf(m, Logical(Half("l"), v, m.f)), m.ir.x, v)

(* clr writes without reading, a long to -(An) the high word first; tst    *)
(* reads without writing.                                                  *)
ClrOp(m) ==
    LET e      == Ea(m, m.ir.mode, m.ir.y, m.ir.sz)
        stored == IF m.ir.mode = "d" THEN SetD(m, m.ir.y, m.ir.sz, 0)
                                     ELSE Write(e.m, e.v, m.ir.sz, 0)
    IN WithFlagsOf(stored, Logical(IrHalf(m), 0, m.f))

TstOp(m) ==
    LET o == Source(m)
    IN IF m.ir.mode \in {"a", "i", "pcdi", "pcix"} THEN ExceptionIllegal(m)
       ELSE WithFlagsOf(o.m, Logical(IrHalf(m), o.v, m.f))

(* tas tests the byte as it was and sets its highest bit.                  *)
TasOp(m) ==
    LET h == Half("b")
        F(d, f) == [Logical(h, d, f) EXCEPT !.res = IF Negative(h, d) THEN d ELSE d + h]
    IN Modify(m, m.ir.mode, m.ir.y, "b", F)

(* ext: the byte to a word, or the word to a long.                         *)
ExtOp(m) ==
    LET from == IF m.ir.sz = "w" THEN "b" ELSE "w"
        F(d, f) == Logical(IrHalf(m), Mask(MakeInt(d, from), m.ir.sz), f)
    IN Modify(m, "d", m.ir.y, m.ir.sz, F)

SwapOp(m) ==
    LET F(d, f) == Logical(Half("l"), (d \div Limit("w")) + Limit("w") * Mask(d, "w"), f)
    IN Modify(m, "d", m.ir.y, "l", F)

(* exg: the forms are dd, aa and da.                                       *)
ExgOp(m) ==
    LET p == IF m.ir.form = "aa" THEN A(m.ir.x) ELSE m.ir.x
        q == IF m.ir.form = "dd" THEN m.ir.y ELSE A(m.ir.y)
    IN [m EXCEPT !.r[p] = m.r[q], !.r[q] = m.r[p]]

SccOp(m) ==
    Store(m, m.ir.mode, m.ir.y, "b", IF Cond(m.f, m.ir.cc) THEN Limit("b") - 1 ELSE 0)

-----------------------------------------------------------------------------
(* Several registers. A list is the set of the bits that are set in the    *)
(* word after the opcode; it is read before the address is computed. The   *)
(* loop looks at bits 0 to 15; what a turn of it starts with and leaves is *)
(* an address and a machine, t.                                            *)
Turns4(Turn(_, _), t, i) == Turn(Turn(Turn(Turn(t, i), i + 1), i + 2), i + 3)

Turns16(Turn(_, _), t) ==
    Turns4(Turn, Turns4(Turn, Turns4(Turn, Turns4(Turn, t, 0), 4), 8), 12)

(* To -(An) bit 0 is a7, registers are stored downwards, and An itself as  *)
(* it was; An changes at the end.                                          *)
StoreDown(m, list, t, i) ==
    LET sz == m.ir.sz
        ea == Mask(t.v - Bytes(sz), "l")
        v  == m.r[15 - i]
    IN IF i \notin list THEN t
       ELSE [v |-> ea, m |-> IF sz = "l" THEN Write32Pd(t.m, ea, v)
                                         ELSE Write16(t.m, ea, Mask(v, "w"))]

MovemRePd(m) ==
    LET list == ReadImm16(m)
        Turn(t, i) == StoreDown(m, list.v, t, i)
        done == Turns16(Turn, [v |-> m.r[A(m.ir.y)], m |-> list.m])
    IN SetR(done.m, A(m.ir.y), done.v)

StoreUp(m, list, t, i) ==
    LET sz == m.ir.sz
    IN IF i \notin list THEN t
       ELSE [v |-> t.v + Bytes(sz), m |-> Write(t.m, t.v, sz, Mask(m.r[i], sz))]

MovemReOp(m) ==
    LET list == ReadImm16(m)
        Turn(t, i) == StoreUp(m, list.v, t, i)
    IN Turns16(Turn, Ea(list.m, m.ir.mode, m.ir.y, m.ir.sz)).m

(* A word that is loaded changes the whole register. After (An)+ the       *)
(* address is in An, even when An was in the list.                         *)
LoadUp(sz, list, t, i) ==
    IF i \notin list THEN t
    ELSE [v |-> t.v + Bytes(sz), m |-> SetR(t.m, i, MakeInt(Read(t.m, t.v, sz), sz))]

MovemErPi(m) ==
    LET list == ReadImm16(m)
        Turn(t, i) == LoadUp(m.ir.sz, list.v, t, i)
        done == Turns16(Turn, [v |-> m.r[A(m.ir.y)], m |-> list.m])
    IN SetR(done.m, A(m.ir.y), done.v)

MovemErOp(m) ==
    LET list == ReadImm16(m)
        Turn(t, i) == LoadUp(m.ir.sz, list.v, t, i)
    IN Turns16(Turn, Ea(list.m, m.ir.mode, m.ir.y, m.ir.sz)).m

(* movep: the bytes of a data register, the high one first, in every other *)
(* byte of memory.                                                         *)
MovepReOp(m) ==
    LET e   == EaDi(m, m.r[A(m.ir.y)])
        src == m.r[m.ir.x]
        Words(t, ea, v) == Write8(Write8(t, ea, v \div Limit("b")), ea + 2, v)
    IN IF m.ir.sz = "w" THEN Words(e.m, e.v, src)
                        ELSE Words(Words(e.m, e.v, src \div Limit("w")), e.v + 4, src)

MovepErOp(m) ==
    LET e == EaDi(m, m.r[A(m.ir.y)])
        word(ea) == ByteAt(e.m, ea) * Limit("b") + ByteAt(e.m, ea + 2)
    IN SetD(e.m, m.ir.x, m.ir.sz,
            IF m.ir.sz = "w" THEN word(e.v) ELSE word(e.v) * Limit("w") + word(e.v + 4))

(* move16, an instruction of the 68040 whose handler does not look at the  *)
(* type of the cpu. The word after the opcode names the second register.   *)
Move16LineOp(m) ==
    LET w  == ReadImm16(m)
        ax == A(m.ir.y)
        ay == A(w.v)
        Copy(t, k) == Write32(t, t.r[ay] + k, Read(t, t.r[ax] + k, "l"))
        copied == Copy(Copy(Copy(Copy(w.m, 0), 4), 8), 12)
        first  == SetR(copied, ax, copied.r[ax] + 16)
    IN SetR(first, ay, first.r[ay] + 16)

-----------------------------------------------------------------------------
(* Addresses and the stack. jsr computes the address before it pushes.     *)
LeaOp(m) == LET e == Ea(m, m.ir.mode, m.ir.y, "l") IN SetR(e.m, A(m.ir.x), e.v)

PeaOp(m) == LET e == Ea(m, m.ir.mode, m.ir.y, "l") IN Push(e.m, "l", e.v)

(* link and unlk on a7 itself have handlers of their own.                  *)
LinkA7(m) ==
    LET sp == Mask(m.r[SP] - 4, "l")
        w  == ReadImm16(Write32(SetR(m, SP, sp), sp, sp))
    IN SetR(w.m, SP, sp + MakeInt(w.v, "w"))

LinkOp(m) ==
    LET pushed == Push(m, "l", m.r[A(m.ir.y)])
        w      == ReadImm16(SetR(pushed, A(m.ir.y), pushed.r[SP]))
    IN SetR(w.m, SP, w.m.r[SP] + MakeInt(w.v, "w"))

UnlkA7(m) == SetR(m, SP, Read(m, m.r[SP], "l"))

UnlkOp(m) ==
    LET p == Pull(SetR(m, SP, m.r[A(m.ir.y)]), "l") IN SetR(p.m, A(m.ir.y), p.v)

JmpOp(m) == LET e == Ea(m, m.ir.mode, m.ir.y, "l") IN Jump(e.m, e.v)

JsrOp(m) ==
    LET e == Ea(m, m.ir.mode, m.ir.y, "l") IN Jump(Push(e.m, "l", e.m.pc), e.v)

RtsOp(m) == LET p == Pull(m, "l") IN Jump(p.m, p.v)

RtrOp(m) ==
    LET k == Pull(m, "w")
        p == Pull([k.m EXCEPT !.f = Ccr(k.v)], "l")
    IN Jump(p.m, p.v)

(* Branches. A displacement in a byte of the opcode, ir.n, or in a word    *)
(* after it counts from the address after the opcode. The 32 bit forms of  *)
(* the 68020 are 8 bit branches with the byte 0xff.                        *)
BranchWord(m) == Branch(m, MakeInt(ReadImm16(m).v, "w"))

BranchByte(m) == Branch(m, MakeInt(m.ir.n, "b"))

SkipWord(m) == [m EXCEPT !.pc = @ + 2]

BraOp(m) == IF m.ir.sz = "w" THEN BranchWord(m) ELSE BranchByte(m)

(* bsr pushes the address after the displacement.                          *)
BsrOp(m) ==
    IF m.ir.sz = "w" THEN Branch(Push(m, "l", m.pc + 2), MakeInt(ReadImm16(m).v, "w"))
                     ELSE BranchByte(Push(m, "l", m.pc))

BccOp(m) ==
    IF Cond(m.f, m.ir.cc) THEN BraOp(m) ELSE IF m.ir.sz = "w" THEN SkipWord(m) ELSE m

(* dbcc counts in the low word of a register down to -1. dbt and dbf are   *)
(* the handlers of the conditions that are always and never true.          *)
DbtOp(m) == SkipWord(m)

DbfOp(m) ==
    LET res == Mask(m.r[m.ir.y] - 1, "w")
        counted == SetD(m, m.ir.y, "w", res)
    IN IF res # Limit("w") - 1 THEN BranchWord(counted) ELSE SkipWord(counted)

DbccOp(m) == IF Cond(m.f, m.ir.cc) THEN SkipWord(m) ELSE DbfOp(m)

-----------------------------------------------------------------------------
(* Multiplication and division of words, and the traps of the user.        *)
MulOp(m, F(_, _, _, _)) ==
    LET o == Operand(m, m.ir.mode, m.ir.y, "w")
    IN ResultToR(o.m, m.ir.x, F(Half("w"), o.v, Mask(o.m.r[m.ir.x], "w"), m.f))

MuluOp(m) == MulOp(m, Mulu)
MulsOp(m) == MulOp(m, Muls)

DivOp(m, F(_, _, _, _)) ==
    LET o == Operand(m, m.ir.mode, m.ir.y, "w")
    IN IF o.v = 0 THEN ExceptionTrap(o.m, Vector.zero_divide)
                  ELSE ResultToR(o.m, m.ir.x, F(Half("w"), o.v, o.m.r[m.ir.x], m.f))

DivuOp(m) == DivOp(m, Divu)
DivsOp(m) == DivOp(m, Divs)

Checked(m, q) ==
    IF q.out THEN ExceptionTrap(WithFlagsOf(m, q), Vector.chk) ELSE WithFlagsOf(m, q)

ChkOp(m) ==
    LET o == Operand(m, m.ir.mode, m.ir.y, "w")
    IN Checked(o.m, Chk(Half("w"), Mask(m.r[m.ir.x], "w"), o.v, m.f))

TrapOp(m)  == ExceptionTrap(m, Vector.trap + m.ir.n)
TrapvOp(m) == IF m.f.v THEN ExceptionTrap(m, Vector.trapv) ELSE m

-----------------------------------------------------------------------------
(* The status register and the other mode's stack pointer. On the 68000    *)
(* move from sr is open to the user.                                       *)
MoveTocOp(m) ==
    LET o == Operand(m, m.ir.mode, m.ir.y, "w") IN [o.m EXCEPT !.f = Ccr(o.v)]

MoveFrsOp(m) == Store(m, m.ir.mode, m.ir.y, "w", GetSr(m))

MoveTosOp(m) ==
    IF m.s THEN LET o == Operand(m, m.ir.mode, m.ir.y, "w") IN SetSr(o.m, o.v)
           ELSE ExceptionPrivilege(m)

MoveFruOp(m) == IF m.s THEN SetR(m, A(m.ir.y), m.bank) ELSE ExceptionPrivilege(m)

MoveTouOpUnguarded(m) == [m EXCEPT !.bank = m.r[A(m.ir.y)]]

MoveTouOp(m) == IF m.s THEN [m EXCEPT !.bank = m.r[A(m.ir.y)]] ELSE ExceptionPrivilege(m)

(* rte drops to the user's stack after it has pulled both words.           *)
RteOpStackFirst(m) ==
    IF m.s THEN LET k == Pull(m, "w")
                    p == Pull(SetSr(k.m, k.v), "l")
                IN Jump(p.m, p.v)
           ELSE ExceptionPrivilege(m)

RteOp(m) ==
    IF m.s THEN LET k == Pull(m, "w")
                    p == Pull(k.m, "l")
                IN SetSr(Jump(p.m, p.v), k.v)
           ELSE ExceptionPrivilege(m)

(* stop: an interrupt that is already due starts the cpu again.            *)
StopOp(m) ==
    IF m.s THEN LET w == ReadImm16(m) IN SetSr([w.m EXCEPT !.stopped = TRUE], w.v)
           ELSE ExceptionPrivilege(m)

(* The machine has nothing on its reset line.                              *)
ResetOp(m) == IF m.s THEN m ELSE ExceptionPrivilege(m)

NopOp(m) == m

IllegalOp(m) == ExceptionIllegal(m)

-----------------------------------------------------------------------------
(* Instructions of later processors. m68kconf.h 67-71 leaves these out, so *)
(* that CPU_TYPE_IS_010_PLUS and its likes are the constant 0 (m68kcpu.h   *)
(* 406-456): what a handler would do under such a condition is never done, *)
(* and what is left of it, before any operand is fetched, is one of the    *)
(* two exceptions.                                                         *)
BfchgOp(m)  == ExceptionIllegal(m)
BfclrOp(m)  == ExceptionIllegal(m)
BfextsOp(m) == ExceptionIllegal(m)
BfextuOp(m) == ExceptionIllegal(m)
BfffoOp(m)  == ExceptionIllegal(m)
BfinsOp(m)  == ExceptionIllegal(m)
BfsetOp(m)  == ExceptionIllegal(m)
BftstOp(m)  == ExceptionIllegal(m)
BkptOp(m)   == ExceptionIllegal(m)
CallmOp(m)  == ExceptionIllegal(m)
CasOp(m)    == ExceptionIllegal(m)
Cas2Op(m)   == ExceptionIllegal(m)
Chk32Op(m)  == ExceptionIllegal(m)
Chk2cmp2Op(m) == ExceptionIllegal(m)
DivlOp(m)   == ExceptionIllegal(m)
ExtbOp(m)   == ExceptionIllegal(m)
Link32Op(m) == ExceptionIllegal(m)
MoveFrcOp(m) == ExceptionIllegal(m)
MovecCrOp(m) == ExceptionIllegal(m)
MovecRcOp(m) == ExceptionIllegal(m)
MovesOp(m)  == ExceptionIllegal(m)
MullOp(m)   == ExceptionIllegal(m)
PackOp(m)   == ExceptionIllegal(m)
RtdOp(m)    == ExceptionIllegal(m)
RtmOp(m)    == ExceptionIllegal(m)
TraptOp(m)  == ExceptionIllegal(m)
TrapfOp(m)  == ExceptionIllegal(m)
TrapccOp(m) == ExceptionIllegal(m)
UnpkOp(m)   == ExceptionIllegal(m)
CpOp(m)     == Exception1111(m)
Fpu040Op(m) == Exception1111(m)
PmmuOp(m)   == Exception1111(m)
=============================================================================
