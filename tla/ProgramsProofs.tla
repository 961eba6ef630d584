--------------------------- MODULE ProgramsProofs ---------------------------
(***************************************************************************)
(* What holds of every program of the guest, whatever its code.            *)
(***************************************************************************)
EXTENDS Programs, TLAPS

IsMachine(n) ==
    n = [r |-> n.r, bank |-> n.bank, pc |-> n.pc, ppc |-> n.ppc, f |-> n.f, s |-> n.s,
         mask |-> n.mask, level |-> n.level, stopped |-> n.stopped, mem |-> n.mem, ir |-> n.ir]

(* n is b but for what the user may change.                                *)
Kept(b, n) ==
    /\ IsMachine(n)
    /\ n.s = b.s /\ n.mask = b.mask /\ n.bank = b.bank /\ n.stopped = b.stopped
    /\ n.ir = b.ir

(* n has just taken an exception.                                          *)
Trapped(n) ==
    /\ IsMachine(n)
    /\ n.s = TRUE
    /\ \E v \in DOMAIN VectorTable : n.pc = VectorTable[v]

OperandSizes == {"b", "w", "l"}

LEMMA LimitIsPositive ==
    /\ \A sz \in OperandSizes : Limit(sz) \in Nat \ {0}
    /\ Limit("w") = Limit("b") * Limit("b") /\ Limit("l") = Limit("w") * Limit("w")
<1> DEFINE L == ByteLimit
<1>1. L \in Nat /\ L > 0
    BY AddressingAssumption
<1> HIDE DEF L
<1>2. L * L \in Nat /\ L * L > 0
    BY <1>1
<1>3. (L * L) * (L * L) \in Nat /\ (L * L) * (L * L) > 0
    BY <1>2
<1> QED
    BY <1>1, <1>2, <1>3 DEF Limit, OperandSizes, L

LEMMA SetDKept ==
    ASSUME NEW b, NEW n, Kept(b, n)
    PROVE  \A k, sz, v : Kept(b, SetD(n, k, sz, v))
    BY DEF SetD, Kept, IsMachine

LEMMA SetRKept ==
    ASSUME NEW b, NEW n, Kept(b, n)
    PROVE  \A k, v : Kept(b, SetR(n, k, v))
    BY DEF SetR, Kept, IsMachine

LEMMA FlagsKept ==
    ASSUME NEW b, NEW n, Kept(b, n)
    PROVE  /\ \A f : Kept(b, [n EXCEPT !.f = f])
           /\ \A z : Kept(b, [n EXCEPT !.f.z = z])
           /\ \A q : Kept(b, WithFlagsOf(n, q))
    BY DEF WithFlagsOf, Kept, IsMachine

LEMMA Write8Kept ==
    ASSUME NEW b, NEW n, Kept(b, n)
    PROVE  \A ea, v : Kept(b, Write8(n, ea, v))
    BY DEF Write8, Kept, IsMachine

LEMMA WriteKept ==
    ASSUME NEW b, NEW n, Kept(b, n)
    PROVE  /\ \A ea, v : Kept(b, Write16(n, ea, v)) /\ Kept(b, Write32(n, ea, v))
                         /\ Kept(b, Write32Pd(n, ea, v))
           /\ \A ea, v : \A sz \in OperandSizes : Kept(b, Write(n, ea, sz, v))
<1>1. \A k : Kept(b, k) => \A ea, v : Kept(b, Write16(k, ea, v))
    BY Write8Kept DEF Write16
<1>2. \A ea, v : Kept(b, Write32(n, ea, v)) /\ Kept(b, Write32Pd(n, ea, v))
    BY <1>1 DEF Write32, Write32Pd
<1> QED
    BY <1>1, <1>2, Write8Kept DEF Write, OperandSizes

LEMMA ReadImmKept ==
    ASSUME NEW b, NEW n, Kept(b, n)
    PROVE  /\ Kept(b, ReadImm16(n).m)
           /\ Kept(b, ReadImm32(n).m)
           /\ \A sz \in OperandSizes : Kept(b, ReadImm(n, sz).m)
<1>1. \A k : Kept(b, k) => Kept(b, ReadImm16(k).m)
    BY DEF ReadImm16, Kept, IsMachine
<1>2. Kept(b, ReadImm32(n).m)
    BY <1>1 DEF ReadImm32, Joined
<1> QED
    BY <1>1, <1>2 DEF ReadImm, OperandSizes

LEMMA EaKept ==
    ASSUME NEW b, NEW n, Kept(b, n)
    PROVE  /\ \A k, sz : \A mode \in MemoryModes : Kept(b, Ea(n, mode, k, sz).m)
           /\ \A base : Kept(b, EaDi(n, base).m)
<1>1. \A k, sz : Kept(b, EaPi(n, k, sz).m) /\ Kept(b, EaPd(n, k, sz).m)
    BY SetRKept DEF EaPi, EaPd
<1>2. \A base : Kept(b, EaDi(n, base).m) /\ Kept(b, EaIx(n, base).m)
    BY ReadImmKept DEF EaDi, EaIx, Displaced, Indexed
<1> QED
    BY <1>1, <1>2, ReadImmKept, ZenonT(60) DEF Ea, MemoryModes

LEMMA OperandKept ==
    ASSUME NEW b, NEW n, Kept(b, n)
    PROVE  \A k : \A sz \in OperandSizes, mode \in MemoryModes \cup {"d", "a", "i"} :
              Kept(b, Operand(n, mode, k, sz).m)
<1> SUFFICES ASSUME NEW k, NEW sz \in OperandSizes, NEW mode \in MemoryModes \cup {"d", "a", "i"}
             PROVE  Kept(b, Operand(n, mode, k, sz).m)
    OBVIOUS
<1>1. CASE mode \in {"d", "a", "i"}
    BY <1>1, ReadImmKept DEF Operand
<1>2. CASE mode \in MemoryModes
  <2>1. mode \notin {"d", "a", "i"}
      BY <1>2 DEF MemoryModes
  <2>2. Operand(n, mode, k, sz) = At(Ea(n, mode, k, sz), sz)
      BY <2>1 DEF Operand
  <2> QED
      BY <1>2, <2>2, EaKept DEF At
<1> QED
    BY <1>1, <1>2

LEMMA StackKept ==
    ASSUME NEW b, NEW n, Kept(b, n)
    PROVE  /\ \A v : \A sz \in OperandSizes : Kept(b, Push(n, sz, v))
           /\ \A sz : Kept(b, Pull(n, sz).m)
           /\ \A pc : Kept(b, Jump(n, pc))
           /\ \A offset : Kept(b, Branch(n, offset))
<1>1. \A v : \A sz \in OperandSizes : Kept(b, Push(n, sz, v))
    BY SetRKept, WriteKept DEF Push
<1>2. \A sz : Kept(b, Pull(n, sz).m)
    BY SetRKept DEF Pull
<1>3. \A pc : Kept(b, Jump(n, pc))
    BY DEF Jump, Kept, IsMachine
<1> QED
    BY <1>1, <1>2, <1>3 DEF Branch

(* An exception is taken by a vector.                                      *)
LEMMA ExceptionTraps ==
    ASSUME NEW n, IsMachine(n), NEW pc, NEW v \in 0..255
    PROVE  Trapped(Exception(n, pc, v))
<1> DEFINE super  == SetSFlag(n, TRUE)
           pushed == Push(Push(super, "l", pc), "w", GetSr(n))
<1>1. IsMachine(super) /\ super.s = TRUE
    BY DEF SetSFlag, IsMachine
<1> HIDE DEF super
<1>2. Kept(super, pushed)
  <2>1. Kept(super, super)
      BY <1>1 DEF Kept
  <2>2. Kept(super, Push(super, "l", pc))
      BY <2>1, StackKept DEF OperandSizes
  <2> QED
      BY <2>2, StackKept DEF OperandSizes
<1> HIDE DEF pushed
<1>3. Jump(pushed, VectorTable[v]).pc = VectorTable[v]
  <2>1. Limit("l") \in Nat /\ VectorTable[v] \in 0..(Limit("l") - 1)
      BY VectorAssumption, LimitIsPositive DEF OperandSizes
  <2> QED
      BY <1>2, <2>1 DEF Jump, Mask, Kept, IsMachine
<1>4. Kept(super, Jump(pushed, VectorTable[v]))
    BY <1>2, StackKept
<1>5. v \in DOMAIN VectorTable
    BY VectorAssumption
<1> QED
    BY <1>1, <1>3, <1>4, <1>5 DEF Trapped, Kept, Exception, super, pushed

-----------------------------------------------------------------------------
(* Results.                                                                *)
LEMMA ResultKept ==
    ASSUME NEW b, NEW n, Kept(b, n)
    PROVE  /\ \A k, sz, q : Kept(b, ResultToD(n, k, sz, q))
           /\ \A ea, q : \A sz \in OperandSizes : Kept(b, ResultToEa(n, ea, sz, q))
           /\ \A k, q : Kept(b, ResultToR(n, k, q))
<1>1. \A q : Kept(b, WithFlagsOf(n, q))
    BY FlagsKept
<1> QED
    BY <1>1, SetDKept, SetRKept, WriteKept DEF ResultToD, ResultToEa, ResultToR

(* An instruction that is about to be executed.                            *)
Ready(t) == IsMachine(t) /\ Encoded(t.ir)

LEMMA ReadyKept ==
    ASSUME NEW t, Ready(t)
    PROVE  /\ Kept(t, t) /\ t.ir.sz \in OperandSizes
           /\ \A n : Kept(t, n) => Ready(n) /\ n.ir = t.ir
           /\ Kept(t, Source(t).m)
           /\ Kept(t, ReadImm(t, t.ir.sz).m)
<1>1. Kept(t, t) /\ t.ir.sz \in OperandSizes
    BY DEF Ready, Kept, Encoded, OperandSizes
<1> QED
    BY <1>1, OperandKept, ReadImmKept DEF Ready, Kept, Encoded, Source

(* The operand of an instruction that changes it, in a register or not.    *)
LEMMA AlteredKept ==
    ASSUME NEW b, NEW n, Kept(b, n), NEW mode \in MemoryModes \cup {"d"}
    PROVE  /\ mode = "d" => \A k, sz, q : Kept(b, ResultToD(n, k, sz, q))
           /\ mode # "d" =>
                 \A k, q : \A sz \in OperandSizes :
                    Kept(b, ResultToEa(Ea(n, mode, k, sz).m, Ea(n, mode, k, sz).v, sz, q))
    BY EaKept, ResultKept

(* The source of an instruction and the words after its opcode.            *)
LEMMA FetchedKept ==
    ASSUME NEW t, Ready(t)
    PROVE  /\ Kept(t, t) /\ t.ir.sz \in OperandSizes
           /\ Kept(t, Source(t).m) /\ Source(t).m.ir = t.ir
           /\ Kept(t, ReadImm(t, t.ir.sz).m) /\ ReadImm(t, t.ir.sz).m.ir = t.ir
    BY ReadyKept DEF Kept

Alterable(t) == t.ir.mode \in MemoryModes \cup {"d"}

(* The handlers, by the form of their operands.                            *)
LEMMA EaToDxKept ==
    ASSUME NEW t, Ready(t)
    PROVE  /\ Kept(t, AddErOp(t)) /\ Kept(t, SubErOp(t))
           /\ Kept(t, AndErOp(t)) /\ Kept(t, OrErOp(t))
<1> USE FetchedKept, ResultKept DEF EaToDx, OntoDx
<1>1. Kept(t, AddErOp(t))
    BY DEF AddErOp
<1>2. Kept(t, SubErOp(t))
    BY DEF SubErOp
<1>3. Kept(t, AndErOp(t))
    BY DEF AndErOp
<1>4. Kept(t, OrErOp(t))
    BY DEF OrErOp
<1> QED
    BY <1>1, <1>2, <1>3, <1>4

LEMMA DxToEaKept ==
    ASSUME NEW t, Ready(t), Alterable(t)
    PROVE  /\ Kept(t, AddReOp(t)) /\ Kept(t, SubReOp(t)) /\ Kept(t, AndReOp(t))
           /\ Kept(t, OrReOp(t)) /\ Kept(t, EorOp(t))
<1>a. Kept(t, t) /\ t.ir.sz \in OperandSizes
    BY FetchedKept
<1> USE <1>a, AlteredKept DEF Alterable, DxToEa, IntoEa, Modify, ModifyAt
<1>1. Kept(t, AddReOp(t))
    BY DEF AddReOp
<1>2. Kept(t, SubReOp(t))
    BY DEF SubReOp
<1>3. Kept(t, AndReOp(t))
    BY DEF AndReOp
<1>4. Kept(t, OrReOp(t))
    BY DEF OrReOp
<1>5. Kept(t, EorOp(t))
    BY DEF EorOp
<1> QED
    BY <1>1, <1>2, <1>3, <1>4, <1>5

LEMMA ImmToEaKept ==
    ASSUME NEW t, Ready(t), Alterable(t)
    PROVE  /\ Kept(t, AddiOp(t)) /\ Kept(t, SubiOp(t)) /\ Kept(t, AndiOp(t))
           /\ Kept(t, OriOp(t)) /\ Kept(t, EoriOp(t))
<1> DEFINE imm == ReadImm(t, t.ir.sz).m
<1>a. Kept(t, imm) /\ imm.ir = t.ir /\ t.ir.sz \in OperandSizes
    BY FetchedKept
<1> USE <1>a, AlteredKept DEF Alterable, ImmToEa, IntoEa, Modify, ModifyAt
<1>1. Kept(t, AddiOp(t))
    BY DEF AddiOp
<1>2. Kept(t, SubiOp(t))
    BY DEF SubiOp
<1>3. Kept(t, AndiOp(t))
    BY DEF AndiOp
<1>4. Kept(t, OriOp(t))
    BY DEF OriOp
<1>5. Kept(t, EoriOp(t))
    BY DEF EoriOp
<1> QED
    BY <1>1, <1>2, <1>3, <1>4, <1>5

LEMMA ExtendKept ==
    ASSUME NEW t, Ready(t), Alterable(t)
    PROVE  /\ Kept(t, AddxOp(t)) /\ Kept(t, SubxOp(t))
           /\ Kept(t, AbcdOp(t)) /\ Kept(t, SbcdOp(t))
<1>a. Kept(t, Source(t).m) /\ t.ir.sz \in OperandSizes
    BY FetchedKept
<1> USE <1>a, AlteredKept DEF Alterable, Extend, Modify, ModifyAt
<1>1. Kept(t, AddxOp(t))
    BY DEF AddxOp
<1>2. Kept(t, SubxOp(t))
    BY DEF SubxOp
<1>3. Kept(t, AbcdOp(t))
    BY DEF AbcdOp
<1>4. Kept(t, SbcdOp(t))
    BY DEF SbcdOp
<1> QED
    BY <1>1, <1>2, <1>3, <1>4

LEMMA ModifyKept ==
    ASSUME NEW t, Ready(t), Alterable(t)
    PROVE  /\ Kept(t, NegOp(t)) /\ Kept(t, NegxOp(t)) /\ Kept(t, NotOp(t))
           /\ Kept(t, TasOp(t)) /\ Kept(t, NbcdOp(t))
<1>a. Kept(t, t) /\ t.ir.sz \in OperandSizes /\ "b" \in OperandSizes
    BY FetchedKept DEF OperandSizes
<1> USE <1>a, AlteredKept DEF Alterable, Modify, ModifyAt
<1>1. Kept(t, NegOp(t))
    BY DEF NegOp
<1>2. Kept(t, NegxOp(t))
    BY DEF NegxOp
<1>3. Kept(t, NotOp(t))
    BY DEF NotOp
<1>4. Kept(t, TasOp(t))
    BY DEF TasOp
<1>5. Kept(t, NbcdOp(t))
    BY FetchedKept, FlagsKept DEF NbcdOp
<1> QED
    BY <1>1, <1>2, <1>3, <1>4, <1>5

LEMMA QuickKept ==
    ASSUME NEW t, Ready(t), Alterable(t) \/ t.ir.mode = "a"
    PROVE  Kept(t, AddqOp(t)) /\ Kept(t, SubqOp(t))
<1>a. Kept(t, t) /\ t.ir.sz \in OperandSizes
    BY FetchedKept
<1>1. CASE t.ir.mode = "a"
    BY <1>a, <1>1, SetRKept DEF AddqOp, SubqOp, Quick
<1>2. CASE Alterable(t) /\ t.ir.mode # "a"
  <2> USE <1>a, <1>2, AlteredKept DEF Alterable, Quick, IntoEa, Modify, ModifyAt
  <2>1. Kept(t, AddqOp(t))
      BY DEF AddqOp
  <2>2. Kept(t, SubqOp(t))
      BY DEF SubqOp
  <2> QED
      BY <2>1, <2>2
<1> QED
    BY <1>1, <1>2

LEMMA IntoAxKept ==
    ASSUME NEW t, Ready(t)
    PROVE  Kept(t, AddaOp(t)) /\ Kept(t, SubaOp(t)) /\ Kept(t, MoveaOp(t))
    BY FetchedKept, SetRKept DEF AddaOp, SubaOp, IntoAx, OntoAx, MoveaOp

LEMMA BitsKept ==
    ASSUME NEW t, Ready(t), Alterable(t)
    PROVE  Kept(t, BchgOp(t)) /\ Kept(t, BclrOp(t)) /\ Kept(t, BsetOp(t)) /\ Kept(t, ShiftOp(t))
<1>a. Kept(t, t) /\ {t.ir.sz, "b", "w", "l"} \subseteq OperandSizes
    BY FetchedKept DEF OperandSizes
<1>b. Kept(t, BitNumber(t).m)
    BY <1>a, ReadImmKept DEF BitNumber
<1> DEFINE n == BitNumber(t).m
<1>d. t.ir.mode = "d" => \A k, sz, q : Kept(t, ResultToD(n, k, sz, q))
    BY <1>b, AlteredKept DEF Alterable
<1>m. t.ir.mode # "d" =>
          \A k, q : LET e == Ea(n, t.ir.mode, k, "b")
                    IN Kept(t, ResultToEa(e.m, e.v, "b", q))
    BY <1>a, <1>b, AlteredKept, SMTT(40) DEF Alterable
<1> HIDE DEF n
<1>1. Kept(t, BchgOp(t))
    BY <1>d, <1>m, SMTT(40) DEF BchgOp, ChangeBit, Modify, ModifyAt, n
<1>2. Kept(t, BclrOp(t))
    BY <1>d, <1>m, SMTT(40) DEF BclrOp, ChangeBit, Modify, ModifyAt, n
<1>3. Kept(t, BsetOp(t))
    BY <1>d, <1>m, SMTT(40) DEF BsetOp, ChangeBit, Modify, ModifyAt, n
<1>4. Kept(t, ShiftOp(t))
    BY <1>a, AlteredKept DEF Alterable, ShiftOp, Modify, ModifyAt
<1> QED
    BY <1>1, <1>2, <1>3, <1>4

LEMMA CompareKept ==
    ASSUME NEW t, Ready(t)
    PROVE  /\ Kept(t, CmpOp(t)) /\ Kept(t, CmpaOp(t)) /\ Kept(t, CmpmOp(t))
           /\ Kept(t, BtstOp(t))
<1>1. \A n, sz, s, d : Kept(t, n) => Kept(t, Compared(n, sz, s, d))
    BY FlagsKept DEF Compared
<1>2. Kept(t, CmpOp(t)) /\ Kept(t, CmpaOp(t))
    BY <1>1, FetchedKept DEF CmpOp, CmpaOp
<1>3. Kept(t, CmpmOp(t))
  <2>1. "pi" \in MemoryModes \cup {"d", "a", "i"}
      BY DEF MemoryModes
  <2>2. Kept(t, Operand(t, "pi", t.ir.y, t.ir.sz).m)
      BY <2>1, FetchedKept, OperandKept
  <2>3. Kept(t, Operand(Operand(t, "pi", t.ir.y, t.ir.sz).m, "pi", t.ir.x, t.ir.sz).m)
      BY <2>1, <2>2, FetchedKept, OperandKept
  <2> QED
      BY <1>1, <2>3 DEF CmpmOp
<1>4. Kept(t, BtstOp(t))
  <2> DEFINE sz == IF t.ir.mode = "d" THEN "l" ELSE "b"
  <2>1. sz \in OperandSizes /\ "b" \in OperandSizes
      BY DEF OperandSizes
  <2> HIDE DEF sz
  <2>2. Kept(t, BitNumber(t).m)
      BY <2>1, FetchedKept, ReadImmKept DEF BitNumber
  <2>3. Kept(t, Operand(BitNumber(t).m, t.ir.mode, t.ir.y, sz).m)
      BY <2>1, <2>2, OperandKept DEF Ready, Encoded
  <2> QED
      BY <2>3, FlagsKept DEF BtstOp, sz
<1> QED
    BY <1>2, <1>3, <1>4

(* What an instruction does that may take an exception.                    *)
Does(t, n) == Kept(t, n) \/ Trapped(n)

LEMMA RefusedTraps ==
    ASSUME NEW t, IsMachine(t)
    PROVE  /\ Trapped(ExceptionPrivilege(t)) /\ Trapped(ExceptionIllegal(t))
           /\ Trapped(Exception1010(t)) /\ Trapped(Exception1111(t))
           /\ \A v \in 0..255 : Trapped(ExceptionTrap(t, v))
<1>1. {Vector.privilege, Vector.illegal, Vector.line1010, Vector.line1111} \subseteq 0..255
    BY DEF Vector
<1> QED
    BY <1>1, ExceptionTraps, SMTT(40) DEF ExceptionPrivilege, ExceptionIllegal, Exception1010,
                                Exception1111, ExceptionTrap

LEMMA CompareDoes ==
    ASSUME NEW t, Ready(t)
    PROVE  Does(t, CmpiOp(t)) /\ Does(t, TstOp(t))
<1>1. Does(t, CmpiOp(t))
  <2> DEFINE imm == ReadImm(t, t.ir.sz)
  <2>1. Kept(t, imm.m) /\ Ready(imm.m) /\ imm.m.ir = t.ir
      BY ReadyKept
  <2>2. Kept(t, Source(imm.m).m)
      BY <2>1, OperandKept, FetchedKept DEF Source, Ready, Encoded
  <2>3. \A n, sz, s, d : Kept(t, n) => Kept(t, Compared(n, sz, s, d))
      BY FlagsKept DEF Compared
  <2> QED
      BY <2>2, <2>3, RefusedTraps DEF CmpiOp, Does, Ready
<1>2. Does(t, TstOp(t))
    BY FetchedKept, FlagsKept, RefusedTraps DEF TstOp, Does, Ready
<1> QED
    BY <1>1, <1>2

-----------------------------------------------------------------------------
(* Moves.                                                                  *)
LEMMA StoreKept ==
    ASSUME NEW b, NEW n, Kept(b, n), NEW mode \in MemoryModes \cup {"d"}
    PROVE  \A k, v : \A sz \in OperandSizes : Kept(b, Store(n, mode, k, sz, v))
    BY EaKept, SetDKept, WriteKept DEF Store, StoreAt

LEMMA MovesKept ==
    ASSUME NEW t, Ready(t)
    PROVE  /\ Kept(t, Move8Op(t)) /\ Kept(t, Move16Op(t)) /\ Kept(t, Move32Op(t))
           /\ Kept(t, MoveTocOp(t))
<1>1. \A sz \in OperandSizes : Kept(t, Operand(t, t.ir.mode, t.ir.y, sz).m)
    BY FetchedKept, OperandKept DEF Ready, Encoded
<1>2. \A n : Kept(t, n) =>
        \A q : \A sz \in OperandSizes : Kept(t, StoreResult(n, sz, q))
  <2> SUFFICES ASSUME NEW n, Kept(t, n), NEW q, NEW sz \in OperandSizes
               PROVE  Kept(t, StoreResult(n, sz, q))
      OBVIOUS
  <2>1. Kept(t, WithFlagsOf(n, q)) /\ n.ir.xmode \in MemoryModes \cup {"d"}
      BY FlagsKept DEF Kept, Ready, Encoded
  <2> QED
      BY <2>1, StoreKept DEF StoreResult
<1>3. \A sz \in OperandSizes : Kept(t, Moved(t, sz))
    BY <1>1, <1>2 DEF Moved
<1> QED
    BY <1>1, <1>3, FlagsKept DEF Move8Op, Move16Op, Move32Op, MoveTocOp, OperandSizes

LEMMA StoresKept ==
    ASSUME NEW t, Ready(t), Alterable(t)
    PROVE  Kept(t, ClrOp(t)) /\ Kept(t, SccOp(t)) /\ Kept(t, MoveFrsOp(t))
<1>1. Kept(t, t) /\ {t.ir.sz, "b", "w"} \subseteq OperandSizes
    BY FetchedKept DEF OperandSizes
<1>2. Kept(t, ClrOp(t))
  <2> DEFINE e == Ea(t, t.ir.mode, t.ir.y, t.ir.sz)
  <2>1. CASE t.ir.mode = "d"
      BY <1>1, <2>1, SetDKept, FlagsKept DEF ClrOp
  <2>2. CASE t.ir.mode # "d"
    <3>1. Kept(t, e.m)
        BY <1>1, <2>2, EaKept DEF Alterable
    <3>2. Kept(t, Write(e.m, e.v, t.ir.sz, 0))
        BY <1>1, <3>1, WriteKept
    <3> QED
        BY <2>2, <3>2, FlagsKept DEF ClrOp
  <2> QED
      BY <2>1, <2>2
<1> QED
    BY <1>1, <1>2, StoreKept DEF SccOp, MoveFrsOp, Alterable

LEMMA RegistersKept ==
    ASSUME NEW t, Ready(t)
    PROVE  /\ Kept(t, MoveqOp(t)) /\ Kept(t, ExtOp(t)) /\ Kept(t, SwapOp(t))
           /\ Kept(t, ExgOp(t))
<1>1. Kept(t, t)
    BY FetchedKept
<1>2. Kept(t, MoveqOp(t))
    BY <1>1, FlagsKept, SetRKept DEF MoveqOp
<1>3. Kept(t, ExtOp(t)) /\ Kept(t, SwapOp(t))
    BY <1>1, ResultKept DEF ExtOp, SwapOp, Modify
<1>4. Kept(t, ExgOp(t))
  <2>1. \A n, p, u : Kept(t, n) => Kept(t, [n EXCEPT !.r[p] = u])
      BY DEF Kept, IsMachine
  <2>2. \A p, q, u, v : [t EXCEPT !.r[p] = u, !.r[q] = v] = [[t EXCEPT !.r[p] = u] EXCEPT !.r[q] = v]
      OBVIOUS
  <2> QED
      BY <1>1, <2>1, <2>2 DEF ExgOp
<1> QED
    BY <1>2, <1>3, <1>4

(* Several registers: every turn of the loop, and so all sixteen.          *)
LEMMA MovemKept ==
    ASSUME NEW t, Ready(t)
    PROVE  /\ Kept(t, MovemRePd(t)) /\ Kept(t, MovemErPi(t))
           /\ t.ir.mode \in MemoryModes => Kept(t, MovemReOp(t)) /\ Kept(t, MovemErOp(t))
<1> DEFINE list  == ReadImm16(t)
           first == [v |-> t.r[A(t.ir.y)], m |-> list.m]
           ea    == Ea(list.m, t.ir.mode, t.ir.y, t.ir.sz)
<1>1. Kept(t, first.m) /\ t.ir.sz \in OperandSizes
    BY FetchedKept, ReadImmKept
<1>2. t.ir.mode \in MemoryModes => Kept(t, ea.m)
    BY <1>1, EaKept
<1>3. \A u, i : Kept(t, u.m) => Kept(t, StoreDown(t, list.v, u, i).m)
    BY WriteKept DEF StoreDown
<1>4. \A u, i : Kept(t, u.m) => Kept(t, StoreUp(t, list.v, u, i).m)
    BY <1>1, WriteKept DEF StoreUp
<1>5. \A u, i : Kept(t, u.m) => Kept(t, LoadUp(t.ir.sz, list.v, u, i).m)
    BY SetRKept DEF LoadUp
<1> HIDE DEF list, first, ea
<1>6. Kept(t, MovemRePd(t))
    BY <1>1, <1>3, SetRKept DEF MovemRePd, Turns16, Turns4, list, first
<1>7. Kept(t, MovemErPi(t))
    BY <1>1, <1>5, SetRKept DEF MovemErPi, Turns16, Turns4, list, first
<1>8. t.ir.mode \in MemoryModes => Kept(t, MovemReOp(t))
    BY <1>2, <1>4 DEF MovemReOp, Turns16, Turns4, list, ea
<1>9. t.ir.mode \in MemoryModes => Kept(t, MovemErOp(t))
    BY <1>2, <1>5 DEF MovemErOp, Turns16, Turns4, list, ea
<1> QED
    BY <1>6, <1>7, <1>8, <1>9

LEMMA BlockKept ==
    ASSUME NEW t, Ready(t)
    PROVE  Kept(t, MovepReOp(t)) /\ Kept(t, MovepErOp(t)) /\ Kept(t, Move16LineOp(t))
<1>1. Kept(t, EaDi(t, t.r[A(t.ir.y)]).m) /\ Kept(t, ReadImm16(t).m)
    BY FetchedKept, EaKept, ReadImmKept
<1>2. Kept(t, MovepReOp(t))
    BY <1>1, Write8Kept DEF MovepReOp
<1>3. Kept(t, MovepErOp(t))
    BY <1>1, SetDKept, SMTT(40) DEF MovepErOp
<1>4. Kept(t, Move16LineOp(t))
  <2> DEFINE w       == ReadImm16(t)
             ax      == A(t.ir.y)
             ay      == A(w.v)
             Copy(n, k) == Write32(n, n.r[ay] + k, Read(n, n.r[ax] + k, "l"))
             copied  == Copy(Copy(Copy(Copy(w.m, 0), 4), 8), 12)
             first   == SetR(copied, ax, copied.r[ax] + 16)
  <2>1. \A n, k : Kept(t, n) => Kept(t, Copy(n, k))
      BY WriteKept
  <2> HIDE DEF Copy
  <2>2. Kept(t, copied)
      BY <1>1, <2>1
  <2> HIDE DEF copied
  <2>3. Kept(t, SetR(first, ay, first.r[ay] + 16))
      BY <2>2, SetRKept
  <2> QED
      BY <2>3, ZenonT(60) DEF Move16LineOp, copied, Copy
<1> QED
    BY <1>2, <1>3, <1>4

-----------------------------------------------------------------------------
(* The stack, branches, products.                                          *)
LEMMA AddressKept ==
    ASSUME NEW t, Ready(t), t.ir.mode \in MemoryModes
    PROVE  /\ Kept(t, PeaOp(t)) /\ Kept(t, JmpOp(t)) /\ Kept(t, JsrOp(t)) /\ Kept(t, LeaOp(t))
<1>1. Kept(t, Ea(t, t.ir.mode, t.ir.y, "l").m) /\ "l" \in OperandSizes
    BY FetchedKept, EaKept DEF OperandSizes
<1> QED
    BY <1>1, SetRKept, StackKept DEF LeaOp, PeaOp, JmpOp, JsrOp

LEMMA LinkKept ==
    ASSUME NEW t, Ready(t)
    PROVE  /\ Kept(t, LinkOp(t)) /\ Kept(t, LinkA7(t))
           /\ Kept(t, UnlkOp(t)) /\ Kept(t, UnlkA7(t))
<1>1. Kept(t, t) /\ "l" \in OperandSizes
    BY FetchedKept, SMTT(40) DEF OperandSizes
<1>2. Kept(t, LinkOp(t))
    BY <1>1, SetRKept, StackKept, ReadImmKept DEF LinkOp
<1>3. Kept(t, LinkA7(t))
    BY <1>1, SetRKept, WriteKept, ReadImmKept DEF LinkA7
<1>4. Kept(t, UnlkOp(t))
    BY <1>1, SetRKept, StackKept DEF UnlkOp
<1>5. Kept(t, UnlkA7(t))
    BY <1>1, SetRKept DEF UnlkA7
<1> QED
    BY <1>2, <1>3, <1>4, <1>5

LEMMA ReturnKept ==
    ASSUME NEW t, Ready(t)
    PROVE  Kept(t, RtsOp(t)) /\ Kept(t, RtrOp(t))
<1>1. Kept(t, Pull(t, "l").m) /\ Kept(t, Pull(t, "w").m)
    BY FetchedKept, StackKept
<1>2. Kept(t, RtsOp(t))
    BY <1>1, StackKept DEF RtsOp
<1>3. Kept(t, [Pull(t, "w").m EXCEPT !.f = Ccr(Pull(t, "w").v)])
    BY <1>1, FlagsKept
<1>4. Kept(t, RtrOp(t))
    BY <1>3, StackKept DEF RtrOp
<1> QED
    BY <1>2, <1>4

LEMMA BranchKept ==
    ASSUME NEW t, Ready(t)
    PROVE  /\ Kept(t, BraOp(t)) /\ Kept(t, BsrOp(t)) /\ Kept(t, BccOp(t)) /\ Kept(t, NopOp(t))
           /\ Kept(t, DbtOp(t)) /\ Kept(t, DbfOp(t)) /\ Kept(t, DbccOp(t))
<1>1. Kept(t, t) /\ "l" \in OperandSizes
    BY FetchedKept DEF OperandSizes
<1>2. \A n : Kept(t, n) =>
        Kept(t, BranchWord(n)) /\ Kept(t, BranchByte(n)) /\ Kept(t, SkipWord(n))
  <2>1. \A n : Kept(t, n) => Kept(t, SkipWord(n))
      BY DEF SkipWord, Kept, IsMachine
  <2> QED
      BY <2>1, StackKept DEF BranchWord, BranchByte
<1>3. Kept(t, BraOp(t))
    BY <1>1, <1>2 DEF BraOp
<1>4. Kept(t, BsrOp(t))
    BY <1>1, <1>2, StackKept DEF BsrOp
<1>5. Kept(t, BccOp(t))
    BY <1>1, <1>2, <1>3 DEF BccOp
<1>6. Kept(t, DbtOp(t)) /\ Kept(t, NopOp(t))
    BY <1>1, <1>2 DEF DbtOp, NopOp
<1>7. Kept(t, DbfOp(t))
    BY <1>1, <1>2, SetDKept DEF DbfOp
<1>8. Kept(t, DbccOp(t))
    BY <1>1, <1>2, <1>7 DEF DbccOp
<1> QED
    BY <1>3, <1>4, <1>5, <1>6, <1>7, <1>8

LEMMA ProductDoes ==
    ASSUME NEW t, Ready(t)
    PROVE  /\ Does(t, MuluOp(t)) /\ Does(t, MulsOp(t))
           /\ Does(t, DivuOp(t)) /\ Does(t, DivsOp(t))
<1> DEFINE o == Operand(t, t.ir.mode, t.ir.y, "w")
<1>1. Kept(t, o.m)
    BY FetchedKept, OperandKept DEF OperandSizes, Ready, Encoded
<1>2. \A q : Kept(t, ResultToR(o.m, t.ir.x, q))
    BY <1>1, ResultKept
<1>3. Trapped(ExceptionTrap(o.m, Vector.zero_divide))
    BY <1>1, RefusedTraps DEF Kept, Vector
<1> HIDE DEF o
<1>4. Does(t, MuluOp(t)) /\ Does(t, MulsOp(t))
    BY <1>2 DEF MuluOp, MulsOp, MulOp, Does, o
<1>5. Does(t, DivuOp(t)) /\ Does(t, DivsOp(t))
    BY <1>2, <1>3 DEF DivuOp, DivsOp, DivOp, Does, o
<1> QED
    BY <1>4, <1>5

LEMMA TrapsDoes ==
    ASSUME NEW t, Ready(t)
    PROVE  /\ Does(t, ChkOp(t)) /\ Does(t, TrapvOp(t))
           /\ t.ir.op = "trap" => Does(t, TrapOp(t))
<1>1. Kept(t, t) /\ IsMachine(t)
    BY FetchedKept DEF Ready
<1>2. Does(t, TrapvOp(t))
    BY <1>1, RefusedTraps DEF TrapvOp, Does, Vector
<1>3. t.ir.op = "trap" => Does(t, TrapOp(t))
  <2>1. t.ir.op = "trap" => Vector.trap + t.ir.n \in 0..255
      BY DEF Ready, Encoded, Vector
  <2> QED
      BY <1>1, <2>1, RefusedTraps DEF TrapOp, Does
<1>4. Does(t, ChkOp(t))
  <2> DEFINE o == Operand(t, t.ir.mode, t.ir.y, "w")
  <2>1. Kept(t, o.m)
      BY FetchedKept, OperandKept DEF OperandSizes, Ready, Encoded
  <2>2. \A q : Does(t, Checked(o.m, q))
    <3>1. \A q : Kept(t, WithFlagsOf(o.m, q)) /\ IsMachine(WithFlagsOf(o.m, q))
        BY <2>1, FlagsKept DEF Kept
    <3> QED
        BY <3>1, RefusedTraps DEF Checked, Does, Vector
  <2> QED
      BY <2>2 DEF ChkOp
<1> QED
    BY <1>2, <1>3, <1>4

-----------------------------------------------------------------------------
(* The status register.                                                    *)
LEMMA CcrKept ==
    ASSUME NEW t, Ready(t)
    PROVE  Kept(t, AndiTocOp(t)) /\ Kept(t, OriTocOp(t)) /\ Kept(t, EoriTocOp(t))
<1>1. Kept(t, ReadImm(t, "b").m)
    BY FetchedKept, ReadImmKept DEF OperandSizes
<1> QED
    BY <1>1, FlagsKept DEF AndiTocOp, OriTocOp, EoriTocOp, ToCcr

LEMMA PrivilegedTraps ==
    ASSUME NEW t, Ready(t), ~t.s, t.ir.op \in PrivilegedOps
    PROVE  Trapped(SystemHandler(t))
<1>1. Trapped(ExceptionPrivilege(t))
    BY RefusedTraps DEF Ready
<1> QED
    BY <1>1 DEF SystemHandler, PrivilegedOps, AndiTosOp, OriTosOp, EoriTosOp, ToSr, MoveTosOp,
                MoveFruOp, MoveTouOp, RteOp, StopOp, ResetOp

(* What the supervisor may do to its own machine leaves it a machine.      *)
LEMMA MachineFields ==
    ASSUME NEW n, IsMachine(n)
    PROVE  /\ \A v : IsMachine([n EXCEPT !.f = v])
           /\ \A v : IsMachine([n EXCEPT !.mask = v])
           /\ \A v : IsMachine([n EXCEPT !.level = v])
           /\ \A v : IsMachine([n EXCEPT !.stopped = v])
<1>1. \A v : IsMachine([n EXCEPT !.f = v])
    BY DEF IsMachine
<1>2. \A v : IsMachine([n EXCEPT !.mask = v])
    BY DEF IsMachine
<1>3. \A v : IsMachine([n EXCEPT !.level = v])
    BY DEF IsMachine
<1>4. \A v : IsMachine([n EXCEPT !.stopped = v])
    BY DEF IsMachine
<1> QED
    BY <1>1, <1>2, <1>3, <1>4

LEMMA ExceptionMachine ==
    ASSUME NEW n, IsMachine(n)
    PROVE  /\ \A pc, v : IsMachine(Exception(n, pc, v))
           /\ IsMachine(CheckInterrupts(n))
           /\ \A sr : IsMachine(SetSr(n, sr))
<1>1. \A k, s : IsMachine(k) => IsMachine(SetSFlag(k, s))
    BY ZenonT(60) DEF SetSFlag, IsMachine
<1>2. \A k, pc, v : IsMachine(k) => IsMachine(Exception(k, pc, v))
  <2> SUFFICES ASSUME NEW k, NEW pc, NEW v, IsMachine(k)
               PROVE  IsMachine(Exception(k, pc, v))
      OBVIOUS
  <2> DEFINE super == SetSFlag(k, TRUE)
  <2>1. Kept(super, super)
      BY <1>1 DEF Kept
  <2> HIDE DEF super
  <2>2. Kept(super, Push(super, "l", pc))
      BY <2>1, StackKept DEF OperandSizes
  <2>3. Kept(super, Push(Push(super, "l", pc), "w", GetSr(k)))
      BY <2>2, StackKept DEF OperandSizes
  <2>4. Kept(super, Jump(Push(Push(super, "l", pc), "w", GetSr(k)), VectorTable[v]))
      BY <2>3, StackKept
  <2> QED
      BY <2>4 DEF Exception, Kept, super
<1>3. \A k : IsMachine(k) => IsMachine(CheckInterrupts(k))
  <2> SUFFICES ASSUME NEW k, IsMachine(k) PROVE IsMachine(ExceptionInterrupt(k))
      BY DEF CheckInterrupts
  <2> DEFINE woken == [k EXCEPT !.stopped = FALSE]
             taken == Exception(woken, k.pc, InterruptVector(k.level))
  <2>1. IsMachine(woken)
      BY MachineFields
  <2> HIDE DEF woken
  <2>2. IsMachine(taken)
      BY <1>2, <2>1
  <2> HIDE DEF taken
  <2>3. [taken EXCEPT !.mask = k.level, !.level = 0] = [[taken EXCEPT !.mask = k.level] EXCEPT !.level = 0]
      OBVIOUS
  <2>4. IsMachine([taken EXCEPT !.mask = k.level, !.level = 0])
      BY <2>2, <2>3, MachineFields
  <2> QED
      BY <2>4 DEF ExceptionInterrupt, taken, woken
<1>4. \A sr : IsMachine(SetSr(n, sr))
  <2>0. \A f, k : [n EXCEPT !.f = f, !.mask = k] = [[n EXCEPT !.f = f] EXCEPT !.mask = k]
      OBVIOUS
  <2>1. \A f, k : IsMachine([n EXCEPT !.f = f, !.mask = k])
      BY <2>0, MachineFields
  <2> QED
      BY <1>1, <1>3, <2>1 DEF SetSr
<1> QED
    BY <1>2, <1>3, <1>4

LEMMA SystemMachine ==
    ASSUME NEW t, Ready(t), t.s, t.ir.op \in PrivilegedOps
    PROVE  IsMachine(SystemHandler(t))
<1>1. Kept(t, t) /\ \A n : Kept(t, n) => IsMachine(n)
    BY FetchedKept DEF Kept
<1>2. IsMachine(AndiTosOp(t)) /\ IsMachine(OriTosOp(t)) /\ IsMachine(EoriTosOp(t))
    BY <1>1, ReadImmKept, ExceptionMachine DEF AndiTosOp, OriTosOp, EoriTosOp, ToSr
<1>3. IsMachine(MoveTosOp(t))
  <2>1. Kept(t, Operand(t, t.ir.mode, t.ir.y, "w").m)
      BY <1>1, OperandKept DEF OperandSizes, Ready, Encoded
  <2> QED
      BY <1>1, <2>1, ExceptionMachine DEF MoveTosOp
<1>4. IsMachine(MoveFruOp(t))
    BY <1>1, SetRKept DEF MoveFruOp
<1>5. IsMachine(MoveTouOp(t))
    BY <1>1 DEF MoveTouOp, IsMachine
<1>6. IsMachine(RteOp(t))
  <2> DEFINE k == Pull(t, "w")
             p == Pull(k.m, "l")
  <2>1. Kept(t, Jump(p.m, p.v))
      BY <1>1, StackKept
  <2> QED
      BY <1>1, <2>1, ExceptionMachine DEF RteOp
<1>7. IsMachine(StopOp(t))
  <2>1. IsMachine([ReadImm16(t).m EXCEPT !.stopped = TRUE])
      BY <1>1, ReadImmKept, MachineFields
  <2> QED
      BY <2>1, ExceptionMachine DEF StopOp
<1>8. IsMachine(ResetOp(t))
    BY <1>1 DEF ResetOp
<1> QED
    BY <1>2, <1>3, <1>4, <1>5, <1>6, <1>7, <1>8 DEF SystemHandler, PrivilegedOps

-----------------------------------------------------------------------------
(* The handlers by the actions that call them.                             *)
LEMMA AlterableOps ==
    ASSUME NEW t, Ready(t)
    PROVE  /\ t.ir.op \in AlterOps => Alterable(t)
           /\ t.ir.op \in {"addq", "subq"} => Alterable(t) \/ t.ir.mode = "a"
           /\ t.ir.op \in AddressOps => t.ir.mode \in MemoryModes
    BY DEF Ready, Encoded, Alterable

LEMMA SumDoes ==
    ASSUME NEW t, Ready(t), t.ir.op \in SumOps
    PROVE  Does(t, SumHandler(t))
    BY EaToDxKept, DxToEaKept, ImmToEaKept, ExtendKept, QuickKept, IntoAxKept, AlterableOps
       DEF SumHandler, SumOps, AlterOps, Does

LEMMA DifferenceDoes ==
    ASSUME NEW t, Ready(t), t.ir.op \in DifferenceOps
    PROVE  Does(t, DifferenceHandler(t))
    BY EaToDxKept, DxToEaKept, ImmToEaKept, ExtendKept, QuickKept, IntoAxKept, ModifyKept, AlterableOps
       DEF DifferenceHandler, DifferenceOps, AlterOps, Does

LEMMA ComparisonDoes ==
    ASSUME NEW t, Ready(t), t.ir.op \in CompareOps
    PROVE  Does(t, CompareHandler(t))
    BY CompareKept, CompareDoes DEF CompareHandler, CompareOps, Does

LEMMA DecimalDoes ==
    ASSUME NEW t, Ready(t), t.ir.op \in DecimalOps
    PROVE  Does(t, DecimalHandler(t))
    BY ExtendKept, ModifyKept, AlterableOps DEF DecimalHandler, DecimalOps, AlterOps, Does

LEMMA LogicDoes ==
    ASSUME NEW t, Ready(t), t.ir.op \in LogicOps
    PROVE  Does(t, LogicHandler(t))
    BY EaToDxKept, DxToEaKept, ImmToEaKept, ModifyKept, BitsKept, AlterableOps
       DEF LogicHandler, LogicOps, AlterOps, Does

LEMMA ShiftDoes ==
    ASSUME NEW t, Ready(t), t.ir.op \in ShiftNames
    PROVE  Does(t, ShiftOp(t))
    BY BitsKept, AlterableOps DEF AlterOps, Does

LEMMA MoveDoes ==
    ASSUME NEW t, Ready(t), t.ir.op \in MoveOps
    PROVE  Does(t, MoveHandler(t))
    BY MovesKept, IntoAxKept, StoresKept, RegistersKept, AlterableOps
       DEF MoveHandler, MoveOps, AlterOps, Does

LEMMA MoveBlockDoes ==
    ASSUME NEW t, Ready(t), t.ir.op \in BlockOps
    PROVE  Does(t, BlockHandler(t))
    BY MovemKept, BlockKept, AlterableOps DEF BlockHandler, BlockOps, AddressOps, Does

LEMMA StackDoes ==
    ASSUME NEW t, Ready(t), t.ir.op \in StackOps
    PROVE  Does(t, StackHandler(t))
    BY AddressKept, LinkKept, ReturnKept, AlterableOps DEF StackHandler, StackOps, AddressOps, Does

LEMMA FlowDoes ==
    ASSUME NEW t, Ready(t), t.ir.op \in BranchOps
    PROVE  Does(t, BranchHandler(t))
    BY BranchKept DEF BranchHandler, BranchOps, Does

LEMMA ProductsDoes ==
    ASSUME NEW t, Ready(t), t.ir.op \in ProductOps
    PROVE  Does(t, ProductHandler(t))
    BY ProductDoes DEF ProductHandler, ProductOps, Does

LEMMA RefuseDoes ==
    ASSUME NEW t, Ready(t), t.ir.op \in TrapOps
    PROVE  Does(t, TrapHandler(t))
    BY TrapsDoes, RefusedTraps DEF TrapHandler, TrapOps, IllegalOp, Ready, Does

LEMMA RefuseLaterDoes ==
    ASSUME NEW t, Ready(t), t.ir.op \in LaterOps
    PROVE  Trapped(LaterHandler(t))
<1>1. Trapped(ExceptionIllegal(t)) /\ Trapped(Exception1111(t))
    BY RefusedTraps DEF Ready
<1> QED
    BY <1>1
       DEF LaterHandler, LaterOps, BfchgOp, BfclrOp, BfextsOp, BfextuOp, BfffoOp, BfinsOp,
           BfsetOp, BftstOp, BkptOp, CallmOp, CasOp, Cas2Op, Chk32Op, Chk2cmp2Op, DivlOp, ExtbOp,
           Link32Op, MoveFrcOp, MovecCrOp, MovecRcOp, MovesOp, MullOp, PackOp, RtdOp, RtmOp,
           TraptOp, TrapfOp, TrapccOp, UnpkOp, CpOp, Fpu040Op, PmmuOp

LEMMA SystemDoes ==
    ASSUME NEW t, Ready(t), t.ir.op \in PrivilegedOps \cup CcrOps
    PROVE  /\ IsMachine(SystemHandler(t))
           /\ ~t.s => Does(t, SystemHandler(t))
<1>1. CASE t.ir.op \in CcrOps
    BY <1>1, CcrKept DEF SystemHandler, CcrOps, Does, Kept
<1>2. CASE t.ir.op \in PrivilegedOps /\ t.s
    BY <1>2, SystemMachine
<1>3. CASE t.ir.op \in PrivilegedOps /\ ~t.s
    BY <1>3, PrivilegedTraps DEF Does, Trapped
<1> QED
    BY <1>1, <1>2, <1>3

(* The code that runs is that of a program of the library, and m is a      *)
(* machine: all that the theorem below needs to know of a state.           *)
ProgramRuns == IsMachine(m) /\ \E p \in Library : prog.code = p.code

LEMMA FetchIsReady ==
    ASSUME ProgramRuns, m.pc \in DOMAIN prog.code
    PROVE  /\ Ready(Fetch) /\ Fetch.ir = Fetched
           /\ Fetch.s = m.s /\ Fetch.mask = m.mask /\ Fetch.bank = m.bank
           /\ Fetch.stopped = m.stopped
<1>1. Encoded(Fetched)
    BY LibraryAssumption DEF ProgramRuns, Fetched
<1>2. Fetch = [[[m EXCEPT !.ppc = m.pc] EXCEPT !.ir = Fetched] EXCEPT !.pc = m.pc + 2]
    BY DEF Fetch, ProgramRuns, IsMachine
<1>3. \A n : IsMachine(n) =>
        \A v : /\ IsMachine([n EXCEPT !.ppc = v]) /\ IsMachine([n EXCEPT !.pc = v])
               /\ IsMachine([n EXCEPT !.ir = v])
    BY DEF IsMachine
<1>4. IsMachine(Fetch)
    BY <1>2, <1>3 DEF ProgramRuns
<1>5. /\ Fetch.ir = Fetched /\ Fetch.s = m.s /\ Fetch.mask = m.mask /\ Fetch.bank = m.bank
      /\ Fetch.stopped = m.stopped
    BY DEF Fetch, ProgramRuns, IsMachine
<1> QED
    BY <1>1, <1>4, <1>5 DEF Ready

LEMMA StepDoes ==
    ASSUME ProgramRuns, Step
    PROVE  /\ IsMachine(m')
           /\ ~m.s => Does(Fetch, m')
<1>1. m.pc \in DOMAIN prog.code
    BY DEF Step, Sum, Difference, Compare, Decimal, Logic, ShiftBits, Move, MoveBlock, Stack,
           Flow, Product, Refuse, RefuseLater, System, Executes
<1>2. Ready(Fetch) /\ Fetch.ir = Fetched /\ Fetch.s = m.s
    BY <1>1, FetchIsReady
<1>3. \A n : Does(Fetch, n) => IsMachine(n)
    BY DEF Does, Kept, Trapped
<1> DEFINE Done == IsMachine(m') /\ (~m.s => Does(Fetch, m'))
<1>4. CASE Sum
    BY <1>2, <1>3, <1>4, SumDoes DEF Sum, Executes
<1>5. CASE Difference
    BY <1>2, <1>3, <1>5, DifferenceDoes DEF Difference, Executes
<1>6. CASE Compare
    BY <1>2, <1>3, <1>6, ComparisonDoes DEF Compare, Executes
<1>7. CASE Decimal
    BY <1>2, <1>3, <1>7, DecimalDoes DEF Decimal, Executes
<1>8. CASE Logic
    BY <1>2, <1>3, <1>8, LogicDoes DEF Logic, Executes
<1>9. CASE ShiftBits
    BY <1>2, <1>3, <1>9, ShiftDoes DEF ShiftBits, Executes
<1>10. CASE Move
    BY <1>2, <1>3, <1>10, MoveDoes DEF Move, Executes
<1>11. CASE MoveBlock
    BY <1>2, <1>3, <1>11, MoveBlockDoes DEF MoveBlock, Executes
<1>12. CASE Stack
    BY <1>2, <1>3, <1>12, StackDoes DEF Stack, Executes
<1>13. CASE Flow
    BY <1>2, <1>3, <1>13, FlowDoes DEF Flow, Executes
<1>14. CASE Product
    BY <1>2, <1>3, <1>14, ProductsDoes DEF Product, Executes
<1>15. CASE Refuse
    BY <1>2, <1>3, <1>15, RefuseDoes DEF Refuse, Executes
<1>16. CASE RefuseLater
    BY <1>2, <1>3, <1>16, RefuseLaterDoes DEF RefuseLater, Executes, Does
<1>17. CASE System
    BY <1>2, <1>17, SystemDoes DEF System, Executes
<1> QED
    BY <1>4, <1>5, <1>6, <1>7, <1>8, <1>9, <1>10, <1>11, <1>12, <1>13, <1>14, <1>15, <1>16, <1>17
       DEF Step

(* A tick takes the exception of level 1 or leaves all but the level.      *)
LEMMA TickDoes ==
    ASSUME ProgramRuns, Tick
    PROVE  /\ IsMachine(m')
           /\ Trapped(m') \/ m' = [m EXCEPT !.level = 1]
<1> DEFINE due == [m EXCEPT !.level = 1]
<1>1. IsMachine(due) /\ due.level = 1
    BY MachineFields DEF ProgramRuns, IsMachine
<1>2. m' = CheckInterrupts(due)
    BY DEF Tick
<1> HIDE DEF due
<1>3. CASE due.level > due.mask
  <2> DEFINE woken == [due EXCEPT !.stopped = FALSE]
             taken == Exception(woken, due.pc, InterruptVector(due.level))
  <2>1. IsMachine(woken)
      BY <1>1, MachineFields
  <2>2. InterruptVector(due.level) \in 0..255
      BY <1>1 DEF InterruptVector, Vector
  <2> HIDE DEF woken
  <2>3. Trapped(taken)
      BY <2>1, <2>2, ExceptionTraps
  <2>4. m' = [taken EXCEPT !.mask = due.level, !.level = 0]
      BY <1>2, <1>3 DEF CheckInterrupts, ExceptionInterrupt, woken
  <2> HIDE DEF taken
  <2>5. m' = [[taken EXCEPT !.mask = due.level] EXCEPT !.level = 0]
      BY <2>4
  <2>6. IsMachine(m')
      BY <2>3, <2>5, MachineFields DEF Trapped
  <2>7. m'.s = taken.s /\ m'.pc = taken.pc
      BY <2>3, <2>4 DEF Trapped, IsMachine
  <2> QED
      BY <2>3, <2>6, <2>7 DEF Trapped
<1>4. CASE ~(due.level > due.mask)
    BY <1>1, <1>2, <1>4 DEF CheckInterrupts, due
<1> QED
    BY <1>3, <1>4

THEOREM ProgramRunsAlways == Spec => []ProgramRuns
<1>1. Init => ProgramRuns
    BY DEF Init, ProgramRuns, IsMachine
<1>2. ProgramRuns /\ [Next]_vars => ProgramRuns'
  <2> SUFFICES ASSUME ProgramRuns, [Next]_vars PROVE ProgramRuns'
      OBVIOUS
  <2>1. CASE Step
    <3>1. prog' = prog
        BY <2>1 DEF Step, Sum, Difference, Compare, Decimal, Logic, ShiftBits, Move, MoveBlock,
                    Stack, Flow, Product, Refuse, RefuseLater, System
    <3> QED
        BY <2>1, <3>1, StepDoes DEF ProgramRuns
  <2>2. CASE Tick
    <3>1. prog' = prog
        BY <2>2 DEF Tick
    <3> QED
        BY <2>2, <3>1, TickDoes DEF ProgramRuns
  <2>3. CASE UNCHANGED vars
      BY <2>3 DEF vars, ProgramRuns
  <2> QED
      BY <2>1, <2>2, <2>3 DEF Next
<1> QED
    BY <1>1, <1>2, PTL DEF Spec

THEOREM UserIsKeptOut == Spec => UserKeepsOut
<1> DEFINE Guarded ==
             ~m.s => \/ m'.s /\ \E v \in DOMAIN VectorTable : m'.pc = VectorTable[v]
                     \/ /\ ~m'.s /\ m'.stopped = m.stopped
                        /\ m'.mask = m.mask /\ m'.bank = m.bank
<1>1. ProgramRuns /\ [Next]_vars => [Guarded]_vars
  <2> SUFFICES ASSUME ProgramRuns, Next, ~m.s PROVE Guarded
      OBVIOUS
  <2>1. CASE Step
    <3>1. m.pc \in DOMAIN prog.code
        BY <2>1 DEF Step, Sum, Difference, Compare, Decimal, Logic, ShiftBits, Move, MoveBlock,
                    Stack, Flow, Product, Refuse, RefuseLater, System, Executes
    <3>2. Does(Fetch, m')
        BY <2>1, StepDoes
    <3> QED
        BY <3>1, <3>2, FetchIsReady DEF Does, Kept, Trapped
  <2>2. CASE Tick
      BY <2>2, TickDoes DEF Trapped, ProgramRuns, IsMachine
  <2> QED
      BY <2>1, <2>2 DEF Next
<1> QED
    BY <1>1, ProgramRunsAlways, PTL DEF Spec, UserKeepsOut

-----------------------------------------------------------------------------
(* Numbers and their bytes.                                                *)
LEMMA DivUnique ==
    ASSUME NEW w \in Nat \ {0}, NEW q \in Int, NEW a \in Int,
           q * w <= a, a < q * w + w
    PROVE  a \div w = q /\ a % w = a - q * w
<1> DEFINE k == a \div w
           r == a % w
<1>1. k \in Int /\ r \in 0..(w - 1) /\ a = w * k + r
    OBVIOUS
<1> HIDE DEF k, r
<1>2. ASSUME k >= q + 1 PROVE FALSE
  <2>1. w * (k - (q + 1)) >= 0 /\ w * (k - (q + 1)) = w * k - q * w - w
      BY <1>1, <1>2
  <2> QED
      BY <1>1, <2>1
<1>3. ASSUME q >= k + 1 PROVE FALSE
  <2>1. w * (q - (k + 1)) >= 0 /\ w * (q - (k + 1)) = q * w - w * k - w
      BY <1>1, <1>3
  <2> QED
      BY <1>1, <2>1
<1>4. k = q /\ r = a - q * w
    BY <1>1, <1>2, <1>3
<1> QED
    BY <1>4 DEF k, r

LEMMA BelowIsSame ==
    ASSUME NEW w \in Nat \ {0}, NEW a \in 0..(w - 1)
    PROVE  a % w = a /\ a \div w = 0
<1>1. 0 * w = 0 /\ a \in Int /\ 0 <= a /\ a < w
    OBVIOUS
<1> QED
    BY <1>1, DivUnique

(* A number from its quotient and remainder.                               *)
LEMMA Splits ==
    ASSUME NEW w \in Nat \ {0}, NEW a \in Nat
    PROVE  /\ a \div w \in Nat /\ a % w \in 0..(w - 1)
           /\ (a \div w) * w + (a % w) = a
           /\ a < w * w => a \div w \in 0..(w - 1)
<1> DEFINE k == a \div w
           r == a % w
<1>1. k \in Int /\ r \in 0..(w - 1) /\ a = w * k + r
    OBVIOUS
<1> HIDE DEF k, r
<1>2. ASSUME k < 0 PROVE FALSE
  <2>1. w * (-k - 1) >= 0 /\ w * (-k - 1) = -(w * k) - w
      BY <1>1, <1>2
  <2> QED
      BY <1>1, <2>1
<1>3. ASSUME a < w * w, k >= w PROVE FALSE
  <2>1. w * (k - w) >= 0 /\ w * (k - w) = w * k - w * w
      BY <1>1, <1>3
  <2> QED
      BY <1>1, <1>3, <2>1
<1>4. w * k = k * w
    BY <1>1
<1> QED
    BY <1>1, <1>2, <1>3, <1>4 DEF k, r

(* The two low bytes of a number are the number modulo a word.             *)
LEMMA LowWord ==
    ASSUME NEW w \in Nat \ {0}, NEW a \in Nat
    PROVE  ((a \div w) % w) * w + (a % w) = a % (w * w)
<1> DEFINE k == a \div w
           r == a % w
           j == k \div w
           i == k % w
           W == w * w
<1>1. k \in Nat /\ r \in 0..(w - 1) /\ k * w + r = a
    BY Splits
<1> HIDE DEF k, r
<1>2. j \in Nat /\ i \in 0..(w - 1) /\ j * w + i = k
    BY <1>1, Splits
<1> HIDE DEF j, i
<1>3. k * w = j * W + i * w
    BY <1>1, <1>2
<1>4. W \in Nat \ {0} /\ i * w \in Nat /\ j * W \in Nat /\ i * w + w <= W
  <2>1. w * (w - 1 - i) >= 0 /\ w * (w - 1 - i) = w * w - w - i * w
      BY <1>2
  <2> QED
      BY <1>2, <2>1
<1> HIDE DEF W
<1>5. j * W <= a /\ a < j * W + W
    BY <1>1, <1>3, <1>4
<1>6. a % W = a - j * W
  <2>1. a \in Int /\ j \in Int
      BY <1>2
  <2> QED
      BY <2>1, <1>4, <1>5, DivUnique
<1>7. a % W = i * w + r
    BY <1>1, <1>3, <1>4, <1>6
<1> QED
    BY <1>7 DEF W, i, r, k

-----------------------------------------------------------------------------
(* The frame of an exception. w is n but for the bytes of memory in "at".  *)
OnlyMemory(n, w, at) ==
    /\ IsMachine(w) /\ DOMAIN w.mem = Ram
    /\ w.r = n.r /\ w.bank = n.bank /\ w.pc = n.pc /\ w.f = n.f /\ w.s = n.s
    /\ w.mask = n.mask /\ w.level = n.level /\ w.stopped = n.stopped
    /\ \A c \in Ram \ at : w.mem[c] = n.mem[c]

LEMMA RamIsLow ==
    ASSUME NEW a \in Ram
    PROVE  a % AddressSpace = a /\ a \in Nat
<1>1. a \in 0..(AddressSpace - 1) /\ AddressSpace \in Nat \ {0}
    BY AddressingAssumption
<1> QED
    BY <1>1, BelowIsSame

LEMMA Stored8 ==
    ASSUME NEW n, IsMachine(n), DOMAIN n.mem = Ram, NEW a \in Ram, NEW v
    PROVE  /\ OnlyMemory(n, Write8(n, a, v), {a})
           /\ Write8(n, a, v).mem[a] = v % Limit("b")
<1>1. Write8(n, a, v) = [n EXCEPT !.mem[a] = v % Limit("b")]
    BY RamIsLow DEF Write8
<1> QED
    BY <1>1 DEF OnlyMemory, IsMachine

LEMMA Stored16 ==
    ASSUME NEW n, IsMachine(n), DOMAIN n.mem = Ram, NEW a \in Ram, a + 1 \in Ram, NEW v
    PROVE  /\ OnlyMemory(n, Write16(n, a, v), {a, a + 1})
           /\ Write16(n, a, v).mem[a] = (v \div Limit("b")) % Limit("b")
           /\ Write16(n, a, v).mem[a + 1] = v % Limit("b")
<1> DEFINE first == Write8(n, a, v \div Limit("b"))
<1>1. a # a + 1
    BY RamIsLow
<1>2. OnlyMemory(n, first, {a}) /\ first.mem[a] = (v \div Limit("b")) % Limit("b")
    BY Stored8
<1> HIDE DEF first
<1>3. /\ OnlyMemory(first, Write8(first, a + 1, v), {a + 1})
      /\ Write8(first, a + 1, v).mem[a + 1] = v % Limit("b")
    BY <1>2, Stored8 DEF OnlyMemory
<1>4. Write16(n, a, v) = Write8(first, a + 1, v)
    BY DEF Write16, first
<1> QED
    BY <1>1, <1>2, <1>3, <1>4 DEF OnlyMemory

LEMMA Stored32 ==
    ASSUME NEW n, IsMachine(n), DOMAIN n.mem = Ram,
           NEW a \in Ram, a + 1 \in Ram, a + 2 \in Ram, a + 3 \in Ram, NEW v
    PROVE  /\ OnlyMemory(n, Write32(n, a, v), {a, a + 1, a + 2, a + 3})
           /\ Write32(n, a, v).mem[a] = ((v \div Limit("w")) \div Limit("b")) % Limit("b")
           /\ Write32(n, a, v).mem[a + 1] = (v \div Limit("w")) % Limit("b")
           /\ Write32(n, a, v).mem[a + 2] = (v \div Limit("b")) % Limit("b")
           /\ Write32(n, a, v).mem[a + 3] = v % Limit("b")
<1> DEFINE b == Limit("b")
           high == v \div Limit("w")
           first == Write16(n, a, high)
           c == a + 2
<1>1. /\ a + 3 = c + 1 /\ {a, a + 1} \cap {c, c + 1} = {}
    BY RamIsLow
<1>2. /\ OnlyMemory(n, first, {a, a + 1})
      /\ first.mem[a] = (high \div b) % b /\ first.mem[a + 1] = high % b
    BY Stored16
<1>3. c \in Ram /\ c + 1 \in Ram
    BY <1>1
<1>4. Write32(n, a, v) = Write16(first, c, v)
    BY DEF Write32
<1> HIDE DEF first, c
<1>5. /\ OnlyMemory(first, Write16(first, c, v), {c, c + 1})
      /\ Write16(first, c, v).mem[c] = (v \div b) % b
      /\ Write16(first, c, v).mem[c + 1] = v % b
    BY <1>2, <1>3, Stored16 DEF OnlyMemory
<1>6. {a, a + 1, a + 2, a + 3} = {a, a + 1} \cup {c, c + 1}
    BY <1>1 DEF c
<1> HIDE DEF high, b
<1>7. OnlyMemory(n, Write32(n, a, v), {a, a + 1, a + 2, a + 3})
    BY <1>2, <1>4, <1>5, <1>6 DEF OnlyMemory
<1>8. /\ Write32(n, a, v).mem[a] = (high \div b) % b
      /\ Write32(n, a, v).mem[a + 1] = high % b
    BY <1>1, <1>2, <1>4, <1>5 DEF OnlyMemory
<1>9. /\ Write32(n, a, v).mem[a + 2] = (v \div b) % b
      /\ Write32(n, a, v).mem[a + 3] = v % b
    BY <1>1, <1>4, <1>5 DEF c
<1> QED
    BY <1>7, <1>8, <1>9 DEF high, b

(* What a word and a long on the stack are read as.                        *)
LEMMA ReadWord ==
    ASSUME NEW w, NEW a \in Ram, a + 1 \in Ram, NEW v \in Nat, v < Limit("w"),
           w.mem[a] = (v \div Limit("b")) % Limit("b"), w.mem[a + 1] = v % Limit("b")
    PROVE  Read(w, a, "w") = v
<1> DEFINE b == Limit("b")
<1>1. b \in Nat \ {0} /\ Limit("w") = b * b
    BY LimitIsPositive DEF OperandSizes
<1>2. Read(w, a, "w") = w.mem[a] * b + w.mem[a + 1]
  <2>1. ByteAt(w, a) = w.mem[a] /\ ByteAt(w, a + 1) = w.mem[a + 1]
      BY RamIsLow DEF ByteAt
  <2>2. Read(w, a, "w") = Read16(w, a)
      BY DEF Read
  <2>3. Read16(w, a) = ByteAt(w, a) * Limit("b") + ByteAt(w, a + 1)
      BY DEF Read16
  <2> QED
      BY <2>1, <2>2, <2>3
<1> HIDE DEF b
<1>3. v < b * b
    BY <1>1
<1>4. ((v \div b) % b) * b + (v % b) = v % (b * b)
    BY <1>1, LowWord
<1>5. b * b \in Nat \ {0} /\ v \in 0..(b * b - 1)
    BY <1>1, <1>3
<1>6. v % (b * b) = v
    BY <1>5, BelowIsSame
<1> QED
    BY <1>2, <1>4, <1>6 DEF b

LEMMA ReadLong ==
    ASSUME NEW w, NEW a \in Ram, a + 1 \in Ram, a + 2 \in Ram, a + 3 \in Ram,
           NEW v \in Nat, v < Limit("l"),
           w.mem[a] = ((v \div Limit("w")) \div Limit("b")) % Limit("b"),
           w.mem[a + 1] = (v \div Limit("w")) % Limit("b"),
           w.mem[a + 2] = (v \div Limit("b")) % Limit("b"),
           w.mem[a + 3] = v % Limit("b")
    PROVE  Read(w, a, "l") = v
<1> DEFINE b == Limit("b")
           W == Limit("w")
           high == v \div W
<1>1. b \in Nat \ {0} /\ W \in Nat \ {0} /\ W = b * b /\ Limit("l") = W * W
    BY LimitIsPositive DEF OperandSizes
<1>2. (a + 2) + 1 = a + 3
    BY RamIsLow
<1>3. Read(w, a, "l") = (w.mem[a] * b + w.mem[a + 1]) * W + (w.mem[a + 2] * b + w.mem[a + 3])
  <2>1. /\ ByteAt(w, a) = w.mem[a] /\ ByteAt(w, a + 1) = w.mem[a + 1]
        /\ ByteAt(w, a + 2) = w.mem[a + 2] /\ ByteAt(w, a + 3) = w.mem[a + 3]
      BY RamIsLow DEF ByteAt
  <2>2. Read(w, a, "l") = Read16(w, a) * Limit("w") + Read16(w, a + 2)
      BY DEF Read
  <2>3. /\ Read16(w, a) = ByteAt(w, a) * Limit("b") + ByteAt(w, a + 1)
        /\ Read16(w, a + 2) = ByteAt(w, a + 2) * Limit("b") + ByteAt(w, (a + 2) + 1)
      BY DEF Read16
  <2> QED
      BY <1>2, <2>1, <2>2, <2>3
<1> HIDE DEF b, W
<1>4. high \in Nat /\ high \in 0..(W - 1) /\ high * W + (v % W) = v
    BY <1>1, Splits
<1> HIDE DEF high
<1>5. ((high \div b) % b) * b + (high % b) = high
    BY <1>1, <1>4, LowWord, BelowIsSame
<1>6. ((v \div b) % b) * b + (v % b) = v % W
    BY <1>1, LowWord
<1>7. /\ w.mem[a] = (high \div b) % b /\ w.mem[a + 1] = high % b
      /\ w.mem[a + 2] = (v \div b) % b /\ w.mem[a + 3] = v % b
    BY DEF high, b, W
<1>8. Read(w, a, "l") = high * W + (v % W)
    BY <1>3, <1>5, <1>6, <1>7
<1> QED
    BY <1>4, <1>8

(* The status register is a word, which has all it is made of.             *)
LEMMA StatusIsWhole ==
    ASSUME NEW n, n.f \in Flags, n.mask \in 0..7, n.s \in BOOLEAN
    PROVE  /\ GetSr(n) \in Nat /\ GetSr(n) < Limit("w")
           /\ Ccr(GetSr(n)) = n.f
           /\ (GetSr(n) \div Limit("b")) % 8 = n.mask
           /\ ((GetSr(n) \div Limit("b")) \div 32) % 2 = 1 <=> n.s
<1> DEFINE b == Limit("b")
           low == GetCcr(n.f)
           high == n.mask + 32 * Bit(n.s)
           sr == GetSr(n)
           j == b \div 64
<1>1. b \in Nat \ {0} /\ b % 64 = 0 /\ Limit("w") = b * b
    BY AddressingAssumption, LimitIsPositive DEF OperandSizes, Limit
<1>2. high \in 0..39 /\ high % 8 = n.mask /\ ((high \div 32) % 2 = 1 <=> n.s)
    BY DEF Bit
<1>3. low \in 0..31
    BY DEF GetCcr, Bit, Flags
<1>4. sr = low + b * high
    BY DEF GetSr
<1> HIDE DEF b, low, high, sr
<1>5. j \in Nat \ {0} /\ b = 64 * j
    BY <1>1
<1> HIDE DEF j
<1>6. sr = low + 64 * (j * high) /\ j * high \in Nat
    BY <1>2, <1>4, <1>5
<1>7. sr \div b = high
  <2>1. high * b = b * high /\ b * high \in Nat /\ low < b
      BY <1>1, <1>2, <1>3, <1>5
  <2>2. high * b <= sr /\ sr < high * b + b /\ sr \in Int /\ high \in Int
      BY <1>1, <1>2, <1>3, <1>4, <2>1
  <2> QED
      BY <1>1, <2>2, DivUnique
<1>8. sr \in Nat /\ sr < b * b
  <2>1. b * (b - 40) >= 0 /\ b * (39 - high) >= 0
      BY <1>1, <1>2, <1>5
  <2>2. b * (b - 40) = b * b - b * 40 /\ b * (39 - high) = b * 39 - b * high
      BY <1>1, <1>2
  <2>3. b * high \in Nat /\ b * b \in Nat /\ b * 40 = b * 39 + b
      BY <1>1, <1>2
  <2> QED
      BY <1>1, <1>3, <1>4, <1>5, <2>1, <2>2, <2>3
<1>9. Ccr(sr) = n.f
  <2> DEFINE K == j * high
  <2>1. K \in Nat /\ sr = low + 64 * K
      BY <1>6
  <2> HIDE DEF K
  <2>2. /\ (sr \div 16) % 2 = (low \div 16) % 2 /\ (sr \div 8) % 2 = (low \div 8) % 2
        /\ (sr \div 4) % 2 = (low \div 4) % 2 /\ (sr \div 2) % 2 = (low \div 2) % 2
        /\ (sr \div 1) % 2 = (low \div 1) % 2
      BY <1>3, <2>1
  <2>3. /\ (low \div 16) % 2 = Bit(n.f.x) /\ (low \div 8) % 2 = Bit(n.f.n)
        /\ (low \div 4) % 2 = Bit(n.f.z) /\ (low \div 2) % 2 = Bit(n.f.v)
        /\ (low \div 1) % 2 = Bit(n.f.c)
      BY DEF low, GetCcr, Bit, Flags
  <2> QED
      BY <2>2, <2>3 DEF Ccr, Bit, Flags
<1> QED
    BY <1>1, <1>2, <1>7, <1>8, <1>9 DEF sr, b

(* A machine with registers and memory of their types.                     *)
Stands(n) ==
    /\ IsMachine(n) /\ DOMAIN n.mem = Ram
    /\ n.r \in [0..15 -> 0..(Limit("l") - 1)]

LEMMA StackMoves ==
    ASSUME NEW n, Stands(n), NEW a \in Nat, NEW d \in Nat, n.r[SP] = a + d
    PROVE  /\ Mask(n.r[SP] - d, "l") = a
           /\ SetR(n, SP, a) = [n EXCEPT !.r[SP] = a]
           /\ Stands([n EXCEPT !.r[SP] = a])
<1>1. Limit("l") \in Nat \ {0}
    BY LimitIsPositive DEF OperandSizes
<1>2. n.r[SP] \in 0..(Limit("l") - 1) /\ SP \in 0..15
    BY DEF Stands, SP
<1>3. a \in 0..(Limit("l") - 1) /\ n.r[SP] - d = a
    BY <1>1, <1>2
<1>4. Mask(a, "l") = a
    BY <1>1, <1>3, BelowIsSame DEF Mask
<1> QED
    BY <1>2, <1>3, <1>4 DEF SetR, Stands, IsMachine

LEMMA PushedWord ==
    ASSUME NEW n, Stands(n), NEW a \in Ram, a + 1 \in Ram, n.r[SP] = a + 2,
           NEW v \in Nat, v < Limit("w")
    PROVE  /\ OnlyMemory([n EXCEPT !.r[SP] = a], Push(n, "w", v), {a, a + 1})
           /\ Read(Push(n, "w", v), a, "w") = v
<1> DEFINE down == [n EXCEPT !.r[SP] = a]
<1>1. a \in Nat
    BY RamIsLow
<1>2. /\ Mask(n.r[SP] - 2, "l") = a /\ SetR(n, SP, a) = down /\ Stands(down)
    BY <1>1, StackMoves
<1> HIDE DEF down
<1>3. Push(n, "w", v) = Write16(down, a, v)
    BY <1>2 DEF Push, Write, Bytes
<1>4. /\ OnlyMemory(down, Write16(down, a, v), {a, a + 1})
      /\ Write16(down, a, v).mem[a] = (v \div Limit("b")) % Limit("b")
      /\ Write16(down, a, v).mem[a + 1] = v % Limit("b")
  <2>1. IsMachine(down) /\ DOMAIN down.mem = Ram
      BY <1>2 DEF Stands
  <2> QED
      BY <2>1, Stored16
<1>5. Read(Write16(down, a, v), a, "w") = v
    BY <1>4, ReadWord
<1> QED
    BY <1>3, <1>4, <1>5 DEF down

LEMMA PushedLong ==
    ASSUME NEW n, Stands(n), NEW a \in Ram, a + 1 \in Ram, a + 2 \in Ram, a + 3 \in Ram,
           n.r[SP] = a + 4, NEW v \in Nat, v < Limit("l")
    PROVE  /\ OnlyMemory([n EXCEPT !.r[SP] = a], Push(n, "l", v), {a, a + 1, a + 2, a + 3})
           /\ Push(n, "l", v).mem[a] = ((v \div Limit("w")) \div Limit("b")) % Limit("b")
           /\ Push(n, "l", v).mem[a + 1] = (v \div Limit("w")) % Limit("b")
           /\ Push(n, "l", v).mem[a + 2] = (v \div Limit("b")) % Limit("b")
           /\ Push(n, "l", v).mem[a + 3] = v % Limit("b")
<1> DEFINE down == [n EXCEPT !.r[SP] = a]
<1>1. a \in Nat
    BY RamIsLow
<1>2. /\ Mask(n.r[SP] - 4, "l") = a /\ SetR(n, SP, a) = down /\ Stands(down)
    BY <1>1, StackMoves
<1> HIDE DEF down
<1>3. Push(n, "l", v) = Write32(down, a, v)
    BY <1>2 DEF Push, Write, Bytes
<1>4. IsMachine(down) /\ DOMAIN down.mem = Ram
    BY <1>2 DEF Stands
<1>5. /\ OnlyMemory(down, Write32(down, a, v), {a, a + 1, a + 2, a + 3})
      /\ Write32(down, a, v).mem[a] = ((v \div Limit("w")) \div Limit("b")) % Limit("b")
      /\ Write32(down, a, v).mem[a + 1] = (v \div Limit("w")) % Limit("b")
      /\ Write32(down, a, v).mem[a + 2] = (v \div Limit("b")) % Limit("b")
      /\ Write32(down, a, v).mem[a + 3] = v % Limit("b")
  <2>1. \A k : IsMachine(k) /\ DOMAIN k.mem = Ram =>
          /\ OnlyMemory(k, Write32(k, a, v), {a, a + 1, a + 2, a + 3})
          /\ Write32(k, a, v).mem[a] = ((v \div Limit("w")) \div Limit("b")) % Limit("b")
          /\ Write32(k, a, v).mem[a + 1] = (v \div Limit("w")) % Limit("b")
          /\ Write32(k, a, v).mem[a + 2] = (v \div Limit("b")) % Limit("b")
          /\ Write32(k, a, v).mem[a + 3] = v % Limit("b")
      BY Stored32
  <2> QED
      BY <1>4, <2>1
<1> QED
    BY <1>3, <1>5 DEF down

(* A machine with all that the status register and the stacks are made of. *)
Whole(n) ==
    /\ Stands(n) /\ n.bank \in 0..(Limit("l") - 1)
    /\ n.f \in Flags /\ n.mask \in 0..7 /\ n.s \in BOOLEAN

(* e has taken an exception that is to return to pc: the frame is at base. *)
Framed(n, e, base, pc) ==
    /\ Stands(e) /\ e.s = TRUE
    /\ e.f = n.f /\ e.mask = n.mask /\ e.level = n.level /\ e.stopped = n.stopped
    /\ e.r[SP] = base /\ \A k \in 0..14 : e.r[k] = n.r[k]
    /\ e.bank = IF n.s THEN n.bank ELSE n.r[SP]
    /\ Read(e, base, "w") = GetSr(n) /\ Read(e, base + 2, "l") = pc
    /\ \A a \in Ram \ (base..(base + 5)) : e.mem[a] = n.mem[a]

StackOfSupervisor(n) == IF n.s THEN n.r[SP] ELSE n.bank

LEMMA ExceptionFrames ==
    ASSUME NEW n, Whole(n), NEW base \in Int, StackOfSupervisor(n) = base + 6,
           base..(base + 5) \subseteq Ram,
           NEW pc \in 0..(Limit("l") - 1), NEW v
    PROVE  Framed(n, Exception(n, pc, v), base, pc)
<1> DEFINE super == SetSFlag(n, TRUE)
           c     == base + 2
           one   == Push(super, "l", pc)
           two   == Push(one, "w", GetSr(n))
           e     == Exception(n, pc, v)
<1>1. /\ base \in Ram /\ base + 1 \in Ram /\ c \in Ram /\ c + 1 \in Ram /\ c + 2 \in Ram
      /\ c + 3 \in Ram
      /\ base \in Nat /\ base + 6 = c + 4
      /\ base..(base + 5) = {base, base + 1} \cup {c, c + 1, c + 2, c + 3}
      /\ {base, base + 1} \cap {c, c + 1, c + 2, c + 3} = {}
  <2>1. /\ base \in base..(base + 5) /\ base + 1 \in base..(base + 5)
        /\ base + 2 \in base..(base + 5) /\ base + 3 \in base..(base + 5)
        /\ base + 4 \in base..(base + 5) /\ base + 5 \in base..(base + 5)
      OBVIOUS
  <2>2. base + 3 = c + 1 /\ base + 4 = c + 2 /\ base + 5 = c + 3
      OBVIOUS
  <2>3. base \in Nat
      BY <2>1, RamIsLow
  <2>4. base..(base + 5) = {base, base + 1, c, c + 1, c + 2, c + 3}
      OBVIOUS
  <2> QED
      BY <2>1, <2>2, <2>3, <2>4
<1>2. /\ Stands(super) /\ super.r[SP] = c + 4 /\ super.s = TRUE
      /\ super.f = n.f /\ super.mask = n.mask /\ super.level = n.level
      /\ super.stopped = n.stopped /\ super.mem = n.mem
      /\ \A k \in 0..14 : super.r[k] = n.r[k]
      /\ super.bank = IF n.s THEN n.bank ELSE n.r[SP]
  <2>1. CASE n.s
      BY <1>1, <2>1 DEF SetSFlag, Whole, Stands, StackOfSupervisor
  <2>2. CASE ~n.s
    <3>1. /\ super = [n EXCEPT !.s = TRUE, !.r[SP] = n.bank, !.bank = n.r[SP]]
          /\ n.bank = c + 4 /\ SP \in 0..15 /\ \A k \in 0..14 : k # SP
        BY <1>1, <2>2 DEF SetSFlag, StackOfSupervisor, SP
    <3> HIDE DEF super
    <3>2. /\ IsMachine(super) /\ super.s = TRUE /\ super.r = [n.r EXCEPT ![SP] = n.bank]
          /\ super.bank = n.r[SP] /\ super.f = n.f /\ super.mask = n.mask
          /\ super.level = n.level /\ super.stopped = n.stopped /\ super.mem = n.mem
        BY <3>1 DEF Whole, Stands, IsMachine
    <3>3. /\ super.r \in [0..15 -> 0..(Limit("l") - 1)] /\ super.r[SP] = n.bank
          /\ \A k \in 0..14 : super.r[k] = n.r[k]
        BY <3>1, <3>2 DEF Whole, Stands
    <3>4. DOMAIN super.mem = Ram
        BY <3>2 DEF Whole, Stands
    <3> QED
        BY <2>2, <3>1, <3>2, <3>3, <3>4 DEF Stands
  <2> QED
      BY <2>1, <2>2 DEF Whole
<1> HIDE DEF super, c
<1>3. pc \in Nat /\ pc < Limit("l") /\ GetSr(n) \in Nat /\ GetSr(n) < Limit("w")
    BY StatusIsWhole, LimitIsPositive DEF OperandSizes, Whole
<1>4. /\ OnlyMemory([super EXCEPT !.r[SP] = c], one, {c, c + 1, c + 2, c + 3})
      /\ one.mem[c] = ((pc \div Limit("w")) \div Limit("b")) % Limit("b")
      /\ one.mem[c + 1] = (pc \div Limit("w")) % Limit("b")
      /\ one.mem[c + 2] = (pc \div Limit("b")) % Limit("b")
      /\ one.mem[c + 3] = pc % Limit("b")
  <2>1. c \in Ram /\ c + 1 \in Ram /\ c + 2 \in Ram /\ c + 3 \in Ram
      BY <1>1
  <2>2. Stands(super) /\ super.r[SP] = c + 4
      BY <1>2
  <2>3. pc \in Nat /\ pc < Limit("l")
      BY <1>3
  <2> QED
      BY <2>1, <2>2, <2>3, PushedLong, ZenonT(60)
<1> HIDE DEF one
<1>5. /\ Stands(one) /\ one.r[SP] = base + 2
      /\ one.s = TRUE /\ one.f = n.f /\ one.mask = n.mask /\ one.level = n.level
      /\ one.stopped = n.stopped /\ one.bank = super.bank
      /\ \A k \in 0..14 : one.r[k] = n.r[k]
      /\ \A a \in Ram \ {c, c + 1, c + 2, c + 3} : one.mem[a] = n.mem[a]
  <2> DEFINE down == [super EXCEPT !.r[SP] = c]
  <2>1. /\ Stands(down) /\ down.r[SP] = c /\ down.s = TRUE /\ down.f = n.f
        /\ down.mask = n.mask /\ down.level = n.level /\ down.stopped = n.stopped
        /\ down.bank = super.bank /\ down.mem = n.mem
        /\ \A k \in 0..14 : down.r[k] = n.r[k]
    <3>1. SP \in 0..15 /\ \A k \in 0..14 : k # SP /\ k \in 0..15
        BY DEF SP
    <3>2. c \in Nat
        BY <1>1, RamIsLow
    <3>3. Stands(down)
        BY <1>2, <3>2, StackMoves
    <3> QED
        BY <1>2, <3>1, <3>3 DEF Stands, IsMachine
  <2> HIDE DEF down
  <2>2. c = base + 2
      BY DEF c
  <2> QED
      BY <1>4, <2>1, <2>2 DEF OnlyMemory, Stands, down
<1>6. /\ OnlyMemory([one EXCEPT !.r[SP] = base], two, {base, base + 1})
      /\ Read(two, base, "w") = GetSr(n)
  <2>1. base \in Ram /\ base + 1 \in Ram
      BY <1>1
  <2>2. Stands(one) /\ one.r[SP] = base + 2
      BY <1>5
  <2>3. GetSr(n) \in Nat /\ GetSr(n) < Limit("w")
      BY <1>3
  <2> QED
      BY <2>1, <2>2, <2>3, PushedWord, SMTT(40)
<1> HIDE DEF two
<1>7. /\ Stands(two) /\ two.r[SP] = base
      /\ two.s = TRUE /\ two.f = n.f /\ two.mask = n.mask /\ two.level = n.level
      /\ two.stopped = n.stopped /\ two.bank = super.bank
      /\ \A k \in 0..14 : two.r[k] = n.r[k]
      /\ \A a \in Ram \ {base, base + 1} : two.mem[a] = one.mem[a]
  <2> DEFINE down == [one EXCEPT !.r[SP] = base]
  <2>1. /\ Stands(down) /\ down.r[SP] = base /\ down.s = TRUE /\ down.f = n.f
        /\ down.mask = n.mask /\ down.level = n.level /\ down.stopped = n.stopped
        /\ down.bank = super.bank /\ down.mem = one.mem
        /\ \A k \in 0..14 : down.r[k] = n.r[k]
    <3>1. SP \in 0..15 /\ \A k \in 0..14 : k # SP /\ k \in 0..15
        BY DEF SP
    <3>2. Stands(down)
        BY <1>1, <1>5, StackMoves
    <3> QED
        BY <1>5, <3>1, <3>2 DEF Stands, IsMachine
  <2> HIDE DEF down
  <2> QED
      BY <1>6, <2>1 DEF OnlyMemory, Stands, down
<1>8. Read(two, c, "l") = pc
  <2>1. /\ two.mem[c] = one.mem[c] /\ two.mem[c + 1] = one.mem[c + 1]
        /\ two.mem[c + 2] = one.mem[c + 2] /\ two.mem[c + 3] = one.mem[c + 3]
      BY <1>1, <1>7
  <2> QED
      BY <1>1, <1>3, <1>4, <2>1, ReadLong
<1>9. \A a \in Ram \ (base..(base + 5)) : two.mem[a] = n.mem[a]
    BY <1>1, <1>5, <1>7
<1>10. /\ IsMachine(e) /\ e.mem = two.mem /\ e.r = two.r /\ e.bank = two.bank /\ e.f = two.f
       /\ e.s = two.s /\ e.mask = two.mask /\ e.level = two.level /\ e.stopped = two.stopped
  <2>1. IsMachine(two)
      BY <1>7 DEF Stands
  <2>2. \A x : LET j == Jump(two, x)
               IN /\ IsMachine(j) /\ j.mem = two.mem /\ j.r = two.r /\ j.bank = two.bank
                  /\ j.f = two.f /\ j.s = two.s /\ j.mask = two.mask
                  /\ j.level = two.level /\ j.stopped = two.stopped
      BY <2>1 DEF Jump, IsMachine
  <2>3. e = Jump(two, VectorTable[v])
      BY DEF Exception, two, one, super
  <2> HIDE DEF e
  <2> QED
      BY <2>2, <2>3
<1> HIDE DEF e
<1>11. \A a : Read(e, a, "w") = Read(two, a, "w") /\ Read(e, a, "l") = Read(two, a, "l")
  <2>1. \A a : ByteAt(e, a) = ByteAt(two, a)
      BY <1>10 DEF ByteAt
  <2>2. \A a : Read16(e, a) = Read16(two, a)
      BY <2>1 DEF Read16
  <2> QED
      BY <2>1, <2>2 DEF Read
<1>12. Read(e, base, "w") = GetSr(n) /\ Read(e, base + 2, "l") = pc
    BY <1>6, <1>8, <1>11 DEF c
<1> QED
    BY <1>2, <1>7, <1>9, <1>10, <1>12 DEF Framed, Stands, e

LEMMA TypedIsWhole ==
    ASSUME IsMachine(m), TypeOK
    PROVE  Whole(m) /\ m.pc \in 0..(Limit("l") - 1)
<1> DEFINE c == [k \in DOMAIN m \ {"ir"} |-> m[k]]
<1>1. /\ c.r = m.r /\ c.bank = m.bank /\ c.pc = m.pc /\ c.f = m.f /\ c.s = m.s
      /\ c.mask = m.mask /\ c.mem = m.mem
    BY DEF IsMachine
<1>2. c \in Machines
    BY DEF TypeOK
<1> HIDE DEF c
<1> QED
    BY <1>1, <1>2 DEF Machines, Whole, Stands

-----------------------------------------------------------------------------
(* What the cpu refuses: the exception returns to the instruction.         *)
LEMMA RefusedIsException ==
    ASSUME NEW t, Ready(t),
           t.ir.op \in {"illegal", "line1010", "line1111"} \cup LaterOps
              \/ (~t.s /\ t.ir.op \in PrivilegedOps)
    PROVE  /\ t.ir.op \in TrapOps => \E v \in 0..255 : TrapHandler(t) = Exception(t, t.ppc, v)
           /\ t.ir.op \in LaterOps => \E v \in 0..255 : LaterHandler(t) = Exception(t, t.ppc, v)
           /\ t.ir.op \in PrivilegedOps \cup CcrOps =>
                 \E v \in 0..255 : SystemHandler(t) = Exception(t, t.ppc, v)
<1>0. {Vector.privilege, Vector.illegal, Vector.line1010, Vector.line1111} \subseteq 0..255
    BY SMTT(40) DEF Vector
<1>1. ASSUME t.ir.op \in TrapOps
      PROVE  \E v \in 0..255 : TrapHandler(t) = Exception(t, t.ppc, v)
  <2>1. t.ir.op \in {"illegal", "line1010", "line1111"}
      BY <1>1 DEF TrapOps, LaterOps, PrivilegedOps
  <2> QED
      BY <1>0, <2>1, ZenonT(40)
         DEF TrapHandler, IllegalOp, ExceptionIllegal, Exception1010, Exception1111
<1>2. ASSUME t.ir.op \in LaterOps
      PROVE  \E v \in 0..255 : LaterHandler(t) = Exception(t, t.ppc, v)
  <2>1. LaterHandler(t) \in {ExceptionIllegal(t), Exception1111(t)}
      BY <1>2
         DEF LaterHandler, LaterOps, BfchgOp, BfclrOp, BfextsOp, BfextuOp, BfffoOp, BfinsOp,
             BfsetOp, BftstOp, BkptOp, CallmOp, CasOp, Cas2Op, Chk32Op, Chk2cmp2Op, DivlOp,
             ExtbOp, Link32Op, MoveFrcOp, MovecCrOp, MovecRcOp, MovesOp, MullOp, PackOp, RtdOp,
             RtmOp, TraptOp, TrapfOp, TrapccOp, UnpkOp, CpOp, Fpu040Op, PmmuOp
  <2> QED
      BY <1>0, <2>1, SMTT(40) DEF ExceptionIllegal, Exception1111
<1>3. ASSUME t.ir.op \in PrivilegedOps \cup CcrOps
      PROVE  \E v \in 0..255 : SystemHandler(t) = Exception(t, t.ppc, v)
  <2>1. ~t.s /\ t.ir.op \in PrivilegedOps
      BY <1>3 DEF LaterOps, PrivilegedOps, CcrOps
  <2>2. SystemHandler(t) = ExceptionPrivilege(t)
      BY <2>1 DEF SystemHandler, PrivilegedOps, AndiTosOp, OriTosOp, EoriTosOp, ToSr, MoveTosOp,
                  MoveFruOp, MoveTouOp, RteOp, StopOp, ResetOp
  <2> QED
      BY <1>0, <2>2 DEF ExceptionPrivilege
<1> QED
    BY <1>1, <1>2, <1>3

(* No other action executes an instruction that is refused.                *)
LEMMA RefusedOnly ==
    ASSUME NEW op \in {"illegal", "line1010", "line1111"} \cup LaterOps \cup PrivilegedOps
    PROVE  op \notin SumOps \cup DifferenceOps \cup CompareOps \cup DecimalOps \cup LogicOps
                     \cup ShiftNames \cup MoveOps \cup BlockOps \cup StackOps \cup BranchOps
                     \cup ProductOps
<1>1. op \notin SumOps /\ op \notin DifferenceOps /\ op \notin CompareOps /\ op \notin DecimalOps
    BY DEF SumOps, DifferenceOps, CompareOps, DecimalOps, LaterOps, PrivilegedOps
<1>2. op \notin LogicOps /\ op \notin ShiftNames /\ op \notin MoveOps /\ op \notin BlockOps
    BY DEF LogicOps, ShiftNames, MoveOps, BlockOps, LaterOps, PrivilegedOps
<1>3. op \notin StackOps /\ op \notin BranchOps /\ op \notin ProductOps
    BY DEF StackOps, BranchOps, ProductOps, LaterOps, PrivilegedOps
<1> QED
    BY <1>1, <1>2, <1>3

LEMMA RefusedStep ==
    ASSUME ProgramRuns, TypeOK, Next, StepTaken, Fetched.op \in RefusedOps
    PROVE  \E v \in 0..255 : m' = Exception(Fetch, m.pc, v)
<1>1. Step
  <2>1. ~Tick
      BY DEF Tick, StepTaken, TypeOK
  <2> QED
      BY <2>1 DEF Next
<1>2. m.pc \in DOMAIN prog.code
    BY DEF TypeOK
<1>3. Ready(Fetch) /\ Fetch.ir = Fetched /\ Fetch.s = m.s
    BY <1>2, FetchIsReady
<1>4. Fetch.ppc = m.pc
    BY DEF Fetch, ProgramRuns, IsMachine
<1>5. /\ Fetched.op \in {"illegal", "line1010", "line1111"} \cup LaterOps
           \/ (~m.s /\ Fetched.op \in PrivilegedOps)
      /\ Fetched.op \in {"illegal", "line1010", "line1111"} \cup LaterOps \cup PrivilegedOps
    BY DEF RefusedOps
<1>6. \/ Fetched.op \in TrapOps /\ m' = TrapHandler(Fetch)
      \/ Fetched.op \in LaterOps /\ m' = LaterHandler(Fetch)
      \/ Fetched.op \in PrivilegedOps \cup CcrOps /\ m' = SystemHandler(Fetch)
    BY <1>1, <1>5, RefusedOnly
       DEF Step, Sum, Difference, Compare, Decimal, Logic, ShiftBits, Move, MoveBlock, Stack,
           Flow, Product, Refuse, RefuseLater, System, Executes
<1> QED
    BY <1>3, <1>4, <1>5, <1>6, RefusedIsException

LEMMA FrameBase ==
    ASSUME NEW n, Whole(n), (StackOfSupervisor(n) - 6)..(StackOfSupervisor(n) - 1) \subseteq Ram
    PROVE  \E base \in Int :
              /\ StackOfSupervisor(n) = base + 6 /\ base = StackOfSupervisor(n) - 6
              /\ base..(base + 5) \subseteq Ram
              /\ base..(base + 5) = (StackOfSupervisor(n) - 6)..(StackOfSupervisor(n) - 1)
<1> DEFINE sp == StackOfSupervisor(n)
<1>1. sp \in Int
  <2>1. Limit("l") \in Nat
      BY LimitIsPositive DEF OperandSizes
  <2>2. n.r[SP] \in 0..(Limit("l") - 1) /\ n.bank \in 0..(Limit("l") - 1)
      BY DEF Whole, Stands, SP
  <2> QED
      BY <2>1, <2>2 DEF StackOfSupervisor
<1> HIDE DEF sp
<1>2. sp - 6 \in Int /\ sp = (sp - 6) + 6 /\ (sp - 6) + 5 = sp - 1
    BY <1>1
<1> QED
    BY <1>2 DEF sp

(* Every instruction that the 68000 does not have, or the user may not     *)
(* execute, can be done in its place by the handler of the exception.      *)
THEOREM RefusedAreWhole == Spec /\ []TypeOK => RefusedIsWhole
<1> DEFINE Whole1 ==
             StepTaken /\ Fetched.op \in RefusedOps /\ Frame \subseteq Ram =>
                /\ Read(m', m'.r[SP] + 2, "l") = m.pc
                /\ Read(m', m'.r[SP], "w") = GetSr(m)
                /\ m'.r[SP] = SupervisorStack - 6
                /\ \A k \in 0..14 : m'.r[k] = m.r[k]
                /\ \A a \in Ram \ Frame : m'.mem[a] = m.mem[a]
<1>1. ProgramRuns /\ TypeOK /\ [Next]_vars => [Whole1]_vars
  <2> SUFFICES ASSUME ProgramRuns, TypeOK, Next, StepTaken, Fetched.op \in RefusedOps,
                      Frame \subseteq Ram
               PROVE  /\ Read(m', m'.r[SP] + 2, "l") = m.pc
                      /\ Read(m', m'.r[SP], "w") = GetSr(m)
                      /\ m'.r[SP] = SupervisorStack - 6
                      /\ \A k \in 0..14 : m'.r[k] = m.r[k]
                      /\ \A a \in Ram \ Frame : m'.mem[a] = m.mem[a]
      OBVIOUS
  <2>1. PICK v \in 0..255 : m' = Exception(Fetch, m.pc, v)
      BY RefusedStep
  <2>2. Whole(m) /\ m.pc \in 0..(Limit("l") - 1)
      BY TypedIsWhole DEF ProgramRuns
  <2>3. PICK base \in Int : /\ SupervisorStack = base + 6 /\ base = SupervisorStack - 6
                            /\ base..(base + 5) \subseteq Ram
                            /\ base..(base + 5) = Frame
      BY <2>2, FrameBase DEF Frame, SupervisorStack, StackOfSupervisor
  <2>4. /\ Whole(Fetch) /\ StackOfSupervisor(Fetch) = SupervisorStack
        /\ Fetch.r = m.r /\ Fetch.mem = m.mem /\ GetSr(Fetch) = GetSr(m)
    <3>1. Ready(Fetch)
        BY FetchIsReady DEF TypeOK
    <3>2. /\ Fetch.r = m.r /\ Fetch.mem = m.mem /\ Fetch.bank = m.bank /\ Fetch.s = m.s
          /\ Fetch.mask = m.mask /\ Fetch.f = m.f
        BY DEF Fetch, ProgramRuns, IsMachine
    <3> QED
        BY <2>2, <3>1, <3>2 DEF Whole, Stands, Ready, StackOfSupervisor, SupervisorStack, GetSr
  <2>5. Framed(Fetch, m', base, m.pc)
      BY <2>1, <2>2, <2>3, <2>4, ExceptionFrames
  <2> QED
      BY <2>3, <2>4, <2>5 DEF Framed
<1> QED
    BY <1>1, ProgramRunsAlways, PTL DEF Spec, RefusedIsWhole

-----------------------------------------------------------------------------
(* Two words from the stack: a pull reads and moves the stack pointer.     *)
LEMMA Pulled ==
    ASSUME NEW n, Stands(n), NEW sz \in {"w", "l"}, NEW a \in Nat, a = n.r[SP],
           a + Bytes(sz) < Limit("l")
    PROVE  /\ Pull(n, sz).v = Read(n, a, sz)
           /\ Pull(n, sz).m = [n EXCEPT !.r[SP] = a + Bytes(sz)]
           /\ Stands(Pull(n, sz).m) /\ Pull(n, sz).m.r[SP] = a + Bytes(sz)
<1>1. Limit("l") \in Nat \ {0} /\ Bytes(sz) \in Nat
    BY LimitIsPositive DEF OperandSizes, Bytes
<1> DEFINE c == a + Bytes(sz)
<1>2. c \in 0..(Limit("l") - 1)
    BY <1>1
<1>3. Mask(c, "l") = c
    BY <1>1, <1>2, BelowIsSame DEF Mask
<1>4. SetR(n, SP, c) = [n EXCEPT !.r[SP] = c]
    BY <1>3 DEF SetR
<1>5. Pull(n, sz).m = SetR(n, SP, c) /\ Pull(n, sz).v = Read(n, a, sz)
    BY DEF Pull
<1> HIDE DEF c
<1>6. Stands([n EXCEPT !.r[SP] = c]) /\ [n EXCEPT !.r[SP] = c].r[SP] = c
  <2>1. SP \in 0..15
      BY DEF SP
  <2> QED
      BY <1>2, <2>1 DEF Stands, IsMachine
<1> QED
    BY <1>4, <1>5, <1>6 DEF c

LEMMA SameReads ==
    ASSUME NEW n, NEW w, n.mem = w.mem
    PROVE  \A a : Read(n, a, "w") = Read(w, a, "w") /\ Read(n, a, "l") = Read(w, a, "l")
<1>1. \A a : ByteAt(n, a) = ByteAt(w, a)
    BY DEF ByteAt
<1>2. \A a : Read16(n, a) = Read16(w, a)
    BY <1>1 DEF Read16
<1> QED
    BY <1>2 DEF Read

(* A machine in supervisor mode, with no interrupt due, is given back the  *)
(* status register of b.                                                   *)
Supervises(n) == Stands(n) /\ n.s = TRUE /\ n.level = 0

LEMMA StatusReturns ==
    ASSUME NEW b, Whole(b), NEW n, Supervises(n),
           NEW back, back = SetSr(n, GetSr(b))
    PROVE  /\ back.f = b.f /\ back.mask = b.mask /\ back.s = b.s
           /\ back.pc = n.pc /\ back.stopped = n.stopped /\ back.mem = n.mem
           /\ b.s => back.r = n.r /\ back.bank = n.bank
           /\ ~b.s => back.r = [n.r EXCEPT ![SP] = n.bank] /\ back.bank = n.r[SP]
<1> DEFINE high == GetSr(b) \div Limit("b")
           mode == (high \div 32) % 2 = 1
           set  == [n EXCEPT !.f = b.f, !.mask = b.mask]
           e    == SetSFlag(set, b.s)
<1>1. Ccr(GetSr(b)) = b.f /\ high % 8 = b.mask /\ (mode <=> b.s) /\ b.s \in BOOLEAN
    BY StatusIsWhole DEF Whole
<1>2. mode = b.s
    BY <1>1
<1>3. SetSr(n, GetSr(b)) = CheckInterrupts(e)
    BY <1>1, <1>2 DEF SetSr
<1>4. /\ IsMachine(set) /\ set.f = b.f /\ set.mask = b.mask /\ set.s = TRUE /\ set.level = 0
      /\ set.r = n.r /\ set.bank = n.bank /\ set.pc = n.pc /\ set.stopped = n.stopped
      /\ set.mem = n.mem
  <2>1. set = [[n EXCEPT !.f = b.f] EXCEPT !.mask = b.mask]
      OBVIOUS
  <2> HIDE DEF set
  <2> QED
      BY <2>1 DEF Supervises, Stands, IsMachine
<1> HIDE DEF set, high, mode
<1>5. /\ IsMachine(e) /\ e.f = b.f /\ e.mask = b.mask /\ e.s = b.s /\ e.level = 0
      /\ e.pc = n.pc /\ e.stopped = n.stopped /\ e.mem = n.mem
      /\ b.s => e.r = n.r /\ e.bank = n.bank
      /\ ~b.s => e.r = [n.r EXCEPT ![SP] = n.bank] /\ e.bank = n.r[SP]
  <2>1. CASE b.s
      BY <1>1, <1>4, <2>1 DEF SetSFlag
  <2>2. CASE ~b.s
    <3>1. e = [set EXCEPT !.s = b.s, !.r[SP] = set.bank, !.bank = set.r[SP]]
        BY <1>1, <1>4, <2>2 DEF SetSFlag
    <3> HIDE DEF e
    <3> QED
        BY <1>4, <2>2, <3>1 DEF IsMachine
  <2> QED
      BY <2>1, <2>2
<1> HIDE DEF e
<1>6. CheckInterrupts(e) = e
    BY <1>5 DEF CheckInterrupts, Whole
<1> QED
    BY <1>3, <1>5, <1>6 DEF e

(* The handler of an interrupt gives the program back all it had.          *)
LEMMA ReturnsWhole ==
    ASSUME ProgramRuns, TypeOK
    PROVE  InterruptReturns
<1> DEFINE due   == [m EXCEPT !.level = 1]
           woken == [due EXCEPT !.stopped = FALSE]
           exc   == Exception(woken, m.pc, InterruptVector(1))
           taken == [exc EXCEPT !.mask = 1, !.level = 0]
           k     == Pull(taken, "w")
           low   == k.m
           p     == Pull(low, "l")
           high  == p.m
           j     == Jump(high, p.v)
           back  == SetSr(j, k.v)
<1> SUFFICES ASSUME Frame \subseteq Ram
             PROVE  /\ RteOp(ExceptionInterrupt(due)).r = m.r
                    /\ RteOp(ExceptionInterrupt(due)).bank = m.bank
                    /\ RteOp(ExceptionInterrupt(due)).pc = m.pc
                    /\ RteOp(ExceptionInterrupt(due)).f = m.f
                    /\ RteOp(ExceptionInterrupt(due)).s = m.s
                    /\ RteOp(ExceptionInterrupt(due)).mask = m.mask
                    /\ ~RteOp(ExceptionInterrupt(due)).stopped
                    /\ \A a \in Ram \ Frame : RteOp(ExceptionInterrupt(due)).mem[a] = m.mem[a]
    BY DEF InterruptReturns
<1>1. Whole(m) /\ m.pc \in 0..(Limit("l") - 1) /\ IsMachine(m)
    BY TypedIsWhole DEF ProgramRuns
<1>2. PICK base \in Int : /\ SupervisorStack = base + 6
                          /\ base..(base + 5) \subseteq Ram
                          /\ base..(base + 5) = Frame
    BY <1>1, FrameBase DEF Frame, SupervisorStack, StackOfSupervisor
<1>3. /\ IsMachine(woken) /\ woken.r = m.r /\ woken.bank = m.bank /\ woken.f = m.f
      /\ woken.s = m.s /\ woken.mask = m.mask /\ woken.mem = m.mem /\ woken.stopped = FALSE
      /\ due.level = 1 /\ due.pc = m.pc
  <2>1. /\ IsMachine(due) /\ due.r = m.r /\ due.bank = m.bank /\ due.f = m.f
        /\ due.s = m.s /\ due.mask = m.mask /\ due.mem = m.mem
        /\ due.level = 1 /\ due.pc = m.pc
      BY <1>1 DEF IsMachine
  <2> HIDE DEF due
  <2>2. \A v : LET w == [due EXCEPT !.stopped = v]
               IN /\ IsMachine(w) /\ w.r = due.r /\ w.bank = due.bank /\ w.f = due.f
                  /\ w.s = due.s /\ w.mask = due.mask /\ w.mem = due.mem /\ w.stopped = v
      BY <2>1 DEF IsMachine
  <2> QED
      BY <2>1, <2>2
<1>4. ExceptionInterrupt(due) = taken
    BY <1>3 DEF ExceptionInterrupt
<1> HIDE DEF due, woken
<1>5. /\ Whole(woken) /\ StackOfSupervisor(woken) = base + 6 /\ GetSr(woken) = GetSr(m)
    BY <1>1, <1>2, <1>3 DEF Whole, Stands, StackOfSupervisor, SupervisorStack, GetSr
<1>6. Framed(woken, exc, base, m.pc)
    BY <1>1, <1>2, <1>5, ExceptionFrames
<1> HIDE DEF exc
<1>7. /\ Stands(taken) /\ taken.s = TRUE /\ taken.level = 0 /\ taken.stopped = FALSE
      /\ taken.r = exc.r /\ taken.bank = exc.bank /\ taken.mem = exc.mem
  <2>1. taken = [[exc EXCEPT !.mask = 1] EXCEPT !.level = 0]
      OBVIOUS
  <2>2. Stands(exc) /\ exc.s = TRUE /\ exc.stopped = FALSE
      BY <1>3, <1>6 DEF Framed
  <2> HIDE DEF taken
  <2> QED
      BY <2>1, <2>2 DEF Stands, IsMachine
<1> HIDE DEF taken
<1>8. /\ taken.r[SP] = base /\ \A i \in 0..14 : taken.r[i] = m.r[i]
      /\ taken.bank = IF m.s THEN m.bank ELSE m.r[SP]
      /\ Read(taken, base, "w") = GetSr(m) /\ Read(taken, base + 2, "l") = m.pc
      /\ \A a \in Ram \ Frame : taken.mem[a] = m.mem[a]
    BY <1>2, <1>3, <1>5, <1>6, <1>7, SameReads DEF Framed
<1>9. base \in Nat /\ base + 6 < Limit("l") /\ Limit("l") \in Nat
  <2>1. Limit("l") \in Nat
      BY LimitIsPositive DEF OperandSizes
  <2>2. SupervisorStack \in 0..(Limit("l") - 1)
      BY <1>1 DEF Whole, Stands, SupervisorStack, SP
  <2>3. base \in Ram
      BY <1>2
  <2> QED
      BY <1>2, <2>1, <2>2, <2>3, RamIsLow
<1>10. /\ k.v = GetSr(m) /\ Stands(low) /\ low.r[SP] = base + 2
       /\ low = [taken EXCEPT !.r[SP] = base + 2]
  <2>1. base + Bytes("w") < Limit("l") /\ base + Bytes("w") = base + 2
      BY <1>9 DEF Bytes
  <2> QED
      BY <1>7, <1>8, <1>9, <2>1, Pulled
<1> HIDE DEF k, low
<1>11. /\ p.v = Read(low, base + 2, "l") /\ Stands(high)
       /\ high = [low EXCEPT !.r[SP] = base + 6]
  <2> DEFINE c == base + 2
  <2>1. c + Bytes("l") < Limit("l") /\ c + Bytes("l") = base + 6 /\ c \in Nat
      BY <1>9 DEF Bytes
  <2>2. Stands(low) /\ c = low.r[SP]
      BY <1>10
  <2> HIDE DEF c
  <2>3. /\ p.v = Read(low, c, "l") /\ Stands(high)
        /\ high = [low EXCEPT !.r[SP] = c + Bytes("l")]
      BY <2>1, <2>2, Pulled
  <2> QED
      BY <2>1, <2>3 DEF c
<1> HIDE DEF p, high
<1>12. /\ p.v = m.pc /\ high.s = TRUE /\ high.level = 0 /\ high.stopped = FALSE
       /\ high.bank = taken.bank /\ high.mem = taken.mem
       /\ high.r[SP] = base + 6 /\ \A i \in 0..14 : high.r[i] = m.r[i]
  <2>1. SP \in 0..15 /\ \A i \in 0..14 : i # SP /\ i \in 0..15
      BY DEF SP
  <2>2. low.mem = taken.mem
      BY <1>7, <1>10 DEF Stands, IsMachine
  <2>3. p.v = m.pc
      BY <1>8, <1>11, <2>2, SameReads
  <2> QED
      BY <1>7, <1>8, <1>10, <1>11, <2>1, <2>3 DEF Stands, IsMachine
<1>13. /\ Stands(j) /\ j.pc = m.pc /\ j.s = TRUE /\ j.level = 0 /\ j.stopped = FALSE
       /\ j.bank = taken.bank /\ j.mem = taken.mem /\ j.r = high.r
  <2>1. Mask(p.v, "l") = m.pc
      BY <1>1, <1>9, <1>12, BelowIsSame DEF Mask
  <2>2. j = [high EXCEPT !.pc = m.pc]
      BY <1>12, <2>1 DEF Jump
  <2> HIDE DEF j
  <2> QED
      BY <1>11, <1>12, <2>2 DEF Stands, IsMachine
<1> HIDE DEF j
<1>14. /\ back.f = m.f /\ back.mask = m.mask /\ back.s = m.s /\ back.pc = m.pc
       /\ back.stopped = FALSE /\ back.mem = taken.mem
       /\ m.s => back.r = j.r /\ back.bank = j.bank
       /\ ~m.s => back.r = [j.r EXCEPT ![SP] = j.bank] /\ back.bank = j.r[SP]
  <2>1. back = SetSr(j, GetSr(m))
      BY <1>10
  <2> HIDE DEF back
  <2>2. Whole(m) /\ Supervises(j)
      BY <1>1, <1>13 DEF Supervises
  <2>3. /\ back.f = m.f /\ back.mask = m.mask /\ back.s = m.s
        /\ back.pc = j.pc /\ back.stopped = j.stopped /\ back.mem = j.mem
        /\ m.s => back.r = j.r /\ back.bank = j.bank
        /\ ~m.s => back.r = [j.r EXCEPT ![SP] = j.bank] /\ back.bank = j.r[SP]
      BY <2>1, <2>2, StatusReturns
  <2> QED
      BY <1>13, <2>3
<1>15. RteOp(taken) = back
    BY <1>7 DEF RteOp, back, j, p, k, low, high
<1> HIDE DEF back
<1>16. back.r = m.r /\ back.bank = m.bank
  <2>1. /\ j.r \in [0..15 -> 0..(Limit("l") - 1)] /\ m.r \in [0..15 -> 0..(Limit("l") - 1)]
        /\ SP = 15 /\ \A i \in 0..15 : i \in 0..14 \/ i = 15
      BY <1>1, <1>13 DEF Whole, Stands, SP
  <2>2. CASE m.s
    <3>1. \A i \in 0..15 : j.r[i] = m.r[i]
        BY <1>2, <1>12, <1>13, <2>1, <2>2 DEF SupervisorStack
    <3>2. j.r = m.r
        BY <2>1, <3>1
    <3> QED
        BY <1>8, <1>13, <1>14, <2>2, <3>2
  <2>3. CASE ~m.s
    <3> DEFINE q == [j.r EXCEPT ![SP] = j.bank]
    <3>1. q \in [0..15 -> 0..(Limit("l") - 1)] /\ \A i \in 0..15 : q[i] = m.r[i]
        BY <1>8, <1>12, <1>13, <2>1, <2>3
    <3>2. q = m.r
        BY <2>1, <3>1
    <3> QED
        BY <1>2, <1>12, <1>13, <1>14, <2>3, <3>2 DEF SupervisorStack
  <2> QED
      BY <2>2, <2>3
<1> QED
    BY <1>4, <1>8, <1>14, <1>15, <1>16

(* An interrupt between any two instructions of any program is invisible   *)
(* to it, if the stack has room for its frame.                             *)
THEOREM InterruptsReturn == Spec /\ []TypeOK => []InterruptReturns
<1>1. ProgramRuns /\ TypeOK => InterruptReturns
    BY ReturnsWhole
<1> QED
    BY <1>1, ProgramRunsAlways, PTL
=============================================================================
