----------------------------- MODULE Addressing -----------------------------
(***************************************************************************)
(* Registers, memory accesses, effective addresses, the stack and the      *)
(* exceptions of the 68000, as the instruction handlers of Musashi use     *)
(* them (m68kcpu.h). A machine is a record and a function of Musashi an    *)
(* operator from a machine to a machine; one that returns a value besides  *)
(* gives [v, m].                                                           *)
(*                                                                         *)
(* A byte has ByteBits bits, 8 in the code, a word two bytes and a long    *)
(* four. An instruction is a record, REG_IR with its operands decoded: see *)
(* Instr. The words that follow it in the program are its "ext". What is   *)
(* read and written here is ram: Bus has the regions and devices.          *)
(***************************************************************************)
EXTENDS Alu, Sequences

CONSTANTS ByteBits,      \* bits of a byte
          AddressSpace,  \* what CPU_ADDRESS_MASK leaves: 2^24 in the code
          Ram,           \* the addresses that programs use as ram
          VectorTable    \* the entry of the handler of each exception

Bytes(sz) == CASE sz = "b" -> 1 [] sz = "w" -> 2 [] sz = "l" -> 4
Width(sz) == Bytes(sz) * ByteBits

(* How many values a byte has, and an operand of each size.                *)
ByteLimit == 2^ByteBits
Limit(sz) ==
    CASE sz = "b" -> ByteLimit
      [] sz = "w" -> ByteLimit * ByteLimit
      [] sz = "l" -> (ByteLimit * ByteLimit) * (ByteLimit * ByteLimit)
Half(sz)  == Limit(sz) \div 2

(* The upper byte of the status register has the S bit, of weight 32; a    *)
(* byte has 2^ByteBits values.                                             *)
ASSUME AddressingAssumption ==
    /\ ByteBits \in Nat \ {0} /\ AddressSpace \in Nat \ {0}
    /\ ByteLimit \in Nat \ {0} /\ ByteLimit % 64 = 0
    /\ Ram \subseteq 0..(AddressSpace - 1)

ASSUME VectorAssumption == VectorTable \in [0..255 -> 0..(Limit("l") - 1)]

(* MASK_OUT_ABOVE_8 and its likes, MAKE_INT_8 and its likes.               *)
Mask(a, sz)    == a % Limit(sz)
MakeInt(a, sz) == IF Mask(a, sz) >= Half(sz) THEN Mask(a, sz) - Limit(sz) ELSE Mask(a, sz)

(* An instruction: its name, size, the addressing mode and register of the *)
(* field in the low bits (YYY), the register of the high field (XXX) and,  *)
(* for a move, its mode; a small number or a condition in the opcode; the  *)
(* form of an instruction that has several, and the words that follow.     *)
Instr(op, sz, mode, y, x, ext) ==
    [op |-> op, sz |-> sz, mode |-> mode, y |-> y, x |-> x, xmode |-> "d",
     n |-> 0, cc |-> "t", form |-> "r", ext |-> ext]

(* dar[16] holds d0-d7 and a0-a7; "bank" is the stack pointer of the mode  *)
(* that is not active, "level" the interrupt requested.                     *)
Machines ==
    [r : [0..15 -> 0..(Limit("l") - 1)], bank : 0..(Limit("l") - 1),
     pc : 0..(Limit("l") - 1), ppc : 0..(Limit("l") - 1),
     f : Flags, s : BOOLEAN, mask : 0..7, level : 0..7, stopped : BOOLEAN,
     mem : [Ram -> 0..(Limit("b") - 1)]]

A(n) == 8 + n     \* REG_A
SP   == 15        \* REG_SP

(* A result smaller than the data register it goes to leaves the rest.     *)
SetD(m, n, sz, v) == [m EXCEPT !.r[n] = (@ - Mask(@, sz)) + v]

SetRUnmasked(m, k, v) == [m EXCEPT !.r[k] = v]

SetR(m, k, v) == [m EXCEPT !.r[k] = Mask(v, "l")]

-----------------------------------------------------------------------------
(* m68ki_read_8, _16, _32 and m68ki_write_8, _16, _32.                     *)
ByteAt(m, ea) == m.mem[ea % AddressSpace]

Read16(m, ea) == ByteAt(m, ea) * Limit("b") + ByteAt(m, ea + 1)

Read(m, ea, sz) ==
    CASE sz = "b" -> ByteAt(m, ea)
      [] sz = "w" -> Read16(m, ea)
      [] sz = "l" -> Read16(m, ea) * Limit("w") + Read16(m, ea + 2)

Write8(m, ea, v)  == [m EXCEPT !.mem[ea % AddressSpace] = v % Limit("b")]
Write16(m, ea, v) == Write8(Write8(m, ea, v \div Limit("b")), ea + 1, v)
Write32(m, ea, v) == Write16(Write16(m, ea, v \div Limit("w")), ea + 2, v)

(* A long that goes to -(An): two words, the low one first.                *)
Write32Pd(m, ea, v) == Write16(Write16(m, ea + 2, v), ea, v \div Limit("w"))

Write(m, ea, sz, v) ==
    CASE sz = "b" -> Write8(m, ea, v)
      [] sz = "w" -> Write16(m, ea, v)
      [] sz = "l" -> Write32(m, ea, v)

(* m68ki_read_imm_16, _8 and _32: the words after the opcode.              *)
ReadImm16(m) ==
    [v |-> m.ir.ext[(m.pc - m.ppc) \div 2], m |-> [m EXCEPT !.pc = @ + 2]]

Joined(hi, lo) == [v |-> hi.v * Limit("w") + lo.v, m |-> lo.m]

ReadImm32(m) == LET hi == ReadImm16(m) IN Joined(hi, ReadImm16(hi.m))

ReadImm(m, sz) ==
    LET w == ReadImm16(m)
    IN CASE sz = "b" -> [v |-> Mask(w.v, "b"), m |-> w.m]
         [] sz = "w" -> w
         [] sz = "l" -> ReadImm32(m)

-----------------------------------------------------------------------------
(* Effective addresses. A byte moved through a7 moves it by two.           *)
StepOfPlain(n, sz) == Bytes(sz)

StepOf(n, sz) == IF sz = "b" /\ n = 7 THEN 2 ELSE Bytes(sz)

EaPi(m, n, sz) == [v |-> m.r[A(n)], m |-> SetR(m, A(n), m.r[A(n)] + StepOf(n, sz))]

EaPd(m, n, sz) ==
    LET ea == Mask(m.r[A(n)] - StepOf(n, sz), "l") IN [v |-> ea, m |-> SetR(m, A(n), ea)]

(* A base and a signed word: (d16,An), (d16,PC).                           *)
Displaced(w, base) == [v |-> Mask(base + MakeInt(w.v, "w"), "l"), m |-> w.m]

EaDi(m, base) == Displaced(ReadImm16(m), base)

(* m68ki_get_ea_ix as the 68000 has it. An extension word is               *)
(* [xn |-> register, long |-> W/L, disp |-> displacement].                 *)
IndexUnsigned(r, w) == IF w.v.long THEN r[w.v.xn] ELSE Mask(r[w.v.xn], "w")

Index(r, w) == IF w.v.long THEN r[w.v.xn] ELSE MakeInt(r[w.v.xn], "w")

Indexed(r, w, base) ==
    [v |-> Mask(base + Index(r, w) + MakeInt(w.v.disp, "b"), "l"), m |-> w.m]

EaIx(m, base) == Indexed(m.r, ReadImm16(m), base)

(* The base of the modes relative to the pc is the address of the          *)
(* extension word.                                                         *)
MemoryModes == {"ai", "pi", "pd", "di", "ix", "aw", "al", "pcdi", "pcix"}

Ea(m, mode, n, sz) ==
    CASE mode = "ai"   -> [v |-> m.r[A(n)], m |-> m]
      [] mode = "pi"   -> EaPi(m, n, sz)
      [] mode = "pd"   -> EaPd(m, n, sz)
      [] mode = "di"   -> EaDi(m, m.r[A(n)])
      [] mode = "ix"   -> EaIx(m, m.r[A(n)])
      [] mode = "aw"   -> EaDi(m, 0)
      [] mode = "al"   -> ReadImm32(m)
      [] mode = "pcdi" -> EaDi(m, m.pc)
      [] mode = "pcix" -> EaIx(m, m.pc)

(* OPER_AY_AI_8 and its likes, OPER_I_8, and the registers.                *)
At(e, sz) == [v |-> Read(e.m, e.v, sz), m |-> e.m]

Operand(m, mode, n, sz) ==
    CASE mode = "d" -> [v |-> Mask(m.r[n], sz), m |-> m]
      [] mode = "a" -> [v |-> Mask(m.r[A(n)], sz), m |-> m]
      [] mode = "i" -> ReadImm(m, sz)
      [] OTHER -> At(Ea(m, mode, n, sz), sz)

-----------------------------------------------------------------------------
(* The stack and the program flow.                                         *)
Push(m, sz, v) ==
    LET sp == Mask(m.r[SP] - Bytes(sz), "l") IN Write(SetR(m, SP, sp), sp, sz, v)

Pull(m, sz) == [v |-> Read(m, m.r[SP], sz), m |-> SetR(m, SP, m.r[SP] + Bytes(sz))]

Jump(m, pc) == [m EXCEPT !.pc = Mask(pc, "l")]

Branch(m, offset) == Jump(m, m.pc + offset)

(* The status register in a word: ccr below, mask and S above.             *)
GetSr(m) == GetCcr(m.f) + Limit("b") * (m.mask + 32 * Bit(m.s))

(* m68ki_set_s_flag: switch to the stack of the other mode.                *)
SetSFlag(m, s) ==
    IF s = m.s THEN m
               ELSE [m EXCEPT !.s = s, !.r[SP] = m.bank, !.bank = m.r[SP]]

(* EXCEPTION_ILLEGAL_INSTRUCTION and its likes.                            *)
Vector ==
    [illegal |-> 4, zero_divide |-> 5, chk |-> 6, trapv |-> 7, privilege |-> 8,
     line1010 |-> 10, line1111 |-> 11, uninitialized |-> 15, autovector |-> 24, trap |-> 32]

(* m68ki_init_exception, m68ki_stack_frame_3word, m68ki_jump_vector.       *)
Exception(m, pc, vector) ==
    Jump(Push(Push(SetSFlag(m, TRUE), "l", pc), "w", GetSr(m)), VectorTable[vector])

(* m68ki_exception_trap and _trapN return after the instruction, the ones  *)
(* for what the cpu refuses to execute return to it.                       *)
ExceptionTrap(m, vector) == Exception(m, m.pc, vector)

ExceptionPrivilegePast(m) == Exception(m, m.pc, Vector.privilege)

ExceptionPrivilege(m) == Exception(m, m.ppc, Vector.privilege)

ExceptionIllegal(m) == Exception(m, m.ppc, Vector.illegal)

Exception1010(m) == Exception(m, m.ppc, Vector.line1010)

Exception1111(m) == Exception(m, m.ppc, Vector.line1111)

(* A level with no handler has that of the uninitialized interrupts.       *)
InterruptVector(level) ==
    LET v == Vector.autovector + level IN IF VectorTable[v] = 0 THEN Vector.uninitialized ELSE v

(* m68ki_exception_interrupt and m68ki_check_interrupts.                   *)
ExceptionInterruptAsleep(m) ==
    [Exception(m, m.pc, InterruptVector(m.level)) EXCEPT !.mask = m.level, !.level = 0]

ExceptionInterrupt(m) ==
    [Exception([m EXCEPT !.stopped = FALSE], m.pc, InterruptVector(m.level))
        EXCEPT !.mask = m.level, !.level = 0]

CheckInterrupts(m) == IF m.level > m.mask THEN ExceptionInterrupt(m) ELSE m

(* m68ki_set_sr, without the trace bits: tracing is off in m68kconf.h.     *)
SetSr(m, sr) ==
    LET high == sr \div Limit("b")
        set  == SetSFlag([m EXCEPT !.f = Ccr(sr), !.mask = high % 8], (high \div 32) % 2 = 1)
    IN CheckInterrupts(set)
=============================================================================
