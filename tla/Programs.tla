------------------------------ MODULE Programs ------------------------------
(***************************************************************************)
(* The cpu of Musashi running programs of its guest, instruction by        *)
(* instruction (m68k_execute, m68kcpu.c 943), with a timer interrupt of    *)
(* level 1 between any two of them. A program has code, the address where  *)
(* it ends, which is a branch to itself, and cases: the registers and the  *)
(* memory to start with and what both hold at the end, worked out in       *)
(* advance from what the program is for. The code includes the handlers    *)
(* that VectorTable names.                                                 *)
(*                                                                         *)
(* The handlers of the opcodes are in Instructions; here they are sorted   *)
(* by what they do, each sort an action.                                   *)
(***************************************************************************)
EXTENDS Instructions

CONSTANTS Library,   \* the programs: [code, exit, cases]
          MaxTicks   \* bound: the interrupts in a run of a program

(* What the opcode table (m68k_in.c 386-899) has encodings for: some       *)
(* instructions take an address, some an operand that can be altered, and  *)
(* the number of a trap has four bits.                                     *)
AddressOps == {"lea", "pea", "jmp", "jsr", "movem_re", "movem_er"}

AlterOps ==
    ShiftNames \cup
    {"add_re", "addi", "addx", "sub_re", "subi", "subx", "neg", "negx", "abcd", "sbcd", "nbcd",
     "and_re", "andi", "or_re", "ori", "eor", "eori", "not", "bchg", "bclr", "bset", "tas",
     "clr", "scc", "move_frs"}

Encoded(i) ==
    /\ i.sz \in {"b", "w", "l"}
    /\ i.mode \in MemoryModes \cup {"d", "a", "i"} /\ i.xmode \in MemoryModes \cup {"d"}
    /\ i.op \in AddressOps => i.mode \in MemoryModes
    /\ i.op \in AlterOps => i.mode \in MemoryModes \cup {"d"}
    /\ i.op \in {"addq", "subq"} => i.mode # "i"
    /\ i.op = "trap" => i.n \in 0..15

ASSUME LibraryAssumption ==
    \A p \in Library : \A a \in DOMAIN p.code : Encoded(p.code[a])

VARIABLES prog,   \* the program that runs: [code, exit]
          want,   \* what it shall leave: [r, mem], functions on some places
          ticks,  \* the interrupts so far
          m       \* the cpu and its memory

vars == <<prog, want, ticks, m>>

(* The instruction that the loop of m68k_execute runs next.                *)
Fetched == prog.code[m.pc]

Ended == m.pc = prog.exit

Init ==
    \E p \in Library : \E c \in p.cases :
        /\ prog = [code |-> p.code, exit |-> p.exit]
        /\ want = c.want
        /\ ticks = 0
        /\ m = [r |-> c.r, bank |-> c.bank, pc |-> 0, ppc |-> 0, s |-> c.s,
                f |-> Ccr(0), mask |-> 0, level |-> 0, stopped |-> FALSE,
                mem |-> c.mem, ir |-> p.code[0]]

(* REG_PPC = REG_PC; REG_IR = m68ki_read_imm_16().                         *)
Fetch == [m EXCEPT !.ppc = m.pc, !.ir = Fetched, !.pc = @ + 2]

(* One instruction of the loop in m68k_execute.                            *)
Executes(ops) == ~m.stopped /\ m.pc \in DOMAIN prog.code /\ Fetched.op \in ops

-----------------------------------------------------------------------------
SumOps == {"add_er", "add_re", "addi", "adda", "addx", "addq"}

SumHandler(t) ==
    CASE t.ir.op = "add_er" -> AddErOp(t) [] t.ir.op = "add_re" -> AddReOp(t)
      [] t.ir.op = "addi"   -> AddiOp(t)  [] t.ir.op = "adda"   -> AddaOp(t)
      [] t.ir.op = "addx"   -> AddxOp(t)  [] t.ir.op = "addq"   -> AddqOp(t)

DifferenceOps == {"sub_er", "sub_re", "subi", "suba", "subx", "subq", "neg", "negx"}

DifferenceHandler(t) ==
    CASE t.ir.op = "sub_er" -> SubErOp(t) [] t.ir.op = "sub_re" -> SubReOp(t)
      [] t.ir.op = "subi"   -> SubiOp(t)  [] t.ir.op = "suba"   -> SubaOp(t)
      [] t.ir.op = "subx"   -> SubxOp(t)  [] t.ir.op = "subq"   -> SubqOp(t)
      [] t.ir.op = "neg"    -> NegOp(t)   [] t.ir.op = "negx"   -> NegxOp(t)

CompareOps == {"cmp", "cmpa", "cmpi", "cmpm", "tst", "btst"}

CompareHandler(t) ==
    CASE t.ir.op = "cmp"  -> CmpOp(t)  [] t.ir.op = "cmpa" -> CmpaOp(t)
      [] t.ir.op = "cmpi" -> CmpiOp(t) [] t.ir.op = "cmpm" -> CmpmOp(t)
      [] t.ir.op = "tst"  -> TstOp(t)  [] t.ir.op = "btst" -> BtstOp(t)

DecimalOps == {"abcd", "sbcd", "nbcd"}

DecimalHandler(t) ==
    CASE t.ir.op = "abcd" -> AbcdOp(t) [] t.ir.op = "sbcd" -> SbcdOp(t)
      [] t.ir.op = "nbcd" -> NbcdOp(t)

LogicOps == {"and_er", "and_re", "andi", "or_er", "or_re", "ori", "eor", "eori", "not",
             "bchg", "bclr", "bset", "tas"}

LogicHandler(t) ==
    CASE t.ir.op = "and_er" -> AndErOp(t) [] t.ir.op = "and_re" -> AndReOp(t)
      [] t.ir.op = "andi"   -> AndiOp(t)  [] t.ir.op = "or_er"  -> OrErOp(t)
      [] t.ir.op = "or_re"  -> OrReOp(t)  [] t.ir.op = "ori"    -> OriOp(t)
      [] t.ir.op = "eor"    -> EorOp(t)   [] t.ir.op = "eori"   -> EoriOp(t)
      [] t.ir.op = "not"    -> NotOp(t)   [] t.ir.op = "bchg"   -> BchgOp(t)
      [] t.ir.op = "bclr"   -> BclrOp(t)  [] t.ir.op = "bset"   -> BsetOp(t)
      [] t.ir.op = "tas"    -> TasOp(t)

MoveOps == {"move8", "move16", "move32", "movea", "moveq", "clr", "ext", "swap", "exg", "scc",
            "move_toc", "move_frs"}

MoveHandler(t) ==
    CASE t.ir.op = "move8"  -> Move8Op(t)  [] t.ir.op = "move16" -> Move16Op(t)
      [] t.ir.op = "move32" -> Move32Op(t) [] t.ir.op = "movea"  -> MoveaOp(t)
      [] t.ir.op = "moveq"  -> MoveqOp(t)  [] t.ir.op = "clr"    -> ClrOp(t)
      [] t.ir.op = "ext"    -> ExtOp(t)    [] t.ir.op = "swap"   -> SwapOp(t)
      [] t.ir.op = "exg"    -> ExgOp(t)    [] t.ir.op = "scc"    -> SccOp(t)
      [] t.ir.op = "move_toc" -> MoveTocOp(t) [] t.ir.op = "move_frs" -> MoveFrsOp(t)

BlockOps == {"movem_re_pd", "movem_re", "movem_er_pi", "movem_er", "movep_re", "movep_er",
             "move16_line"}

BlockHandler(t) ==
    CASE t.ir.op = "movem_re_pd" -> MovemRePd(t) [] t.ir.op = "movem_re" -> MovemReOp(t)
      [] t.ir.op = "movem_er_pi" -> MovemErPi(t) [] t.ir.op = "movem_er" -> MovemErOp(t)
      [] t.ir.op = "movep_re"    -> MovepReOp(t) [] t.ir.op = "movep_er" -> MovepErOp(t)
      [] t.ir.op = "move16_line" -> Move16LineOp(t)

StackOps == {"lea", "pea", "link", "link_a7", "unlk", "unlk_a7", "jmp", "jsr", "rts", "rtr"}

StackHandler(t) ==
    CASE t.ir.op = "lea"  -> LeaOp(t)  [] t.ir.op = "pea"     -> PeaOp(t)
      [] t.ir.op = "link" -> LinkOp(t) [] t.ir.op = "link_a7" -> LinkA7(t)
      [] t.ir.op = "unlk" -> UnlkOp(t) [] t.ir.op = "unlk_a7" -> UnlkA7(t)
      [] t.ir.op = "jmp"  -> JmpOp(t)  [] t.ir.op = "jsr"     -> JsrOp(t)
      [] t.ir.op = "rts"  -> RtsOp(t)  [] t.ir.op = "rtr"     -> RtrOp(t)

BranchOps == {"bra", "bsr", "bcc", "dbt", "dbf", "dbcc", "nop"}

BranchHandler(t) ==
    CASE t.ir.op = "bra"  -> BraOp(t)  [] t.ir.op = "bsr" -> BsrOp(t)
      [] t.ir.op = "bcc"  -> BccOp(t)  [] t.ir.op = "dbt" -> DbtOp(t)
      [] t.ir.op = "dbf"  -> DbfOp(t)  [] t.ir.op = "dbcc" -> DbccOp(t)
      [] t.ir.op = "nop"  -> NopOp(t)

ProductOps == {"mulu", "muls", "divu", "divs"}

ProductHandler(t) ==
    CASE t.ir.op = "mulu" -> MuluOp(t) [] t.ir.op = "muls" -> MulsOp(t)
      [] t.ir.op = "divu" -> DivuOp(t) [] t.ir.op = "divs" -> DivsOp(t)

TrapOps == {"trap", "trapv", "chk", "illegal", "line1010", "line1111"}

LaterOps == {"bfchg", "bfclr", "bfexts", "bfextu", "bfffo", "bfins", "bfset", "bftst",
             "bkpt", "callm", "cas", "cas2", "chk32", "chk2cmp2", "divl", "extb", "link32",
             "move_frc", "movec_cr", "movec_rc", "moves", "mull", "pack", "rtd", "rtm",
             "trapt", "trapf", "trapcc", "unpk", "cp", "040fpu", "pmmu"}

LaterHandler(t) ==
    CASE t.ir.op = "bfchg"    -> BfchgOp(t)    [] t.ir.op = "bfclr"    -> BfclrOp(t)
      [] t.ir.op = "bfexts"   -> BfextsOp(t)   [] t.ir.op = "bfextu"   -> BfextuOp(t)
      [] t.ir.op = "bfffo"    -> BfffoOp(t)    [] t.ir.op = "bfins"    -> BfinsOp(t)
      [] t.ir.op = "bfset"    -> BfsetOp(t)    [] t.ir.op = "bftst"    -> BftstOp(t)
      [] t.ir.op = "bkpt"     -> BkptOp(t)     [] t.ir.op = "callm"    -> CallmOp(t)
      [] t.ir.op = "cas"      -> CasOp(t)      [] t.ir.op = "cas2"     -> Cas2Op(t)
      [] t.ir.op = "chk32"    -> Chk32Op(t)    [] t.ir.op = "chk2cmp2" -> Chk2cmp2Op(t)
      [] t.ir.op = "divl"     -> DivlOp(t)     [] t.ir.op = "extb"     -> ExtbOp(t)
      [] t.ir.op = "link32"   -> Link32Op(t)   [] t.ir.op = "move_frc" -> MoveFrcOp(t)
      [] t.ir.op = "movec_cr" -> MovecCrOp(t)  [] t.ir.op = "movec_rc" -> MovecRcOp(t)
      [] t.ir.op = "moves"    -> MovesOp(t)    [] t.ir.op = "mull"     -> MullOp(t)
      [] t.ir.op = "pack"     -> PackOp(t)     [] t.ir.op = "rtd"      -> RtdOp(t)
      [] t.ir.op = "rtm"      -> RtmOp(t)      [] t.ir.op = "trapt"    -> TraptOp(t)
      [] t.ir.op = "trapf"    -> TrapfOp(t)    [] t.ir.op = "trapcc"   -> TrapccOp(t)
      [] t.ir.op = "unpk"     -> UnpkOp(t)     [] t.ir.op = "cp"       -> CpOp(t)
      [] t.ir.op = "040fpu"   -> Fpu040Op(t)   [] t.ir.op = "pmmu"     -> PmmuOp(t)

TrapHandler(t) ==
    CASE t.ir.op = "trap"     -> TrapOp(t)        [] t.ir.op = "trapv"    -> TrapvOp(t)
      [] t.ir.op = "chk"      -> ChkOp(t)         [] t.ir.op = "illegal"  -> IllegalOp(t)
      [] t.ir.op = "line1010" -> Exception1010(t) [] t.ir.op = "line1111" -> Exception1111(t)

(* The privileged instructions, and those of ccr that they resemble.       *)
PrivilegedOps == {"andi_tos", "ori_tos", "eori_tos", "move_tos", "move_fru", "move_tou",
                  "rte", "stop", "reset"}

CcrOps == {"andi_toc", "ori_toc", "eori_toc"}

SystemHandler(t) ==
    CASE t.ir.op = "andi_tos" -> AndiTosOp(t) [] t.ir.op = "andi_toc" -> AndiTocOp(t)
      [] t.ir.op = "ori_tos"  -> OriTosOp(t)  [] t.ir.op = "ori_toc"  -> OriTocOp(t)
      [] t.ir.op = "eori_tos" -> EoriTosOp(t) [] t.ir.op = "eori_toc" -> EoriTocOp(t)
      [] t.ir.op = "move_tos" -> MoveTosOp(t) [] t.ir.op = "move_fru" -> MoveFruOp(t)
      [] t.ir.op = "move_tou" -> MoveTouOp(t) [] t.ir.op = "rte"      -> RteOp(t)
      [] t.ir.op = "stop"     -> StopOp(t)    [] t.ir.op = "reset"    -> ResetOp(t)

-----------------------------------------------------------------------------
Sum ==
    /\ Executes(SumOps)
    /\ m' = SumHandler(Fetch)
    /\ UNCHANGED <<prog, want, ticks>>

Difference ==
    /\ Executes(DifferenceOps)
    /\ m' = DifferenceHandler(Fetch)
    /\ UNCHANGED <<prog, want, ticks>>

Compare ==
    /\ Executes(CompareOps)
    /\ m' = CompareHandler(Fetch)
    /\ UNCHANGED <<prog, want, ticks>>

Decimal ==
    /\ Executes(DecimalOps)
    /\ m' = DecimalHandler(Fetch)
    /\ UNCHANGED <<prog, want, ticks>>

Logic ==
    /\ Executes(LogicOps)
    /\ m' = LogicHandler(Fetch)
    /\ UNCHANGED <<prog, want, ticks>>

ShiftBits ==
    /\ Executes(ShiftNames)
    /\ m' = ShiftOp(Fetch)
    /\ UNCHANGED <<prog, want, ticks>>

Move ==
    /\ Executes(MoveOps)
    /\ m' = MoveHandler(Fetch)
    /\ UNCHANGED <<prog, want, ticks>>

MoveBlock ==
    /\ Executes(BlockOps)
    /\ m' = BlockHandler(Fetch)
    /\ UNCHANGED <<prog, want, ticks>>

Stack ==
    /\ Executes(StackOps)
    /\ m' = StackHandler(Fetch)
    /\ UNCHANGED <<prog, want, ticks>>

Flow ==
    /\ Executes(BranchOps)
    /\ m' = BranchHandler(Fetch)
    /\ UNCHANGED <<prog, want, ticks>>

Product ==
    /\ Executes(ProductOps)
    /\ m' = ProductHandler(Fetch)
    /\ UNCHANGED <<prog, want, ticks>>

Refuse ==
    /\ Executes(TrapOps)
    /\ m' = TrapHandler(Fetch)
    /\ UNCHANGED <<prog, want, ticks>>

RefuseLater ==
    /\ Executes(LaterOps)
    /\ m' = LaterHandler(Fetch)
    /\ UNCHANGED <<prog, want, ticks>>

System ==
    /\ Executes(PrivilegedOps \cup CcrOps)
    /\ m' = SystemHandler(Fetch)
    /\ UNCHANGED <<prog, want, ticks>>

Step ==
    \/ Sum \/ Difference \/ Compare \/ Decimal \/ Logic \/ ShiftBits \/ Move
    \/ MoveBlock \/ Stack \/ Flow \/ Product \/ Refuse
    \/ RefuseLater \/ System

(* A slice ends with m68k_set_irq(1) and the next one begins with          *)
(* m68ki_check_interrupts. A program that stops the cpu waits for it.      *)
Tick ==
    /\ m.stopped \/ (m.level = 0 /\ ticks < MaxTicks)
    /\ m' = CheckInterrupts([m EXCEPT !.level = 1])
    /\ ticks' = ticks + (IF m.stopped THEN 0 ELSE 1)
    /\ UNCHANGED <<prog, want>>

Next == Step \/ Tick

(* Weak fairness of Step and Tick, written out: the cpu goes on executing  *)
(* until it is stopped, or at the end, where a branch to itself changes    *)
(* nothing; and the tick that a stopped cpu waits for comes. The state     *)
(* predicates stand for ENABLED of the two, and steps are told apart by    *)
(* what only they do, which spares TLC the evaluation of the handlers.     *)
StepTaken == ~m.stopped /\ ticks' = ticks
TickTaken == m.stopped \/ ticks' # ticks

Fairness ==
    /\ []<>(m.stopped \/ Ended) \/ []<><<StepTaken>>_vars
    /\ []<>(~m.stopped \/ m.level # 0) \/ []<><<TickTaken>>_vars

Spec == Init /\ [][Next]_vars /\ Fairness

-----------------------------------------------------------------------------
(* The cpu and the memory hold values of their widths.                     *)
TypeOK ==
    /\ m.pc \in DOMAIN prog.code
    /\ ticks \in 0..MaxTicks
    /\ [k \in DOMAIN m \ {"ir"} |-> m[k]] \in Machines

(* Wherever the interrupts fall between the instructions, a program leaves *)
(* in registers and memory what it was written to leave: the flags that an *)
(* instruction gives are those the next one takes, addresses come out the  *)
(* same in every mode, the order of operands, words and registers is the   *)
(* processor's, and the upper part of a register survives smaller writes.  *)
ResultAsSpecified ==
    Ended =>
        /\ \A k \in DOMAIN want.r : m.r[k] = want.r[k]
        /\ \A a \in DOMAIN want.mem : m.mem[a] = want.mem[a]

(* Both stack pointers stay even, so that an interrupt can push its words  *)
(* at any time: a byte on the stack takes two.                             *)
StackAligned == m.r[SP] % 2 = 0 /\ m.bank % 2 = 0

(* A user program gets to supervisor mode only by way of a vector; until   *)
(* then it changes neither the interrupt mask nor the supervisor's stack   *)
(* pointer, and does not stop the cpu, nor start one that was stopped with *)
(* S clear in the operand of stop.                                         *)
UserKeepsOut ==
    [][~m.s => \/ m'.s /\ \E v \in DOMAIN VectorTable : m'.pc = VectorTable[v]
               \/ /\ ~m'.s /\ m'.stopped = m.stopped
                  /\ m'.mask = m.mask /\ m'.bank = m.bank]_vars

(* An exception pushes a frame of three words on the supervisor's stack.   *)
SupervisorStack == IF m.s THEN m.r[SP] ELSE m.bank
Frame == (SupervisorStack - 6)..(SupervisorStack - 1)

(* What the cpu refuses to execute can be inspected and done in its place  *)
(* by the handler, if the stack has room: the frame holds the address of   *)
(* the instruction and the status register, and registers and memory are   *)
(* as they were before it, the frame excepted.                             *)
RefusedOps ==
    {"illegal", "line1010", "line1111"} \cup LaterOps \cup (IF m.s THEN {} ELSE PrivilegedOps)

RefusedIsWhole ==
    [][StepTaken /\ Fetched.op \in RefusedOps /\ Frame \subseteq Ram =>
        /\ Read(m', m'.r[SP] + 2, "l") = m.pc
        /\ Read(m', m'.r[SP], "w") = GetSr(m)
        /\ m'.r[SP] = SupervisorStack - 6
        /\ \A k \in 0..14 : m'.r[k] = m.r[k]
        /\ \A a \in Ram \ Frame : m'.mem[a] = m.mem[a]]_vars

(* Wherever an interrupt would come, the rte of its handler gives back the *)
(* program's registers, both stack pointers, condition codes, mask and     *)
(* mode, and the cpu goes on where it was, if the stack has room.          *)
InterruptReturns ==
    LET taken == ExceptionInterrupt([m EXCEPT !.level = 1])
        back  == RteOp(taken)
    IN Frame \subseteq Ram =>
          /\ back.r = m.r /\ back.bank = m.bank /\ back.pc = m.pc
          /\ back.f = m.f /\ back.s = m.s /\ back.mask = m.mask /\ ~back.stopped
          /\ \A a \in Ram \ Frame : back.mem[a] = m.mem[a]

(* Every program comes to its end, interrupted up to MaxTicks times or     *)
(* not: loops count down to it, calls return, and a stopped cpu is woken   *)
(* by the timer, whose ticks for that are not counted.                     *)
Terminates == <>Ended
=============================================================================
