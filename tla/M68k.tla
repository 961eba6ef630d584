-------------------------------- MODULE M68k --------------------------------
(***************************************************************************)
(* Interrupts, exceptions and the status register of the 68000 as Musashi  *)
(* emulates it for kyacopycat (Musashi/m68kcpu.h, m68kcpu.c, m68kconf.h    *)
(* with every M68K_EMULATE_ option that matters here off).                 *)
(*                                                                         *)
(* A cpu is a record; the functions of Musashi are operators from a cpu to *)
(* a cpu, composed as the code composes the calls.  A stack pointer stands *)
(* for what it points at: the supervisor stack is the sequence of the      *)
(* exception frames on it, the user stack is any value of UserStacks.      *)
(*                                                                         *)
(* A definition that stands just before another and bears a longer form of *)
(* its name is a mutant of it: a mistake the code could have contained.    *)
(***************************************************************************)
EXTENDS Naturals, Sequences

CONSTANTS Code,        \* addresses of instructions
          UserStacks,  \* values of the user stack pointer
          Vector       \* the exception vectors: entry addresses in Code

Levels   == 0..7
Vectors  == {"reset", "level1", "nmi", "privilege", "trap"}

ASSUME CodeAssumption == Vector \in [Vectors -> Code]

(* The part of the status register that the exceptions depend on: the S    *)
(* flag and the interrupt mask.                                            *)
StatusWords == [s : BOOLEAN, mask : Levels]
Frames      == [pc : Code, sr : StatusWords]

Stacks(s) == IF s THEN Seq(Frames) ELSE UserStacks

(* The cpu state.  Two fields are history: "acks" counts the interrupts of *)
(* level 1 acknowledged since m68k_set_irq last requested one, "nmis" the  *)
(* NMIs served.                                                            *)
Cpus ==
    [pc          : Code,
     s           : BOOLEAN,             \* FLAG_S
     mask        : Levels,              \* FLAG_INT_MASK >> 8
     sp          : Seq(Frames) \cup UserStacks,
     sp_base     : [BOOLEAN -> Seq(Frames) \cup UserStacks],
     int_level   : Levels,              \* CPU_INT_LEVEL >> 8
     nmi_pending : BOOLEAN,
     stopped     : BOOLEAN,             \* STOP_LEVEL_STOP of CPU_STOPPED
     acks        : Nat,
     nmis        : Nat]

GetSr(c) == [s |-> c.s, mask |-> c.mask]

(* The stack of a mode, active or banked away.                             *)
StackOf(c, s) == IF c.s = s THEN c.sp ELSE c.sp_base[s]

-----------------------------------------------------------------------------
(* m68ki_set_s_flag: the old stack pointer goes to its bank before the     *)
(* flag that selects the bank changes.                                     *)
SetSFlagFirst(c, s) ==
    LET banked == [c.sp_base EXCEPT ![s] = c.sp]
    IN [c EXCEPT !.s = s, !.sp_base = banked, !.sp = banked[s]]

SetSFlag(c, s) ==
    LET banked == [c.sp_base EXCEPT ![c.s] = c.sp]
    IN [c EXCEPT !.s = s, !.sp_base = banked, !.sp = banked[s]]

SetSrNoInt(c, sr) == [SetSFlag(c, sr.s) EXCEPT !.mask = sr.mask]

(* m68ki_init_exception, the three word stack frame and the jump through   *)
(* the vector.  The status register pushed is the one before the switch to *)
(* supervisor mode.                                                        *)
ExceptionLateSr(c, pc, vector) ==
    LET super == SetSFlag(c, TRUE)
    IN [super EXCEPT !.sp = Append(@, [pc |-> pc, sr |-> GetSr(super)]),
                     !.pc = Vector[vector]]

Exception(c, pc, vector) ==
    LET super == SetSFlag(c, TRUE)
    IN [super EXCEPT !.sp = Append(@, [pc |-> pc, sr |-> GetSr(c)]),
                     !.pc = Vector[vector]]

(* m68ki_exception_interrupt: wakes a stopped cpu, raises the mask to the  *)
(* level served and, without an acknowledge scheme, clears the request.    *)
ExceptionInterruptAsleep(c, level) ==
    LET vector == IF level = 7 THEN "nmi" ELSE "level1"
    IN [Exception(c, c.pc, vector) EXCEPT
            !.mask = level,
            !.int_level = 0,
            !.acks = IF level = 1 THEN @ + 1 ELSE @,
            !.nmis = IF level = 7 THEN @ + 1 ELSE @]

ExceptionInterruptKeepsLevel(c, level) ==
    LET vector == IF level = 7 THEN "nmi" ELSE "level1"
    IN [Exception(c, c.pc, vector) EXCEPT
            !.stopped = FALSE,
            !.mask = level,
            !.acks = IF level = 1 THEN @ + 1 ELSE @,
            !.nmis = IF level = 7 THEN @ + 1 ELSE @]

ExceptionInterrupt(c, level) ==
    LET vector == IF level = 7 THEN "nmi" ELSE "level1"
    IN [Exception(c, c.pc, vector) EXCEPT
            !.stopped = FALSE,
            !.mask = level,
            !.int_level = 0,
            !.acks = IF level = 1 THEN @ + 1 ELSE @,
            !.nmis = IF level = 7 THEN @ + 1 ELSE @]

CheckInterrupts(c) ==
    IF c.nmi_pending
    THEN ExceptionInterrupt([c EXCEPT !.nmi_pending = FALSE], 7)
    ELSE IF c.int_level > c.mask
         THEN ExceptionInterrupt(c, c.int_level)
         ELSE c

(* m68ki_set_sr, called in the middle of a slice.                          *)
SetSr(c, sr) == CheckInterrupts(SetSrNoInt(c, sr))

(* m68k_set_irq: a transition from below 7 to 7 latches an NMI.            *)
SetIrq(c, level) ==
    [c EXCEPT !.int_level = level,
              !.nmi_pending = @ \/ (c.int_level # 7 /\ level = 7),
              !.acks = 0]

(* m68k_pulse_reset.  It clears the request of an interrupt but not an NMI *)
(* that is latched.                                                        *)
PulseResetClearsNmi(c) ==
    [SetSFlag(c, TRUE) EXCEPT
        !.stopped = FALSE, !.mask = 7, !.int_level = 0, !.nmi_pending = FALSE,
        !.sp = <<>>, !.pc = Vector["reset"]]

PulseReset(c) ==
    [SetSFlag(c, TRUE) EXCEPT
        !.stopped = FALSE, !.mask = 7, !.int_level = 0,
        !.sp = <<>>, !.pc = Vector["reset"]]

-----------------------------------------------------------------------------
(* The instructions that touch this state.  REG_PC is already past the     *)
(* instruction, at "next", when its handler runs; c.pc is where it was.    *)
PrivilegeViolation(c) == Exception(c, c.pc, "privilege")

TrapOp(c, next) == Exception(c, next, "trap")

MoveToSrOp(c, next, sr) ==
    IF c.s THEN SetSr([c EXCEPT !.pc = next], sr) ELSE PrivilegeViolation(c)

RteOp(c) ==
    IF c.s
    THEN LET n     == Len(c.sp)
             frame == c.sp[n]
         IN SetSr([c EXCEPT !.sp = SubSeq(@, 1, n - 1), !.pc = frame.pc], frame.sr)
    ELSE PrivilegeViolation(c)

StopOp(c, next, sr) ==
    IF c.s THEN SetSr([c EXCEPT !.pc = next, !.stopped = TRUE], sr)
           ELSE PrivilegeViolation(c)
=============================================================================
