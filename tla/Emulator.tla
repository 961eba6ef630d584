------------------------------ MODULE Emulator ------------------------------
(***************************************************************************)
(* The main loop of kyacopycat around the 68000: start-up with or without  *)
(* a warm boot, slices of the cpu, the 6.5ms timer interrupt, the watchdog *)
(* and the two ways out (kyacopycat.c 437-462 and 533-616).                *)
(*                                                                         *)
(* The loop and the cpu share a thread.  What the cpu executes is the ROM, *)
(* which is external: here it takes any instruction at any time, within    *)
(* the bound MaxFrames on the exceptions it nests by its own doing.        *)
(***************************************************************************)
EXTENDS M68k

CONSTANTS SliceCycles,    \* instructions that fill a slice
          WatchdogLimit,  \* 64 in the code
          WatchdogRange,  \* watchdog is an unsigned char: 256 in the code
          MaxFrames,      \* bound: exception frames the ROM asks for
          Masks           \* bound: the interrupt masks the ROM sets

ASSUME EmulatorAssumption ==
    /\ SliceCycles \in Nat \ {0}
    /\ WatchdogLimit \in Nat /\ WatchdogRange \in Nat
    /\ WatchdogLimit + 1 < WatchdogRange
    /\ MaxFrames \in Nat
    /\ Masks \subseteq Levels

VARIABLES cpu,       \* m68ki_cpu
          cycles,    \* m68ki_remaining_cycles
          watchdog,
          phase,     \* where main is
          warm,      \* the image of the main ram was read in full
          ended      \* why run is 0: "no", "quit" or "watchdog"

vars == <<cpu, cycles, watchdog, phase, warm, ended>>

Phases == {"load", "reset", "loop", "slice", "tick", "done"}

TypeOK ==
    /\ cpu \in Cpus
    /\ cpu.sp \in Stacks(cpu.s) /\ cpu.sp_base[~cpu.s] \in Stacks(~cpu.s)
    /\ cycles \in 0..SliceCycles
    /\ watchdog \in 0..(WatchdogLimit + 1)
    /\ phase \in Phases
    /\ warm \in BOOLEAN
    /\ ended \in {"no", "quit", "watchdog"}

(* m68ki_cpu is a zeroed global: user mode, mask 0, nothing on any stack.  *)
Init ==
    /\ \E usp \in UserStacks, pc \in Code :
          cpu = [pc |-> pc, s |-> FALSE, mask |-> 0, sp |-> usp,
                 sp_base |-> [s \in BOOLEAN |-> IF s THEN <<>> ELSE usp],
                 int_level |-> 0, nmi_pending |-> FALSE, stopped |-> FALSE,
                 acks |-> 0, nmis |-> 0]
    /\ cycles = 0
    /\ watchdog = 0
    /\ phase = "load"
    /\ warm \in BOOLEAN
    /\ ended = "no"

-----------------------------------------------------------------------------
(* Start-up: a full image of the main ram asks for an NMI, and the cpu is  *)
(* reset after that.                                                       *)
LoadRam ==
    /\ phase = "load"
    /\ cpu' = IF warm THEN SetIrq(cpu, 7) ELSE cpu
    /\ phase' = "reset"
    /\ UNCHANGED <<cycles, watchdog, warm, ended>>

ResetCpu ==
    /\ phase = "reset"
    /\ cpu' = PulseReset(cpu)
    /\ phase' = "loop"
    /\ UNCHANGED <<cycles, watchdog, warm, ended>>

(* m68k_execute: a stopped cpu that no interrupt wakes gives the slice up. *)
BeginSlice ==
    /\ phase = "loop"
    /\ cpu' = CheckInterrupts(cpu)
    /\ IF cpu'.stopped
       THEN phase' = "tick" /\ cycles' = 0
       ELSE phase' = "slice" /\ cycles' = SliceCycles
    /\ UNCHANGED <<watchdog, warm, ended>>

(* An instruction has run: the slice goes on while cycles are left.        *)
Executed(left) ==
    /\ cycles' = left
    /\ phase' = IF left > 0 THEN "slice" ELSE "tick"
    /\ UNCHANGED <<warm, ended>>

(* The ROM keeps the exceptions it asks for within the bound.              *)
Depth     == Len(StackOf(cpu, TRUE))
MayNest   == Depth < MaxFrames

(* Any instruction that leaves the status register alone.  In user mode    *)
(* it may move the stack pointer; a supervisor routine balances its own    *)
(* pushes and pulls.                                                       *)
Plain ==
    /\ phase = "slice"
    /\ \E pc \in Code, usp \in UserStacks :
          cpu' = [cpu EXCEPT !.pc = pc, !.sp = IF cpu.s THEN @ ELSE usp]
    /\ Executed(cycles - 1)
    /\ UNCHANGED watchdog

(* A write to opr (0x840001) with bit 3 set.                               *)
KickWatchdog ==
    /\ phase = "slice"
    /\ watchdog' = 0
    /\ \E pc \in Code : cpu' = [cpu EXCEPT !.pc = pc]
    /\ Executed(cycles - 1)

Trap ==
    /\ phase = "slice" /\ MayNest
    /\ \E pc \in Code : cpu' = TrapOp(cpu, pc)
    /\ Executed(cycles - 1)
    /\ UNCHANGED watchdog

MoveToSr ==
    /\ phase = "slice" /\ MayNest
    /\ \E pc \in Code, s \in BOOLEAN, mask \in Masks :
          cpu' = MoveToSrOp(cpu, pc, [s |-> s, mask |-> mask])
    /\ Executed(cycles - 1)
    /\ UNCHANGED watchdog

(* The ROM returns from exceptions it is in, never past the last frame.    *)
Rte ==
    /\ phase = "slice"
    /\ IF cpu.s THEN Depth > 0 ELSE MayNest
    /\ cpu' = RteOp(cpu)
    /\ Executed(cycles - 1)
    /\ UNCHANGED watchdog

(* STOP gives up the rest of the slice, whether or not it is woken at once *)
(* by the status register it sets.                                         *)
Stop ==
    /\ phase = "slice" /\ MayNest
    /\ \E pc \in Code, s \in BOOLEAN, mask \in Masks :
          cpu' = StopOp(cpu, pc, [s |-> s, mask |-> mask])
    /\ Executed(IF cpu.s THEN 0 ELSE cycles - 1)
    /\ UNCHANGED watchdog

Instruction == Plain \/ KickWatchdog \/ Trap \/ MoveToSr \/ Rte \/ Stop

-----------------------------------------------------------------------------
WatchdogExpiredOverLimit == watchdog' >= WatchdogRange

WatchdogExpired == watchdog' > WatchdogLimit

RequestTimer(c) == SetIrq(c, 1)

(* After the slice: the watchdog counts, the timer interrupt is requested  *)
(* whatever became of the last one, and the user interface may ask to end. *)
Tick ==
    /\ phase = "tick"
    /\ watchdog' = (watchdog + 1) % WatchdogRange
    /\ cpu' = RequestTimer(cpu)
    /\ ended' \in {"quit", IF WatchdogExpired THEN "watchdog" ELSE "no"}
    /\ phase' = IF ended' = "no" THEN "loop" ELSE "done"
    /\ UNCHANGED <<cycles, warm>>

Done == phase = "done" /\ UNCHANGED vars

Next ==
    \/ LoadRam \/ ResetCpu
    \/ BeginSlice \/ Instruction \/ Tick
    \/ Done

(* One thread that never waits for anything but the clock.                 *)
Spec == Init /\ [][Next]_vars /\ WF_vars(Next)

-----------------------------------------------------------------------------
(* A tick of the timer is served at most once: between two ticks at most   *)
(* one interrupt of level 1 begins, whatever the ROM does to the mask and  *)
(* however often it returns, and none while the request still stands.      *)
OneServicePerTick ==
    cpu.acks + (IF cpu.int_level = 1 THEN 1 ELSE 0) <= 1

(* A warm boot serves exactly one NMI, before the first instruction of the *)
(* ROM, although the NMI is requested before the cpu is reset; a cold boot *)
(* serves none.                                                            *)
WarmBootByNmi ==
    phase \in {"slice", "tick", "done"} =>
        cpu.nmis = (IF warm THEN 1 ELSE 0)

(* A slice is given up to STOP only when the mask the program stopped with *)
(* holds the timer off: a cpu that waits for the timer misses no slice.    *)
OnlyMaskedStopSkipsSlice ==
    [][phase = "loop" /\ phase' = "tick" => cpu.mask >= 1]_vars

(* No program hangs the emulator: it writes the watchdog bit of opr again  *)
(* and again, or the loop ends.  That the count is 0 again and again would *)
(* not do, for an unsigned char comes round to 0 by itself.                *)
HangIsDetected == []<><<KickWatchdog>>_vars \/ <>(phase = "done")

(* Exceptions are calls that the interrupted program does not see.         *)
Calls ==
    INSTANCE TransparentCalls WITH
        Entries <- {Vector[v] : v \in Vectors},
        ctx   <- [pc |-> cpu.pc, sr |-> GetSr(cpu)],
        usp   <- StackOf(cpu, FALSE),
        calls <- StackOf(cpu, TRUE)

ImplementsCalls == Calls!Spec
=============================================================================
