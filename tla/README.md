# A verification project for kyacopycat

kyacopycat (`src/kyacopycat.c`) emulates the Canon Cat: a 68000, executed by the
Musashi core in `src/Musashi`, its memories, keyboard, bitmap display, printer
port and the serial port of a MC68681 DUART. It is one thread: a loop that runs
the 68000 for a *slice* of 6.5 ms and then, in a fixed order, counts the
watchdog, requests the timer interrupt, refreshes the window, takes one event
from the window system and moves at most one byte of serial input. Most of what
can go wrong lies where these parts meet: a slice can end after any instruction
of the ROM, the host types and writes when it likes, registers are cleared by
being read, and the process can be killed anywhere.

Below it lies the instruction set: some hundred kinds of instructions whose flags and
addresses other instructions rely on.

This directory has TLA+ models of these parts, TLC configurations that check
them on small instances and TLAPS proofs of the theorems that matter most.
`PROJECT.json` lists, for every definition, the source lines it stands for.

## Inventory

| component | source | state | operations | what is hard |
|---|---|---|---|---|
| serial input | `kyacopycat.c` 81-89, 209-220, 376-391, 451-454, 552-555, 664-682 | `duart_sra`, `duart_isr`, `duart_ipcr`, `duart_rba`, `trg`, the stream `serial_fr` and stdio's buffer | bus reads that clear, the poll after each slice, end of file | a slice ending between two reads of the driver; `poll` against stdio's buffer; the timer handler reading what the driver needs |
| 68000 exceptions and main loop | `m68kcpu.h`, `m68kcpu.c`, `m68k_in.c`; `kyacopycat.c` 437-463, 533-557 | status register, active and banked stack pointers, interrupt request, latched NMI, STOP; `watchdog` | reset, interrupts, TRAP, privilege violation, MOVE to SR, RTE, STOP; slice and tick | interrupts taken inside an instruction; nested and chained exceptions; reset after the NMI request; STOP against the timer; a counter in a byte |
| memory images | `kyacopycat.c` 389-447, 696-711 | the svram file and the main ram file, `svram`, `main_ram` | open, load, save in place | kills between two steps, short files, write errors, runs with different options |
| keyboard | `kyacopycat.c` 166-189, 590-604, 636-661; `sdlkeymess.h`, `xkeymess.h` | the matrix `kb_rd`, the event queue | one event per slice, the ROM's scan | fast strokes, keys that share a cell, quit as a key event, layouts |
| bus | `kyacopycat.c` 191-287, `m68kmess.h` | the memories, the device registers | reads and writes of 8, 16 and 32 bits | edges and mirrors, unaligned access, unspecified order of reads with effects |
| display | `kyacopycat.c` 108-163, 244-260, 528-531, 567-588, 607-632 | `framebuffer`, `vram_touched`, `v_blank`, colours | update of a byte, refresh, clear | incremental redrawing, writes while the display is off, a clear that does not get to the window |
| command line | `kyacopycat.c` 341-418 | - | options | reads beyond `argv`; not modelled |
| pacing | `kyacopycat.c` 684-695 | - | sleep to the end of the slice | unsigned arithmetic; not modelled |
| printer | `kyacopycat.c` 272-274, 368-375 | the output | append | within the bus |
| 68000 instruction set | `m68k_in.c`, `m68kcpu.h` | data and address registers, flags, memory | about 1900 opcode handlers made from some 200 bodies: arithmetic, decimal, shifts, moves, bits, jumps, traps | the carry of 32 bits without a 33rd, Z that is only cleared, counts beyond the width, quotients that do not fit; order of operands and of words; a timer between any two instructions |
| opcode table and its generator | `m68kmake.c`, `m68k_in.c` 386-899 | - | text at build time | - |
| FPU, MMU, softfloat, disassembler, example | `Musashi/` | - | - | not reached by a 68000 |

How they interact: the ROM, which is not in the repository, drives the bus; a
bus read or write is a call into `m68k_read_memory_8` or `m68k_write_memory_8`,
which touch the registers of the devices; the main loop touches the same
registers between slices. The ROM is therefore the *environment* of every
model. Its behaviour is modelled from what the code says of it (for the receive
driver the comment at `kyacopycat.c` 82-86) or left completely open (in
`Emulator` it executes anything).

What makes each component correct:

- serial input: each byte that the host writes is received once, in order,
  translated if `-t` is given, and eventually; a byte that waits is announced;
- exceptions and loop: an exception is invisible to the program it interrupts; a
  tick is served at most once; a warm boot is one NMI; a hang is noticed;
- instruction set: routines made of single instructions compute exact sums,
  products, quotients, comparisons and shifts; programs leave what they were written
  to leave, however often they are interrupted; a user program stays out of what is the
  supervisor's; a refused instruction leaves no trace;
- memory images: an image is lost only in a save that is cut short; a warm boot
  starts from a state that was saved;
- keyboard: every stroke reaches the cat once, in order; no key sticks;
- bus: memory behaves as memory at every width and alignment; the compiler's
  choice of the order of byte reads does not matter; output is in order;
- display: the window shows what is in the ram when the display is on, what was
  written while it was off included; with Xlib nothing when it is off. (With SDL the
  window keeps its picture then.)

## Modules

A module whose definitions come with variants of longer names (`Opened` and
`OpenedTruncated`, say) states there a mistake that the code could have contained; these
variants are used by no specification. They are put in the place of the
definition that follows them to see that the properties notice.

**`Duart`** has the four registers of the DUART and the timer's parity as sets of
bit numbers, one operator per bus read (what it leaves behind), `TimerTick` and
the two outcomes of the serial poll. **`Serial`** composes it with the host's
stream (how many bytes were written, taken off the file by `read(2)`, handed
out by `fgetc`), the slice end (`SliceEnd` = timer tick, then poll, in the order
of the loop) and the driver's three reads. Two constants say what the ROM does:
`SplitDriver` (a slice may end between its status and its data read) and
`StatusPolled` (other code reads the status register). **`SerialChannel`** is
the abstract in-order channel; `Serial!Channel` instantiates it with
`Received <- Translated`; `written` and `received` are the same in both.

**`M68k`** has the cpu as a record and Musashi's functions as operators on it, composed
as the C functions call each other (`SetSr` = `CheckInterrupts` after
`SetSrNoInt` after `SetSFlag`). A supervisor stack pointer is the sequence of
the exception frames it points at, a user stack pointer an opaque value.
**`Emulator`** is `main` from the loading of the ram image to the end of the
loop: `LoadRam`, `ResetCpu`, `BeginSlice` (the check for interrupts at the start
of `m68k_execute`), one action per kind of instruction, `Tick`. The ROM picks any
instruction with any operand; `MaxFrames` bounds the exceptions that it nests itself.
**`TransparentCalls`** says what exceptions promise: a call
pushes the interrupted context, a return resumes exactly it, the rest of the
program's state is untouched. `Emulator!Calls` maps the running context to the
cpu's pc and status register, the user stack to whichever of the two places
holds it (`StackOf(cpu, FALSE)`), and the calls to the frames on the supervisor
stack.

**`Storage`** follows one process after the other over a disk of two files. An
image is a sequence of blocks that reach the disk one by one; the content of a
block is the version of the machine's state that it belongs to. `Save` is
`rewind` and `fwrite` block by block; `Kill` may come between any two steps.

**`Alu`**, **`Bcd`** and **`Shifts`** are pure: an operator for each arithmetic instruction gives
its result and flags. One definition stands for the handlers of 8, 16 and 32 bits; its
parameter is the weight `h` of the sign bit (or the width), and `long` tells the
32 bit handlers, which work the carry out from the sign bits. **`Routines`** is what
programs build from them: one action is one turn of the loop of a routine, on any digit,
and the numbers consumed so far are kept as history, which the invariants compare with
the digits and flags produced. Its reference is the arithmetic of integers, never a second
definition of a flag.

**`Addressing`** has the cpu as a record and `m68kcpu.h`'s functions on it: registers, reads
and writes, effective addresses with their side effects, the stack, exceptions and interrupts.
An instruction is a decoded record and the words that follow it.
**`Instructions`** has the handlers, one definition for the handlers that `m68kmake`
generates of one body. **`Programs`** is the loop of `m68k_execute` on them: an action for
each sort of instruction and `Tick`, which requests the timer's interrupt between any two of them.
`ppc`, `pc` and `ir` are as in the code after the fetch. **`MCPrograms`** is an assembler
and 19 programs in it, each with its inputs and what must be in registers and memory
at the end. `M68k` and `Addressing` overlap on purpose: the first has the control of
exceptions with opaque data, nested and chained to any depth, for the proofs; the
second the data, with vectors and frames in memory.

**`Keymaps`** has the two keymaps in full, as matrices. **`Keyboard`** has the
host (keys that go down, up, repeat; the quit event), the event queue, the one
event per slice, the layout remapping including what `XLookupString` leaves in
`text[0]`, and the scan. `Hosts` has the user interface, layout and keys of each kind of host;
a run starts with any of them, in `host`, which then stays. **`Keystrokes`** is what
it implements: strokes are
seen in the order in which they are typed, each once.

**`Bus`** has the address decoding and the bus cycles as operators on a record, the
machine. A word or long is the tuple of its bytes. **`Memory`** lets a program
read and write with every width at the addresses of an instance and remembers, byte
by byte, what a flat memory would hold. **`Video`** adds the display to the
same bus: the program writes to ram and opr, `SliceEnd` refreshes, clears or
does nothing. `screen` is what the window shows. The conditions are the same for both
user interfaces, the clear is not: `XClearWindow` (629) empties the window, while
`SDL_RenderClear` (585) is followed by no `SDL_RenderPresent`, so that it changes only what the
renderer draws on, and the next picture covers that. `ui` says which one the
build has, a choice made at the start, and `AfterClear` what a clear leaves in the window.

**`MCSerial`, `MCEmulator`, `MCStorage`, `MCKeyboard`, `MCMemory`, `MCVideo`,
`MCRoutines`** and `MCPrograms` hold the values of constants for TLC. **`SerialProofs`, `EmulatorProofs`,
`StorageProofs`, `KeyboardProofs`, `MemoryProofs`, `VideoProofs`, `RoutinesProofs`** and
**`ProgramsProofs`** hold the theorems about the module that each is named for.

## Runs

"Violation" runs show where a text of the repository and the code disagree.

| run | shows | bounds |
|---|---|---|
| `serial_pipe` | with a polite ROM (`SplitDriver`, `StatusPolled` false) on a FIFO: conservation of bytes, order, and the whole channel with its liveness | four bytes, two of them an LF to translate, of which any number may be there at the start; `trg` wraps at 4 (only its parity is used) |
| `serial_shared` | with a ROM that reads everything at any time, on a regular file that is closed at its first end: a waiting byte is announced and the input never jams | same |
| `serial_split` (violation) | a slice that ends between status and data read loses a byte and doubles the next | same |
| `emulator_rom` | any ROM: types, one service per tick, warm boot by one NMI, STOP, hang detection, refinement of transparent calls | slices of 2 instructions, watchdog limit 2 of a range of 8, 2 frames of the ROM's own, masks 0, 1, 7 |
| `storage_kills` | any options from run to run, kills and write errors: an image is lost only in a save cut short, a full one stays full, a warm boot starts from what was saved, and while both files are used the main ram image is never newer than the svram image | 2 blocks, 3 versions, any number of runs |
| `storage_torn` (violation) | a kill in a save leaves an image of two states that the next run warm-boots from | 2 blocks, 3 versions |
| `keyboard` | with SDL and French letters remapped, and with keys that share a cell under SDL (where a repeat presses again) and under Xlib: the strokes arrive, each once, in order, and all of them; no stuck key | 2 letters whose places are exchanged and a Control key; 4 keys on 2 cells; 5 events |
| `keyboard_layout` (violation) | with Xlib, letters are not remapped while Control (LEAP) is down | 4 events |
| `memory_edges` | main ram is flat, edges and unaligned access included; svram is flat at each of its mirrors; the order of byte reads does not matter around the DUART; output in order, CR translated | 9 addresses, two byte values, 2 writes |
| `routines` | sums, differences, negatives, decimal numbers and quotients digit by digit are exact (products too, which is proved and not repeated here), conditions are relations, `divu` and `divs` give quotient and remainder or leave their operand, a shift by n is n shifts by one | 2 digits of 3 bits and one of 4 (every operand); 2 decimal digits of base 10, 4 of base 3; shifts of 2 and 4 bits with every count to twice the width and two more |
| `programs` | 19 programs, interrupted anywhere, leave what they were written to leave; the stacks stay even; no way into supervisor mode but a vector; what is refused leaves no trace; an interrupt and the RTE of its handler give everything back, wherever it would come (if the stack has room for the frame); all end | bytes of 6 bits, digits of base 5, 192 bytes of ram, 196 cases, 1 interrupt in each besides those that a STOP waits for |
| `video` | with SDL and with Xlib, FASTER_VIDEO as `config.h` has it: `v_blank` stops at 2; the window shows the ram when the display is on; with Xlib it shows nothing when it is off, and with SDL what was written since colours were set is to be seen, off and on again or not | the first and the last byte on display and the one after, writes of a byte and of a long across the end; every initial content |

Why the bounds are enough. Serial: the receive path holds at most one byte, the
driver at most one more, so three bytes reach every relation between them; the
theorems below drop the bound. Emulator: two frames of the ROM plus the
interrupts and the NMI nest to depth four and more; a slice of two instructions
has an end in the middle and one at the boundary; only `mask >= level`
matters of a mask. The watchdog's limit keeps the code's relation to its range
(limit + 1 < range). Storage: two blocks are what a torn image needs. Keyboard:
a stroke that is lost needs two events in the queue, a shared cell two keys.
Routines: the sign bit, the carry out of it and the bit below are all there are to a
flag, and three bits have them apart; the second digit takes what the first one left. The
decimal instructions are checked in the code's own size. The widths of shifts are powers of two, as 8,
16 and 32 are (`roxl` counts modulo the width and one), and counts pass the width and
its double. The theorems below drop the bounds of all of these. Programs: a byte
of 6 bits has two nibbles with a decimal correction, its word of 12 bits holds a
displacement of either sign across the whole address space, and its long two words;
one interrupt at each place shows what a handler may disturb there, as it leaves
nothing behind that a second would find, other than its counter; `Terminates` is checked
with that one interrupt and those that wake a stopped cpu, not with any number. The programs
together use every handler and every addressing mode, and each of their ends
depends on flags that passed through several instructions.
Memory: the addresses are those where the decoding changes, and what two
writes of any width can do to each other shows with two.

`video` and `storage_kills` have no liveness: nothing there must happen unless the user
or the ROM makes it happen. `routines` may stop (`CHECK_DEADLOCK FALSE`): a routine is
over when it has had its digits.

## Fairness

`Serial`: weak fairness of `SliceEnd` and of the driver's steps. The loop runs as long
as `run` is set and `m68k_execute` always returns when its cycles are used up;
the driver is code of a ROM whose loop goes on. None of the host: it need never
write again. `InputKeepsFlowing` and `ImplementsChannel` need no more.
`Emulator`: weak fairness of `Next`: a thread that waits for nothing but the clock
(`usleep`). There is no fairness of any one instruction, hence `HangIsDetected` is
about every program. `Keyboard`: weak fairness of `Scan` and `PollEvent`, the two halves of a
turn of the loop. `Programs`: the cpu goes on unless it is stopped or at the end, and the tick that a
stopped cpu waits for comes, which is weak fairness of `Step` and `Tick`, written out with
state predicates for ENABLED. The tick that interrupts is not fair: `Terminates` holds with and
without it.

## Proofs

All proofs are complete, and checked for all values of the constants that
satisfy the named assumptions (`InputAssumption`, `EmulatorAssumption` and so
on), which TLC evaluates in each run.

`SerialProofs`. `TypeCorrect` and `AlwaysAnnounced` hold of every ROM.
`InOrderDelivery` needs the assumption `PoliteRom`: without it, it is false, as
`serial_split` shows. `ReceivedInOrder` alone is not inductive: what the driver will
read next is in `duart_rba`, and nothing in `ReceivedInOrder` says that it is the right
byte. The inductive invariant `IInv` adds `TypeOK` and `Conservation`: every
byte fetched has been received, or is the one in the receive buffer, which is
either still announced by RxRDY or already promised to the driver, never both.
`RefinesChannel` maps each step: `HostWrite` to
`Write`, `DriverReadsRba` to `Deliver`, all else to stuttering.

`EmulatorProofs`. The inductive invariant `Inv` has four parts. `Types` and
`Bounds` have the counters. `Boot` says, for each phase, what the cpu looks like: every stack
pointer, the *banked* one included, is of its mode's kind (what is swapped in
later must be right already now); before the first slice the NMI is latched if
the boot is warm, the reason why the reset between the request and the first
slice loses nothing; afterwards the NMI has been served, and the request and
the interrupts served since make at most one. `Wakeable` says that a
cpu still stopped when the loop comes round has the request of the tick
before. From it follow `TypeCorrect`, `TickServedOnce`, `WarmBootServesNmi` and
`StopMissesNoTick`.
`ExceptionsAreCalls` is the refinement: one lemma for each function of Musashi
says how it moves the abstract context, user stack and calls, and each action of
`Emulator` is then a `Run`, `Call`, `Return`, `ReturnInterrupted`, `Reset` or a
stuttering step of `TransparentCalls`.

`StorageProofs`. `ImagesIntact`: `IntactUnlessCut` is strengthened with where the stream's position
and the number of blocks out must be during a save, so that what is on disk when
the last block is out is the memory. `FullImagesStayFull` follows from the same:
an overwrite in place never shortens. `WarmBootFromSaved` rests on it too. `RamNotNewer` alone is
not inductive: a save may put out any block of the main ram, and only the order of the two
images keeps it from being newer than the svram on disk. `OrderInv` adds that no block in memory or on
disk is newer than the machine (`NotFromFuture`), that no block of the main ram, in memory or on disk,
is newer than the svram in memory once that is loaded (`SvramCovers`), that the svram is out in full
when the main ram's turn comes (`SvramIsOut`), and that there is no image of the main ram without one
of the svram (`NoRamAlone`); `RamImageNotNewer` follows.

`KeyboardProofs`, for any number of events, keys and hosts. At any moment the strokes typed
divide into those the cat has seen, those in the matrix that the next scan will see and those
that a queued event stands for; `KeyboardInv` says so with a function `p`, how many strokes the
matrix has had when so many events are handled (`Chain`, `Fits`), and adds that each stroke typed
changes the state of its cell (`Sensible`) and that a cell left down has a key that is held. It implies that a scan sees one
change and that this is the next stroke, which is the step of `Keystrokes`
(`KeyboardRefines`), and that with no key held and no event queued the matrix is clear
(`NoKeyStaysDown`). Both theorems have one hypothesis, `CertainHosts`: no host has Xlib *and* remapped
letters. There the theorem is false: what `text[0]` has depends on Control (`keyboard_layout`). That a
code is in one cell of a keymap, and so is a letter, is the assumption `OnePlace` on the two tables,
which TLC evaluates in full in both keyboard runs.

`MemoryProofs` and `VideoProofs`, for any addresses and values. Their first lemmas decode: which
registers an address can be, that the ranges are apart, that svram's mirrors differ by
their distance, and that `RamIndex`, which masks, is the distance from the start of the ram
(`RamIndexIsOffset`) if the size is a power of two. This is the hypothesis `PowerOfTwoSize` of `MainRamIsFlat`
and `DisplayOn`; `config.h` 51 asks for less, and with three times 131072 bytes the two are false.
A write of 16 or 32 bits is then treated byte by byte: what n bytes have done, for each n up to
four, so that `MemoryInv` (each byte of the memories is the last that was written at its address, and
the serial output is what was sent, translated) holds after an access of any
width and alignment. `ReadOrder` compares both orders in which the compiler can make the calls.
`DarkInv` relates the counter `v_blank` to the window: with Xlib it has been cleared at 2, and at the
end of a slice the counter is not 1, from which `DisplayOff` follows. Without the premise on `ui` it is
false: with SDL the window keeps the last picture. `ScreenShowsRam` speaks of the end of a slice only; `ShownInv` says what
holds in between: unless `vram_touched` is set, a screen that is not cleared has the bytes of the ram,
a change since the last refresh implies that it is set, and with FASTER_VIDEO the framebuffer follows the ram at every write.
`WrittenBytesAreVisible` is about SDL: `LitInv` says that once a byte was written in colours, opr never
makes them dark again, that the framebuffer has it in colours (with FASTER_VIDEO) and that, unless `vram_touched` is
set, so has the window. It is false with Xlib, whose clear takes a picture away that `vram_touched` does
not know of. Both settings of FASTER_VIDEO are covered; the run has the one of `config.h`.

`RoutinesProofs`, for every width, length and operand, from `SizesAssumption` and, for the
decimal ones, `RadicesAssumption`. The
first lemmas say by numbers what one instruction does: `SumFacts`, `DifferenceFacts` and
`NegationFacts` that the result and X together are the sum or difference, in both ways
of computing the carry, and when N and V are set; they rest on the uniqueness of
quotient and remainder (`DivUnique`), which puts `%` and `\div` in the prover's reach.
`RightTurn` carries this over a turn of the loop. `MultiwordExact` is not inductive: a turn
multiplies by the weight and adds digits to numbers that must be below it, and V of
the whole number needs the previous turn's X. `BinaryInv` adds that; `ProductInv` and
`DivisionInv` bound the carry and the remainder by the factor and the divisor, so that
a digit's product fits a long and its quotient a word. Decimal bytes go the same way:
`AbcdFacts`, `SbcdFacts` and `NbcdFacts` say that after the corrections of both nibbles the byte has two
digits again, whose value and X together are the sum or difference, and `DecimalAbove` carries it
over a turn. `RadicesAssumption` asks that some value of a nibble is no digit (10 < 16):
`nbcd` (`m68k_in.c` 7812) looks for a nibble that holds ten, and without it TLC finds
`DecimalExact` violated. For `divu` and `divs`, `Truncation` shows that the quotient of C
is the only number that `QuotientOrKept`'s "fits" can mean, and `SignedBits` that a word of the result
read as a signed number is what was put there. `SingleInv` says that a comparison or division starts
from flags and a size. The conjunction `IInv` is `Invariance`, from which seven theorems follow.

The eighth, `ShiftsAreExact`, is about every width above 1 (`WidthsAssumption`), every count, beyond the
width too, and both forms of each shift and rotation (the one with the count in the instruction for counts
of 1 to the width). The model's `2^n` is opaque to the provers: that
`2^(i + j)` is `2^i * 2^j` is proved by counting, as 2^n is the number of subsets of 1..n
(`PowerIsSubsets`). The numbers that a shift by n places leaves then have a closed form for every n:
a quotient by 2^n, a product modulo the width's limit, a quotient towards minus infinity for `asr`, a split
at n modulo the width for a rotation. A rotation through X is a rotation of a number one bit wider, X on top.
`ShiftRight` says that the routine's operand, the last bit out, X and the memory of a changed sign are those
closed forms, and one lemma for each instruction takes it over one more place. `ShiftsCompose`
speaks of the routine's end alone and is not inductive; `ShiftInv`, with `ShiftRight` at any n, is.
What is left is that the handlers give the closed forms too: with their masks, their tables of top bits, their
counts modulo the width, or the width and one, and their branches for a count that is zero, the width, or beyond it, which is
where the forms of 8, 16 and 32 bits differ in the code.

`ProgramsProofs`, for every program with any code that keeps to the opcode table's encodings
(`LibraryAssumption`: which addressing modes an instruction takes, which the table of opcodes
decides), every content of registers and memory and every table of vectors. `ProgramRunsAlways`
is the invariant: the code is a program's and the cpu's record has its fields. One lemma for each function of
`m68kcpu.h` and for each handler says whether its result is `Kept` (mode, mask, banked stack pointer and STOP
as they were) or `Trapped` (supervisor mode, pc from a vector); a user's instruction is one
of the two, which is `UserIsKeptOut`. It needs no knowledge of what the data are: a program that
jumps anywhere and writes anywhere is covered.
`RefusedAreWhole` and `InterruptsReturn` read back from memory what an exception pushed there,
and need that registers and memory keep to their widths: their hypothesis is `[]TypeOK`. TLC checks it of the
19 programs. It is not true of every program, as one may read outside `Ram` or jump outside its
code, where the model has no values. Under it: the frame's six bytes are six
places of the ram, a long written in two words is read as it was, the
status register put together from S, mask and flags comes apart into the same (`AddressingAssumption` says
that the limit of a byte is a multiple of 64, hence that S, of weight 32 in the upper byte, and the
mask below it do not overlap), and the exchange of the stack pointers is undone by the exchange back. Both
properties have the premise that the stack has room for the frame (`Frame \subseteq Ram`).

These proofs changed what is stated. `UserKeepsOut` used to say that a user program does not
stop the cpu, as `~m'.stopped`, and this is false of one stopped by STOP with S clear in its
operand; it now says that `stopped` stays. `Executes` had no condition that the pc is within the code. And
`RefusedIsWhole` held in the run only because the programs keep their stacks in the ram; the premise now
says so.

Only model-checked: liveness (`ImplementsChannel`'s, `InputKeepsFlowing`,
`HangIsDetected`, `StrokesReachCat`, `Terminates`), which is out of the
prover's reach; and of `Programs` the three invariants that are about the 19 programs, `TypeOK`,
`ResultAsSpecified` and `StackAligned`. They are facts of this code and its inputs, not of the cpu: a program
that leaves the ram, computes something else or pushes at an odd address is a legal one.

## What the models found

1. `kyacopycat.c` 211: the status read frees the receive buffer, so a slice's
   end between status and data read loses a byte (`serial_split`).
2. `kyacopycat.c` 707-708: images are written over in place; a kill leaves a
   mixture that is booted from (`storage_torn`).
3. `kyacopycat.c` 649: with Xlib letters are not remapped under Control
   (`keyboard_layout`).

Seen in the source, with no run of its own:

- the NMI of a warm boot is requested (446) before the cpu is initialised and
  reset (460-462), which `Musashi/m68k.h` 314 and `Musashi/readme.txt` 89 forbid; it works
  because the reset leaves a latched NMI alone (`WarmBootByNmi`, proved);
- what can be read of a short image stays in memory (444), although the message
  says that a new file is assumed;
- with Xlib the tabulator key is not handled: `XK_Tab` (`xkeymess.h` 119) is a keysym
  among keycodes;
- with FASTER_VIDEO bytes keep the colours of the time they were written, so an
  inversion shows only as the display is rewritten (`config.h` 53 says that
  artifacts may occur), and after a warm boot SDL shows a dark window until then;
- with SDL the clear of line 585 is not presented: the window keeps the last picture while the
  display is off (`BlankStaysDark` has `ui = "xlib"` for this reason; no text of the repository
  says what a display that is off looks like);
- with Xlib the display switched off and on without a write stays empty, and the
  window is not redrawn when it is exposed;
- `config.h` 51 asks for a main ram of a multiple of 131072 bytes, the mask of
  line 243 for a power of two: with three times 131072 the addresses 0x400000 and 0x420000
  are one byte;
- `&&` for `||` in the option tests (371, 378, 384, 394, 400, 407): an option that stands
  last takes the end of `argv` for its argument;
- a clock that steps back makes `total_usec` (688) large, and no sleep follows; with a
  negative speed the test of line 689 is unsigned and the sleep very long;
- `divs` of 0x80000000 by -1 gives zero with Z set (`m68k_in.c` 4442), where other quotients
  that do not fit leave the operand and set V; `QuotientOrKept` states it;
- `move16` (`m68k_in.c` 7438), an instruction of the 68040 alone by the table (723), checks
  no cpu type: the 68000 executes it.

## Not modelled, and why

- The bodies of `m68k_in.c` for later cpus: `m68k_set_cpu_type` is called once, with
  the 68000, and `m68kconf.h` 67-71 compiles them out; what a 68000 does with these opcodes
  (an illegal instruction exception) is modelled.
- The table of opcodes and `m68kmake`, which generates it: text, at build time. Programs are decoded
  instructions.
- Cycle counts, other than that a slice may end after any instruction. Trace (the trace bits of
  the status register are not kept), address and bus errors, switched off in `m68kconf.h`.
- In `Emulator`, registers and flags: data to its properties. MOVE USP is part of what a
  supervisor program may do to the user stack; the model takes the ROM not to use
  it inside an exception.
- FPU, MMU and softfloat: a 68000 does not get there. The disassembler (only with `DEBUG_I`)
  and Musashi's example, a program of its own.
- The command line: one pass over `argv` that sets variables, with no state of its own;
  `Storage` has its effects on files. Pacing: it reads the wall clock and sleeps, and nothing in
  the machine depends on it.
- Calls into SDL and Xlib other than events, refresh and clear.
- Focus: that releases reach the window is assumed.
- The index beyond `main_rom` (line 197), whose result depends on the build.

## Plan

Done: serial, exceptions and loop, images, keyboard, bus, display, the arithmetic and the shifts of the
68000, its instructions and address modes, in this order, and proofs about all of these.
Left, in this order:

1. Lemmas about single instructions that no routine uses: `Chk` and `Muls`, by numbers as
   `SumFacts` does.
2. `Addressing`: reads after writes at every width and the stack in general, as theorems on the operators.
   For the frame of an exception `RefusedAreWhole` and `InterruptsReturn` have them.
3. `Machine`: `Emulator` and `Serial` in lock step, so that the timer handler and the
   driver are what the 68000 runs when the interrupt is taken, and slices
   end where the cycles do.
