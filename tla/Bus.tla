-------------------------------- MODULE Bus --------------------------------
(***************************************************************************)
(* The bus of the Canon Cat as kyacopycat decodes it (kyacopycat.c         *)
(* 190-296, m68kmess.h): roms, the two memories, and the registers of the  *)
(* devices.  The machine is a record; a bus cycle is an operator from a    *)
(* machine to a machine.  A byte of a rom stands for itself: its region    *)
(* and its index.  A word or a long is the tuple of its bytes, the high    *)
(* one first.                                                              *)
(*                                                                         *)
(* A definition that stands just before another and bears a longer form of *)
(* its name is a mutant of it: a mistake the code could have contained.    *)
(***************************************************************************)
EXTENDS Integers, Sequences

CONSTANTS RAM_SIZE,       \* config.h
          RamCells,       \* bound: the indices of main_ram in play
          SvramCells,     \* bound: the indices of svram in play
          FASTER_VIDEO,   \* config.h
          translate,      \* option -t
          outputs         \* which of "printer" (-p), "serial" (-o) are open

ASSUME RamSizeAssumption ==
    RAM_SIZE \in {k * 131072 : k \in 1..32}

ASSUME BusAssumption ==
    /\ RamCells \subseteq 0..(RAM_SIZE - 1)
    /\ SvramCells \subseteq 0..8191
    /\ FASTER_VIDEO \in BOOLEAN /\ translate \in BOOLEAN
    /\ outputs \subseteq {"printer", "serial"}

RamBase   == 4194304              \* 0x400000
VideoSize == 28896                \* 0x70E0 bytes of main_ram are on display
Zero      == 0                    \* a byte of memory that nobody wrote

(* Bits hi to lo of an address.                                            *)
Bits(a, hi, lo) == (a \div 2^lo) % 2^(hi - lo + 1)
Bit(a, n) == Bits(a, n, n)

InRam(a)      == RamBase <= a /\ a < RamBase + RAM_SIZE
InSvram(a)    == Bits(a, 23, 21) = 0 /\ Bits(a, 18, 16) = 4 /\ Bit(a, 0) = 0
InRom(a)      == Bits(a, 23, 21) = 0 /\ Bit(a, 18) = 0
InSvrom(a)    == Bits(a, 23, 21) = 1 /\ Bit(a, 18) = 0 /\ Bit(a, 0) = 1

(* addr & (RAM_SIZE - 1), bit by bit above the 17 bits that all sizes have. *)
RamIndex(a) ==
    LET mask == RAM_SIZE \div 131072 - 1
        and(n) == 131072 * 2^n * Bit(a, 17 + n) * Bit(mask, n)
    IN Bits(a, 16, 0) + and(0) + and(1) + and(2) + and(3) + and(4)

SvramIndexShort(a) == Bits(a, 12, 1)

SvramIndex(a) == Bits(a, 13, 1)

-----------------------------------------------------------------------------
(* The machine.  A pixel byte of the framebuffer is a byte of main_ram and *)
(* the two colours it was drawn in.                                        *)
Polarities == {"dark", "normal", "inverse"}   \* v_zero, v_one: 0 0, 0 FF, FF 0
Pixels     == RamCells \cap 0..(VideoSize - 1)
ReadClear  == {"sra", "ipcr", "isr"}

NewMachine ==
    [ram          |-> [i \in RamCells |-> Zero],
     svram        |-> [i \in SvramCells |-> Zero],
     unread       |-> ReadClear,   \* registers not read since they were set
     pr_cont      |-> Zero,
     kb_wr        |-> Zero,
     v_blank      |-> 0,
     polarity     |-> "dark",
     vram_touched |-> FALSE,
     framebuffer  |-> [i \in Pixels |-> [byte |-> Zero, polarity |-> "dark"]],
     printed      |-> <<>>,
     sent         |-> <<>>]

Drawn(m, byte) == [byte |-> byte, polarity |-> m.polarity]

(* update_framebuffer                                                      *)
UpdateFramebuffer(m) ==
    [m EXCEPT !.framebuffer = [i \in Pixels |-> Drawn(m, m.ram[i])]]

-----------------------------------------------------------------------------
(* m68k_write_memory_8.  opr: bit 2 shows the display, bit 4 inverts it;   *)
(* bit 3 resets the watchdog, which is in Emulator.                        *)
OnDisplayShort(a) == a < RamBase + VideoSize - 1

OnDisplay(a) == a < RamBase + VideoSize

WriteRam(m, a, v) ==
    LET written == [m EXCEPT !.ram[RamIndex(a)] = v]
    IN IF ~OnDisplay(a) THEN written
       ELSE [written EXCEPT
                !.vram_touched = TRUE,
                !.framebuffer = IF FASTER_VIDEO THEN [@ EXCEPT ![RamIndex(a)] = Drawn(m, v)]
                                                ELSE @]

WriteOprCleared(m, v) ==
    IF Bit(v, 2) = 0 THEN [m EXCEPT !.v_blank = 2]
    ELSE [m EXCEPT !.v_blank = 0, !.polarity = IF Bit(v, 4) = 1 THEN "inverse" ELSE "normal"]

WriteOpr(m, v) ==
    IF Bit(v, 2) = 0 THEN [m EXCEPT !.v_blank = 1]
    ELSE [m EXCEPT !.v_blank = 0, !.polarity = IF Bit(v, 4) = 1 THEN "inverse" ELSE "normal"]

PrintOut(m, v) ==
    [m EXCEPT !.printed = IF "printer" \in outputs THEN Append(@, v) ELSE @]

(* -t: a CR that the cat sends becomes an LF.                              *)
SendSwapped(m, v) ==
    [m EXCEPT !.sent = IF "serial" \in outputs
                       THEN Append(@, IF translate /\ v = 10 THEN 13 ELSE v) ELSE @]

Send(m, v) ==
    [m EXCEPT !.sent = IF "serial" \in outputs
                       THEN Append(@, IF translate /\ v = 13 THEN 10 ELSE v) ELSE @]

Write8(m, a, v) ==
    CASE InRam(a)     -> WriteRam(m, a, v)
      [] InSvram(a)   -> [m EXCEPT !.svram[SvramIndex(a)] = v]
      [] a = 8650753  -> WriteOpr(m, v)                          \* 0x840001
      [] a = 8388622  -> [m EXCEPT !.pr_cont = v]                \* 0x80000e
      [] a = 8388610  -> [m EXCEPT !.kb_wr = v]                  \* 0x800002
      [] a = 8388612  -> PrintOut(m, v)                          \* 0x800004
      [] a = 8454151  -> Send(m, v)                              \* 0x810007
      [] OTHER        -> m

Write16(m, a, v) == Write8(Write8(m, a, v[1]), a + 1, v[2])

Write32Swapped(m, a, v) == Write16(Write16(m, a, <<v[3], v[4]>>), a + 2, <<v[1], v[2]>>)

Write32(m, a, v) == Write16(Write16(m, a, <<v[1], v[2]>>), a + 2, <<v[3], v[4]>>)

-----------------------------------------------------------------------------
(* m68k_read_memory_8: what a read returns and what it leaves behind.  Of  *)
(* the address bits 19 and 20 and those above 23 the test for the main rom *)
(* looks at none: an index beyond the rom reads what the build has there.  *)
RegisterWide(a) ==
    CASE Bits(a, 23, 1) = 4227073 -> "sra"
      [] a = 8454153 -> "ipcr"
      [] a = 8454155 -> "isr"
      [] OTHER       -> "none"

Register(a) ==
    CASE a = 8454147 -> "sra"     \* 0x810003
      [] a = 8454153 -> "ipcr"    \* 0x810009
      [] a = 8454155 -> "isr"     \* 0x81000b
      [] OTHER       -> "none"

Read8(m, a) ==
    CASE InRom(a)       -> <<"rom", a>>
      [] InSvram(a)     -> m.svram[SvramIndex(a)]
      [] InSvrom(a)     -> <<"svrom", Bits(a, 17, 1)>>
      [] InRam(a)       -> m.ram[RamIndex(a)]
      [] Register(a) # "none" -> <<Register(a), Register(a) \in m.unread>>
      [] a = 8388618    -> <<"keyb", m.pr_cont, m.kb_wr>>   \* 0x80000a
      [] a = 8454151    -> <<"rba">>                        \* 0x810007
      [] a = 8454171    -> 16                               \* 0x81001b
      [] a >= 8847360   -> 255                              \* 0x870000
      [] OTHER          -> Zero

AfterRead8(m, a) == [m EXCEPT !.unread = @ \ {Register(a)}]

(* m68kmess.h reads a word or a long with one expression: C leaves the     *)
(* order of the byte reads in it open.  "order" lists the bytes as read.   *)
After(m, a, order, n) ==
    [m EXCEPT !.unread = @ \ {Register(a + order[k]) : k \in 1..n}]

ReadWide(m, a, order) ==
    [i \in 1..Len(order) |->
        LET k == CHOOSE k \in 1..Len(order) : order[k] = i - 1
        IN Read8(After(m, a, order, k - 1), a + i - 1)]

AfterReadWide(m, a, order) == After(m, a, order, Len(order))

Orders(n) == {o \in [1..n -> 0..(n - 1)] : \A i, j \in 1..n : o[i] = o[j] => i = j}
=============================================================================
