------------------------------- MODULE Memory -------------------------------
(***************************************************************************)
(* What a program on the 68000 can rely on when it uses the bus: reads and *)
(* writes of bytes, words and longs anywhere, across the edges of the      *)
(* regions too, with the main loop setting the device registers between.   *)
(* Musashi is built without address errors: any address is legal.          *)
(***************************************************************************)
EXTENDS Bus

CONSTANTS Addresses,  \* bound: where the program reads and writes
          Values,     \* bound: the bytes that it writes
          MaxWrites   \* bound: how often it writes

VARIABLES m,         \* the machine
          ramLast,   \* history: the last byte written to each ram address
          svramLast, \* history: the same for the svram
          serialOut, \* history: the bytes written to the serial port
          writes

vars == <<m, ramLast, svramLast, serialOut, writes>>

Touched   == {a + i : a \in Addresses, i \in 0..3}
RamAt     == {a \in Touched : InRam(a)}
(* Of the svram the even addresses from 0x40000 on; it has mirrors above.  *)
SvramBase == 262144
SvramEnd  == SvramBase + 16384
Mirrored(a) == SvramBase + ((a - SvramBase) % 16384)
SvramAt   == {Mirrored(a) : a \in {b \in Touched : InSvram(b) /\ b < 2 * SvramBase}}

(* The bus has 24 bits; the cells in play are all that the program touches. *)
ASSUME MemoryAssumption ==
    /\ \A a \in Addresses : a \in Nat /\ a < 2^24
    /\ \A a \in Touched : InRam(a) => RamIndex(a) \in RamCells
    /\ \A a \in Touched : InSvram(a) => SvramIndex(a) \in SvramCells

Init ==
    /\ m = NewMachine
    /\ ramLast = [a \in RamAt |-> Zero]
    /\ svramLast = [a \in SvramAt |-> Zero]
    /\ serialOut = <<>>
    /\ writes = 0

(* The last byte that a write of the bytes v at a puts at address b.       *)
Put(last, a, v, b) ==
    IF b - a \in 0..(Len(v) - 1) THEN v[b - a + 1] ELSE last[b]

PutMirrored(last, a, v, b) ==
    LET hits == {i \in 1..Len(v) : InSvram(a + i - 1) /\ Mirrored(a + i - 1) = b}
    IN IF hits = {} THEN last[b] ELSE v[CHOOSE i \in hits : \A j \in hits : j <= i]

Written(a, v) ==
    /\ writes < MaxWrites
    /\ writes' = writes + 1
    /\ ramLast' = [b \in RamAt |-> Put(ramLast, a, v, b)]
    /\ svramLast' = [b \in SvramAt |-> PutMirrored(svramLast, a, v, b)]
    /\ serialOut' = serialOut \o
          (IF 8454151 - a \in 0..(Len(v) - 1) THEN <<v[8454151 - a + 1]>> ELSE <<>>)

WriteByte ==
    \E a \in Addresses, v \in Values :
        m' = Write8(m, a, v) /\ Written(a, <<v>>)

WriteWord ==
    \E a \in Addresses, v \in [1..2 -> Values] :
        m' = Write16(m, a, v) /\ Written(a, v)

WriteLong ==
    \E a \in Addresses, v \in [1..4 -> Values] :
        m' = Write32(m, a, v) /\ Written(a, v)

(* A read leaves its mark on the registers only.                           *)
ReadAny ==
    /\ \E a \in Addresses, n \in {1, 2, 4} : \E order \in Orders(n) :
          m' = AfterReadWide(m, a, order)
    /\ UNCHANGED <<ramLast, svramLast, serialOut, writes>>

(* The main loop sets the registers between two slices.                    *)
SetRegisters ==
    /\ m' = [m EXCEPT !.unread = ReadClear]
    /\ UNCHANGED <<ramLast, svramLast, serialOut, writes>>

Next == WriteByte \/ WriteWord \/ WriteLong \/ ReadAny \/ SetRegisters

Spec == Init /\ [][Next]_vars

-----------------------------------------------------------------------------
(* With a RAM_SIZE that is a power of two every byte of the main ram is a  *)
(* byte of its own, at every alignment and across both ends, high byte     *)
(* first.  (config.h 51 asks only for a multiple of 131072, with which     *)
(* the mask of RamIndex can bring two addresses to one byte.)              *)
RamIsFlat == \A a \in RamAt : Read8(m, a) = ramLast[a]

(* The svram has its bytes at even addresses only, at each of its mirrors. *)
SvramIsFlat ==
    \A a \in {b \in Touched : InSvram(b) /\ b < 2 * SvramBase} :
        Read8(m, a) = svramLast[Mirrored(a)]

(* Whatever order the compiler reads the bytes of a word or a long in, the *)
(* program gets the same value, and the same registers are left cleared,   *)
(* although reads of the DUART have effects.                               *)
ReadOrderIsFree ==
    \A a \in Addresses, n \in {2, 4} :
        LET first == [k \in 1..n |-> k - 1]
        IN \A order \in Orders(n) :
              /\ ReadWide(m, a, order) = ReadWide(m, a, first)
              /\ AfterReadWide(m, a, order) = AfterReadWide(m, a, first)

(* The host gets every byte that the cat sends, in order, whatever the     *)
(* width of the write, and never a CR from a translated one.               *)
SentInOrder ==
    "serial" \in outputs =>
        m.sent = [i \in 1..Len(serialOut) |->
                     IF translate /\ serialOut[i] = 13 THEN 10 ELSE serialOut[i]]
=============================================================================
