---------------------------- MODULE MemoryProofs ----------------------------
(***************************************************************************)
(* What a program can rely on when it uses the bus, for every set of       *)
(* addresses and values, every number of accesses and every size of the    *)
(* main ram that is a power of two.                                        *)
(***************************************************************************)
EXTENDS Memory, TLAPS

-----------------------------------------------------------------------------
(* Lemmas about the decoding of addresses and about one bus cycle, for     *)
(* every address and, where they say so, every size of the main ram that   *)
(* is a power of two. Addresses are large numbers, which only SMT can      *)
(* take: every leaf with one in it says so.                                *)

(* What the mask of kyacopycat.c 243 and 203 needs beyond config.h 51.     *)
PowerOfTwoSize ==
    RAM_SIZE \in {131072, 262144, 524288, 1048576, 2097152, 4194304}

(* Machines whose bytes are in V.                                          *)
Machine(V) ==
    [ram : [RamCells -> V], svram : [SvramCells -> V], unread : SUBSET ReadClear,
     pr_cont : V, kb_wr : V, v_blank : Nat, polarity : Polarities, vram_touched : BOOLEAN,
     framebuffer : [Pixels -> [byte : V, polarity : Polarities]],
     printed : Seq(V), sent : Seq(V)]

LEMMA SizeBound == RAM_SIZE \in Nat /\ 131072 <= RAM_SIZE /\ RAM_SIZE <= 4194304
    BY RamSizeAssumption, SMT

(* addr & (RAM_SIZE - 1) is the distance from the start of the main ram.   *)
LEMMA RamIndexIsOffset ==
    ASSUME PowerOfTwoSize, NEW a \in Nat, InRam(a)
    PROVE  RamIndex(a) = a - RamBase
<1>1. CASE RAM_SIZE = 131072
    BY <1>1, SMT DEF RamIndex, InRam, RamBase, Bits, Bit
<1>2. CASE RAM_SIZE = 262144
    BY <1>2, SMT DEF RamIndex, InRam, RamBase, Bits, Bit
<1>3. CASE RAM_SIZE = 524288
    BY <1>3, SMT DEF RamIndex, InRam, RamBase, Bits, Bit
<1>4. CASE RAM_SIZE = 1048576
    BY <1>4, SMT DEF RamIndex, InRam, RamBase, Bits, Bit
<1>5. CASE RAM_SIZE = 2097152
    BY <1>5, SMT DEF RamIndex, InRam, RamBase, Bits, Bit
<1>6. CASE RAM_SIZE = 4194304
    BY <1>6, SMT DEF RamIndex, InRam, RamBase, Bits, Bit
<1> QED
    BY <1>1, <1>2, <1>3, <1>4, <1>5, <1>6, SMT DEF PowerOfTwoSize

(* An address in the main ram is in no other region.                       *)
LEMMA RamIsApart ==
    ASSUME NEW a \in Nat, InRam(a)
    PROVE  /\ ~InRom(a) /\ ~InSvram(a) /\ ~InSvrom(a)
           /\ a < 8388608 /\ a >= 4194304
    BY SizeBound, SMT DEF InRam, InRom, InSvram, InSvrom, RamBase, Bits, Bit

LEMMA SvramIsApart ==
    ASSUME NEW a \in Nat, InSvram(a)
    PROVE  ~InRom(a) /\ ~InSvrom(a) /\ ~InRam(a)
  BY SizeBound, SMT DEF InRam, InRom, InSvram, InSvrom, RamBase, Bits, Bit

(* Of the svram, an address is its index but for the mirrors and bit 0.    *)
LEMMA SvramIndexIsOffset ==
    ASSUME NEW a \in Nat, InSvram(a)
    PROVE  a % 16384 = 2 * SvramIndex(a) /\ SvramIndex(a) \in Nat
    BY SMT DEF InSvram, SvramIndex, Bits, Bit

(* None of the registers is in a memory.                                   *)
LEMMA RegistersAreApart ==
    ASSUME NEW a \in {8650753, 8388622, 8388610, 8388612, 8454151}
    PROVE  ~InRam(a) /\ ~InSvram(a)
    BY SizeBound, SMT DEF InRam, InSvram, RamBase, Bits, Bit

LEMMA ReadRegistersAreApart ==
    ASSUME NEW a \in Nat, InRam(a) \/ InSvram(a)
    PROVE  Register(a) = "none" /\ a # 8388618 /\ a # 8454151 /\ a # 8454171
  <1>1. CASE InRam(a)
      BY <1>1, RamIsApart, SMT DEF Register
  <1>2. CASE InSvram(a)
      BY <1>2, SMT DEF Register, InSvram, Bits, Bit
  <1> QED
      BY <1>1, <1>2

-----------------------------------------------------------------------------
LEMMA NewMachineType ==
    ASSUME NEW V, Zero \in V
    PROVE  NewMachine \in Machine(V)
<1>1. "dark" \in Polarities
    BY DEF Polarities
<1>2. [i \in Pixels |-> [byte |-> Zero, polarity |-> "dark"]]
         \in [Pixels -> [byte : V, polarity : Polarities]]
    BY <1>1
<1>3. <<>> \in Seq(V) /\ 0 \in Nat
    OBVIOUS
<1> QED
    BY <1>1, <1>2, <1>3 DEF NewMachine, Machine

(* One write of a byte. It keeps the machine one,                          *)
LEMMA Write8Type ==
    ASSUME NEW V, 10 \in V, 13 \in V, NEW n \in Machine(V), NEW a \in Nat, NEW v \in V
    PROVE  Write8(n, a, v) \in Machine(V)
<1>1. n.polarity \in Polarities /\ "inverse" \in Polarities /\ "normal" \in Polarities
    BY DEF Machine, Polarities
<1>2. Drawn(n, v) \in [byte : V, polarity : Polarities]
    BY <1>1 DEF Drawn
<1>3. WriteRam(n, a, v) \in Machine(V)
    BY <1>2 DEF WriteRam, Machine
<1>4. WriteOpr(n, v) \in Machine(V)
    BY <1>1 DEF WriteOpr, Machine
<1>5. PrintOut(n, v) \in Machine(V)
  <2>1. n.printed \in Seq(V) /\ Append(n.printed, v) \in Seq(V)
      BY DEF Machine
  <2> QED
      BY <2>1 DEF PrintOut, Machine
<1>6. Send(n, v) \in Machine(V)
  <2> DEFINE out == IF translate /\ v = 13 THEN 10 ELSE v
  <2>1. n.sent \in Seq(V) /\ out \in V
      BY DEF Machine
  <2> HIDE DEF out
  <2>2. Append(n.sent, out) \in Seq(V)
      BY <2>1
  <2>3. [n EXCEPT !.sent = IF "serial" \in outputs THEN Append(n.sent, out) ELSE n.sent]
           \in Machine(V)
      BY <2>1, <2>2 DEF Machine
  <2> QED
      BY <2>3 DEF Send, out
<1>7. [n EXCEPT !.svram[SvramIndex(a)] = v] \in Machine(V)
    BY DEF Machine
<1>8. [n EXCEPT !.pr_cont = v] \in Machine(V) /\ [n EXCEPT !.kb_wr = v] \in Machine(V)
    BY DEF Machine
<1> QED
    BY <1>3, <1>4, <1>5, <1>6, <1>7, <1>8, SMT DEF Write8

(* in the main ram it changes the byte at its address and no other,        *)
LEMMA Write8Ram ==
    ASSUME NEW V, NEW n \in Machine(V), NEW a \in Nat, NEW v
    PROVE  Write8(n, a, v).ram =
              IF InRam(a) THEN [n.ram EXCEPT ![RamIndex(a)] = v] ELSE n.ram
<1>1. WriteRam(n, a, v).ram = [n.ram EXCEPT ![RamIndex(a)] = v]
    BY DEF WriteRam, Machine
<1>2. /\ WriteOpr(n, v).ram = n.ram /\ PrintOut(n, v).ram = n.ram /\ Send(n, v).ram = n.ram
      /\ [n EXCEPT !.svram[SvramIndex(a)] = v].ram = n.ram
      /\ [n EXCEPT !.pr_cont = v].ram = n.ram /\ [n EXCEPT !.kb_wr = v].ram = n.ram
    BY DEF WriteOpr, PrintOut, Send, Machine
<1>3. InSvram(a) => ~InRam(a)
    BY SvramIsApart
<1> QED
    BY <1>1, <1>2, <1>3, RegistersAreApart, SMT DEF Write8

(* and likewise in the svram;                                              *)
LEMMA Write8Svram ==
    ASSUME NEW V, NEW n \in Machine(V), NEW a \in Nat, NEW v
    PROVE  Write8(n, a, v).svram =
              IF InSvram(a) THEN [n.svram EXCEPT ![SvramIndex(a)] = v] ELSE n.svram
<1>1. [n EXCEPT !.svram[SvramIndex(a)] = v].svram = [n.svram EXCEPT ![SvramIndex(a)] = v]
    BY DEF Machine
<1>2. /\ WriteOpr(n, v).svram = n.svram /\ PrintOut(n, v).svram = n.svram
      /\ Send(n, v).svram = n.svram /\ WriteRam(n, a, v).svram = n.svram
      /\ [n EXCEPT !.pr_cont = v].svram = n.svram /\ [n EXCEPT !.kb_wr = v].svram = n.svram
    BY DEF WriteOpr, PrintOut, Send, WriteRam, Machine
<1>3. InSvram(a) => ~InRam(a)
    BY SvramIsApart
<1> QED
    BY <1>1, <1>2, <1>3, RegistersAreApart, SMT DEF Write8

(* the transmitter alone sends.                                            *)
LEMMA Write8Sent ==
    ASSUME NEW V, NEW n \in Machine(V), NEW a \in Nat, NEW v
    PROVE  Write8(n, a, v).sent = IF a = 8454151 THEN Send(n, v).sent ELSE n.sent
<1>1. /\ WriteOpr(n, v).sent = n.sent /\ PrintOut(n, v).sent = n.sent
      /\ [n EXCEPT !.svram[SvramIndex(a)] = v].sent = n.sent /\ WriteRam(n, a, v).sent = n.sent
      /\ [n EXCEPT !.pr_cont = v].sent = n.sent /\ [n EXCEPT !.kb_wr = v].sent = n.sent
    BY DEF WriteOpr, PrintOut, WriteRam, Machine
<1>2. a = 8454151 => ~InRam(a) /\ ~InSvram(a)
    BY RegistersAreApart, SMT
<1> QED
    BY <1>1, <1>2, SMT DEF Write8

(* What a read of the memories returns. The bus has 24 bits, and the last  *)
(* byte of a long is at most three beyond.                                 *)
BusEnd == 16777219

LEMMA Read8Ram ==
    ASSUME NEW n, NEW a \in Nat, InRam(a)
    PROVE  Read8(n, a) = n.ram[RamIndex(a)]
<1>1. ~InRom(a) /\ ~InSvram(a) /\ ~InSvrom(a) /\ ~(a >= 8847360)
    BY RamIsApart, SMT
<1> QED
    BY <1>1, ReadRegistersAreApart, SMT DEF Read8

LEMMA Read8Svram ==
    ASSUME NEW n, NEW a \in Nat, a < BusEnd, InSvram(a)
    PROVE  Read8(n, a) = n.svram[SvramIndex(a)]
<1>1. ~InRom(a) /\ ~InRam(a) /\ ~InSvrom(a)
    BY SvramIsApart
<1>2. ~(a >= 8847360)
    BY SMT DEF InSvram, Bits, Bit, BusEnd
<1> QED
    BY <1>1, <1>2, ReadRegistersAreApart, SMT DEF Read8

-----------------------------------------------------------------------------
(* The bytes of a word or a long go to the addresses from a on.            *)
LEMMA Write16Bytes ==
    ASSUME NEW n, NEW a \in Nat, NEW v
    PROVE  Write16(n, a, v) = Write8(Write8(n, a, v[1]), a + 1, v[2])
    BY DEF Write16

LEMMA Write32Bytes ==
    ASSUME NEW n, NEW a \in Nat, NEW v
    PROVE  Write32(n, a, v) =
              Write8(Write8(Write8(Write8(n, a, v[1]), a + 1, v[2]), a + 2, v[3]), a + 3, v[4])
<1>1. (a + 2) + 1 = a + 3
    OBVIOUS
<1> QED
    BY <1>1 DEF Write32, Write16

-----------------------------------------------------------------------------

V == Values \cup {Zero, 10, 13}

(* A tuple of n bytes is a sequence of length n.                           *)
LEMMA BytesAreSeq ==
    ASSUME NEW n \in {1, 2, 4}, NEW v \in [1..n -> Values]
    PROVE  Len(v) = n /\ v \in Seq(Values)
    OBVIOUS

LEMMA TouchedIsNat ==
    ASSUME NEW a \in Touched
    PROVE  a \in Nat /\ a < BusEnd
    BY MemoryAssumption, SMT DEF Touched, BusEnd

LEMMA AddressIsNat ==
    ASSUME NEW a \in Addresses
    PROVE  a \in Nat /\ a + 1 \in Nat /\ a + 2 \in Nat /\ a + 3 \in Nat
    BY MemoryAssumption, SMT

(* One byte in the main ram, and a byte of a word or of a long: only the   *)
(* bytes at the addresses written change.                                  *)
LEMMA RamAfter8 ==
    ASSUME PowerOfTwoSize, NEW n \in Machine(V), NEW a \in Nat, NEW v,
           NEW b \in Nat, InRam(b), RamIndex(b) \in RamCells
    PROVE  Write8(n, a, v).ram[RamIndex(b)] = IF a = b THEN v ELSE n.ram[RamIndex(b)]
<1>1. n.ram \in [RamCells -> V]
    BY DEF Machine
<1>2. InRam(a) => (RamIndex(a) = RamIndex(b) <=> a = b)
  <2>1. RamIndex(b) = b - RamBase
      BY RamIndexIsOffset
  <2>2. InRam(a) => RamIndex(a) = a - RamBase
      BY RamIndexIsOffset
  <2>3. RamBase \in Nat
      BY SMT DEF RamBase
  <2> QED
      BY <2>1, <2>2, <2>3, SMT
<1>3. Write8(n, a, v).ram =
         IF InRam(a) THEN [n.ram EXCEPT ![RamIndex(a)] = v] ELSE n.ram
    BY Write8Ram
<1>4. CASE InRam(a)
    BY <1>1, <1>2, <1>3, <1>4
<1>5. CASE ~InRam(a)
    BY <1>3, <1>5
<1> QED
    BY <1>4, <1>5

LEMMA SvramAfter8 ==
    ASSUME NEW n \in Machine(V), NEW a \in Nat, NEW v,
           NEW b \in Nat, InSvram(b), SvramIndex(b) \in SvramCells
    PROVE  Write8(n, a, v).svram[SvramIndex(b)] =
              IF InSvram(a) /\ Mirrored(a) = Mirrored(b) THEN v ELSE n.svram[SvramIndex(b)]
<1>1. n.svram \in [SvramCells -> V]
    BY DEF Machine
<1>2. InSvram(a) => (SvramIndex(a) = SvramIndex(b) <=> Mirrored(a) = Mirrored(b))
  <2>1. b % 16384 = 2 * SvramIndex(b) /\ SvramIndex(b) \in Nat
      BY SvramIndexIsOffset
  <2>2. InSvram(a) => a % 16384 = 2 * SvramIndex(a) /\ SvramIndex(a) \in Nat
      BY SvramIndexIsOffset
  <2>3. Mirrored(a) = 262144 + (a % 16384) /\ Mirrored(b) = 262144 + (b % 16384)
      BY SMT DEF Mirrored, SvramBase
  <2> QED
      BY <2>1, <2>2, <2>3, SMT
<1>3. Write8(n, a, v).svram =
         IF InSvram(a) THEN [n.svram EXCEPT ![SvramIndex(a)] = v] ELSE n.svram
    BY Write8Svram
<1>4. CASE InSvram(a)
    BY <1>1, <1>2, <1>3, <1>4
<1>5. CASE ~InSvram(a)
    BY <1>3, <1>5
<1> QED
    BY <1>4, <1>5

-----------------------------------------------------------------------------
(* The history and the memories agree after k bytes of a write of v at a.  *)
Translated(b) == IF translate /\ b = 13 THEN 10 ELSE b

Transmitter == 8454151

SvramTouched == {b \in Touched : InSvram(b) /\ b < 2 * SvramBase}

RamAgrees(n, k, a, v) ==
    PowerOfTwoSize => \A b \in RamAt :
        n.ram[RamIndex(b)] = IF b - a \in 0..(k - 1) THEN v[b - a + 1] ELSE ramLast[b]

Hits(k, a, b) == {i \in 1..k : InSvram(a + i - 1) /\ Mirrored(a + i - 1) = b}

SvramAgrees(n, k, a, v) ==
    \A b \in SvramTouched :
        n.svram[SvramIndex(b)] =
            IF Hits(k, a, Mirrored(b)) = {} THEN svramLast[Mirrored(b)]
            ELSE v[CHOOSE i \in Hits(k, a, Mirrored(b)) : \A j \in Hits(k, a, Mirrored(b)) : j <= i]

SentAgrees(n, k, a, v) ==
    LET all == serialOut \o (IF Transmitter - a \in 0..(k - 1)
                             THEN <<v[Transmitter - a + 1]>> ELSE <<>>)
    IN /\ all \in Seq(V)
       /\ "serial" \in outputs => n.sent = [i \in 1..Len(all) |-> Translated(all[i])]

Agrees(n, k, a, v) ==
    /\ n \in Machine(V)
    /\ RamAgrees(n, k, a, v)
    /\ SvramAgrees(n, k, a, v)
    /\ SentAgrees(n, k, a, v)

(* A sequence of translated bytes grows as the sequence of bytes does.     *)
LEMMA TranslatedGrows ==
    ASSUME NEW s \in Seq(V), NEW x \in V
    PROVE  /\ s \o <<x>> \in Seq(V)
           /\ [i \in 1..Len(s \o <<x>>) |-> Translated((s \o <<x>>)[i])]
              = Append([i \in 1..Len(s) |-> Translated(s[i])], Translated(x))
<1> DEFINE t == s \o <<x>>
           ts == [i \in 1..Len(s) |-> Translated(s[i])]
<1>1. /\ t \in Seq(V) /\ Len(t) = Len(s) + 1 /\ t[Len(s) + 1] = x
      /\ \A i \in 1..Len(s) : t[i] = s[i]
    OBVIOUS
<1>2. \A y \in V : Translated(y) \in V
    BY DEF Translated, V
<1>3. ts \in Seq(V) /\ Len(ts) = Len(s) /\ Translated(x) \in V
    BY <1>2
<1>4. /\ Len(Append(ts, Translated(x))) = Len(s) + 1
      /\ DOMAIN Append(ts, Translated(x)) = 1..(Len(s) + 1)
      /\ Append(ts, Translated(x)) \in Seq(V)
      /\ Append(ts, Translated(x))[Len(s) + 1] = Translated(x)
      /\ \A i \in 1..Len(s) : Append(ts, Translated(x))[i] = ts[i]
  <2> HIDE DEF ts
  <2> QED
      BY <1>3
<1> DEFINE tt == [i \in 1..Len(t) |-> Translated(t[i])]
           ap == Append(ts, Translated(x))
<1>5. \A i \in 1..(Len(s) + 1) : tt[i] = ap[i]
    BY <1>1, <1>4
<1>6. DOMAIN tt = 1..(Len(s) + 1) /\ DOMAIN ap = 1..(Len(s) + 1)
    BY <1>1, <1>4
<1>7. tt = [i \in 1..(Len(s) + 1) |-> tt[i]] /\ ap = [i \in 1..(Len(s) + 1) |-> ap[i]]
    BY <1>1, <1>4
<1> QED
    BY <1>1, <1>5, <1>7

(* The next byte of the write.                                             *)
LEMMA AgreesStep ==
    ASSUME NEW n, NEW k \in 0..3, NEW a \in Nat, NEW v, v[k + 1] \in V, Agrees(n, k, a, v)
    PROVE  Agrees(Write8(n, a + k, v[k + 1]), k + 1, a, v)
<1> DEFINE w == Write8(n, a + k, v[k + 1])
<1>0. n \in Machine(V) /\ a + k \in Nat /\ 10 \in V /\ 13 \in V
    BY DEF Agrees, V
<1>1. w \in Machine(V)
    BY <1>0, Write8Type
<1>2. RamAgrees(w, k + 1, a, v)
  <2> SUFFICES ASSUME PowerOfTwoSize, NEW b \in RamAt
               PROVE  w.ram[RamIndex(b)] =
                         IF b - a \in 0..k THEN v[b - a + 1] ELSE ramLast[b]
      BY DEF RamAgrees
  <2>1. b \in Nat /\ InRam(b) /\ RamIndex(b) \in RamCells
      BY TouchedIsNat, MemoryAssumption DEF RamAt
  <2>2. w.ram[RamIndex(b)] = IF a + k = b THEN v[k + 1] ELSE n.ram[RamIndex(b)]
    <3>1. \A c \in Nat : Write8(n, c, v[k + 1]).ram[RamIndex(b)] =
                              IF c = b THEN v[k + 1] ELSE n.ram[RamIndex(b)]
        BY <1>0, <2>1, RamAfter8
    <3> QED
        BY <1>0, <3>1
  <2>3. n.ram[RamIndex(b)] = IF b - a \in 0..(k - 1) THEN v[b - a + 1] ELSE ramLast[b]
      BY DEF Agrees, RamAgrees
  <2>4. RamIndex(b) \in RamCells /\ b \in Nat /\ k \in Nat /\ a \in Nat
      BY <2>1
  <2> HIDE DEF w
  <2>5. CASE a + k = b
    <3>1. b - a \in 0..k /\ b - a + 1 = k + 1
        BY <2>4, <2>5
    <3> QED
        BY <2>2, <2>5, <3>1
  <2>6. CASE a + k # b
    <3>1. b - a \in 0..k <=> b - a \in 0..(k - 1)
        BY <2>4, <2>6
    <3> QED
        BY <2>2, <2>3, <2>6, <3>1
  <2> QED
      BY <2>5, <2>6
<1>3. SvramAgrees(w, k + 1, a, v)
  <2> SUFFICES ASSUME NEW b \in SvramTouched
               PROVE  w.svram[SvramIndex(b)] =
                        IF Hits(k + 1, a, Mirrored(b)) = {} THEN svramLast[Mirrored(b)]
                        ELSE v[CHOOSE i \in Hits(k + 1, a, Mirrored(b)) :
                                  \A j \in Hits(k + 1, a, Mirrored(b)) : j <= i]
      BY DEF SvramAgrees
  <2>1. b \in Nat /\ InSvram(b) /\ SvramIndex(b) \in SvramCells
      BY TouchedIsNat, MemoryAssumption DEF SvramTouched
  <2>2. w.svram[SvramIndex(b)] = IF InSvram(a + k) /\ Mirrored(a + k) = Mirrored(b)
                                 THEN v[k + 1] ELSE n.svram[SvramIndex(b)]
      BY <1>0, <2>1, SvramAfter8
  <2>3. n.svram[SvramIndex(b)] =
            IF Hits(k, a, Mirrored(b)) = {} THEN svramLast[Mirrored(b)]
            ELSE v[CHOOSE i \in Hits(k, a, Mirrored(b)) :
                      \A j \in Hits(k, a, Mirrored(b)) : j <= i]
      BY DEF Agrees, SvramAgrees
  <2>4. a + (k + 1) - 1 = a + k
      OBVIOUS
  <2>5. CASE InSvram(a + k) /\ Mirrored(a + k) = Mirrored(b)
    <3> DEFINE hits == Hits(k + 1, a, Mirrored(b))
    <3>1. k + 1 \in hits /\ hits \subseteq 1..(k + 1)
        BY <2>4, <2>5 DEF Hits
    <3>2. \A i \in hits : (\A j \in hits : j <= i) <=> i = k + 1
        BY <3>1
    <3> HIDE DEF hits
    <3>3. (CHOOSE i \in hits : \A j \in hits : j <= i) = k + 1
        BY <3>1, <3>2
    <3> QED
        BY <2>2, <2>5, <3>1, <3>3 DEF hits
  <2>6. CASE ~(InSvram(a + k) /\ Mirrored(a + k) = Mirrored(b))
    <3>1. Hits(k + 1, a, Mirrored(b)) = Hits(k, a, Mirrored(b))
        BY <2>4, <2>6 DEF Hits
    <3> QED
        BY <2>2, <2>3, <2>6, <3>1
  <2> QED
      BY <2>5, <2>6
<1>4. SentAgrees(w, k + 1, a, v)
  <2>0. Transmitter \in Nat /\ k \in Nat /\ (k + 1) - 1 = k
      BY SMT DEF Transmitter
  <2>1. w.sent = IF a + k = Transmitter THEN Send(n, v[k + 1]).sent ELSE n.sent
      BY <1>0, Write8Sent, SMT DEF Transmitter
  <2>2. CASE a + k = Transmitter
    <3>1. Transmitter - a \notin 0..(k - 1) /\ Transmitter - a \in 0..k /\ Transmitter - a = k
        BY <2>0, <2>2
    <3>2. /\ serialOut \o <<>> \in Seq(V)
          /\ "serial" \in outputs =>
                n.sent = [i \in 1..Len(serialOut \o <<>>) |-> Translated((serialOut \o <<>>)[i])]
        BY <3>1 DEF Agrees, SentAgrees
    <3>3. serialOut \in Seq(V) /\ serialOut \o <<>> = serialOut
        BY <3>1 DEF Agrees, SentAgrees
    <3> DEFINE more == serialOut \o <<v[k + 1]>>
    <3>4. /\ more \in Seq(V)
          /\ [i \in 1..Len(more) |-> Translated(more[i])]
             = Append([i \in 1..Len(serialOut) |-> Translated(serialOut[i])], Translated(v[k + 1]))
        BY <3>3, TranslatedGrows
    <3>5. "serial" \in outputs => Send(n, v[k + 1]).sent = Append(n.sent, Translated(v[k + 1]))
        BY <1>0 DEF Send, Machine, Translated
    <3>6. "serial" \in outputs => w.sent = [i \in 1..Len(more) |-> Translated(more[i])]
      <4> HIDE DEF w
      <4> QED
          BY <2>1, <2>2, <3>2, <3>3, <3>4, <3>5
    <3>7. (IF Transmitter - a \in 0..k THEN <<v[Transmitter - a + 1]>> ELSE <<>>) = <<v[k + 1]>>
        BY <3>1
    <3> HIDE DEF w
    <3> QED
        BY <2>0, <3>4, <3>6, <3>7 DEF SentAgrees
  <2>3. CASE a + k # Transmitter
    <3>1. Transmitter - a \in 0..(k - 1) <=> Transmitter - a \in 0..k
        BY <2>0, <2>3
    <3> HIDE DEF w
    <3> QED
        BY <2>0, <2>1, <2>3, <3>1 DEF Agrees, SentAgrees
  <2> QED
      BY <2>2, <2>3
<1> QED
    BY <1>1, <1>2, <1>3, <1>4 DEF Agrees

-----------------------------------------------------------------------------
(* The inductive invariant: it speaks of the cells where the properties    *)
(* speak of reads.                                                         *)
MemoryInv ==
    /\ m \in Machine(V)
    /\ PowerOfTwoSize => \A b \in RamAt : m.ram[RamIndex(b)] = ramLast[b]
    /\ \A b \in SvramTouched : m.svram[SvramIndex(b)] = svramLast[Mirrored(b)]
    /\ serialOut \in Seq(V)
    /\ SentInOrder

LEMMA MemoryInit == Init => MemoryInv
<1> SUFFICES ASSUME Init PROVE MemoryInv
    OBVIOUS
<1>1. m = NewMachine /\ Zero \in V /\ serialOut = <<>>
    BY DEF Init, V
<1>2. NewMachine \in Machine(V)
    BY <1>1, NewMachineType
<1>3. \A b \in RamAt : m.ram[RamIndex(b)] = ramLast[b]
    BY <1>1, MemoryAssumption DEF Init, NewMachine, RamAt
<1>4. \A b \in SvramTouched : m.svram[SvramIndex(b)] = svramLast[Mirrored(b)]
  <2> SUFFICES ASSUME NEW b \in SvramTouched
               PROVE  m.svram[SvramIndex(b)] = svramLast[Mirrored(b)]
      OBVIOUS
  <2>1. SvramIndex(b) \in SvramCells
      BY MemoryAssumption DEF SvramTouched
  <2>2. Mirrored(b) \in SvramAt
      BY DEF SvramAt, SvramTouched
  <2> QED
      BY <1>1, <2>1, <2>2 DEF Init, NewMachine
<1>5. serialOut \in Seq(V) /\ SentInOrder
    BY <1>1 DEF SentInOrder, NewMachine
<1> QED
    BY <1>1, <1>2, <1>3, <1>4, <1>5 DEF MemoryInv

(* Before its first byte a write agrees with what was there,               *)
LEMMA AgreesAtStart ==
    ASSUME MemoryInv, NEW a \in Nat, NEW v
    PROVE  Agrees(m, 0, a, v)
<1>1. \A x : x \notin 0..(0 - 1)
    OBVIOUS
<1>2. RamAgrees(m, 0, a, v)
    BY <1>1 DEF MemoryInv, RamAgrees
<1>3. SvramAgrees(m, 0, a, v)
  <2>1. \A b : Hits(0, a, b) = {}
      BY DEF Hits
  <2> QED
      BY <2>1 DEF MemoryInv, SvramAgrees
<1>4. SentAgrees(m, 0, a, v)
  <2>1. serialOut \o <<>> = serialOut
      BY DEF MemoryInv
  <2> QED
      BY <1>1, <2>1 DEF MemoryInv, SentAgrees, SentInOrder, Translated
<1> QED
    BY <1>2, <1>3, <1>4 DEF MemoryInv, Agrees

(* and after its last one with the history of the write.                   *)
LEMMA AgreesAtEnd ==
    ASSUME NEW a \in Nat, NEW k \in {1, 2, 4}, NEW v, Len(v) = k,
           Agrees(m', k, a, v), Written(a, v)
    PROVE  MemoryInv'
<1>1. m' \in Machine(V)
    BY DEF Agrees
<1>2. PowerOfTwoSize => \A b \in RamAt : m'.ram[RamIndex(b)] = ramLast'[b]
    BY DEF Agrees, RamAgrees, Written, Put
<1>3. \A b \in SvramTouched : m'.svram[SvramIndex(b)] = svramLast'[Mirrored(b)]
  <2> SUFFICES ASSUME NEW b \in SvramTouched
               PROVE  m'.svram[SvramIndex(b)] = svramLast'[Mirrored(b)]
      OBVIOUS
  <2>1. Mirrored(b) \in SvramAt
      BY DEF SvramAt, SvramTouched
  <2>2. svramLast'[Mirrored(b)] = PutMirrored(svramLast, a, v, Mirrored(b))
      BY <2>1 DEF Written
  <2> QED
      BY <2>2 DEF Agrees, SvramAgrees, PutMirrored, Hits
<1>4. serialOut' \in Seq(V) /\ SentInOrder'
  <2>1. serialOut' = serialOut \o (IF Transmitter - a \in 0..(k - 1)
                                    THEN <<v[Transmitter - a + 1]>> ELSE <<>>)
      BY DEF Written, Transmitter
  <2> QED
      BY <2>1 DEF Agrees, SentAgrees, SentInOrder, Translated
<1> QED
    BY <1>1, <1>2, <1>3, <1>4 DEF MemoryInv

LEMMA MemoryStep == MemoryInv /\ [Next]_vars => MemoryInv'
<1> SUFFICES ASSUME MemoryInv, [Next]_vars PROVE MemoryInv'
    OBVIOUS
<1>1. CASE WriteByte
  <2>1. PICK a \in Addresses, x \in Values : m' = Write8(m, a, x) /\ Written(a, <<x>>)
      BY <1>1 DEF WriteByte
  <2> DEFINE v == <<x>>
  <2>2. a \in Nat /\ a + 0 = a /\ v[0 + 1] = x /\ x \in V /\ Len(v) = 1
      BY AddressIsNat DEF V
  <2> HIDE DEF v
  <2>3. Agrees(m, 0, a, v)
      BY <2>2, AgreesAtStart
  <2>4. Agrees(m', 1, a, v)
    <3>1. Agrees(Write8(m, a + 0, v[0 + 1]), 0 + 1, a, v)
        BY <2>2, <2>3, AgreesStep
    <3> QED
        BY <2>1, <2>2, <3>1
  <2> QED
      BY <2>1, <2>2, <2>4, AgreesAtEnd DEF v
<1>2. CASE WriteWord
  <2>1. PICK a \in Addresses, v \in [1..2 -> Values] :
           m' = Write16(m, a, v) /\ Written(a, v)
      BY <1>2 DEF WriteWord
  <2>2. a \in Nat /\ a + 0 = a /\ Len(v) = 2 /\ v[1] \in V /\ v[2] \in V
      BY AddressIsNat, BytesAreSeq DEF V
  <2>3. Agrees(m, 0, a, v)
      BY <2>2, AgreesAtStart
  <2>4. Agrees(Write8(m, a, v[1]), 1, a, v)
    <3>1. Agrees(Write8(m, a + 0, v[0 + 1]), 0 + 1, a, v)
        BY <2>2, <2>3, AgreesStep
    <3> QED
        BY <2>2, <3>1
  <2>5. Agrees(Write8(Write8(m, a, v[1]), a + 1, v[1 + 1]), 1 + 1, a, v)
      BY <2>2, <2>4, AgreesStep
  <2>6. Agrees(m', 2, a, v)
      BY <2>1, <2>2, <2>5, Write16Bytes
  <2> QED
      BY <2>1, <2>2, <2>6, AgreesAtEnd
<1>3. CASE WriteLong
  <2>1. PICK a \in Addresses, v \in [1..4 -> Values] :
           m' = Write32(m, a, v) /\ Written(a, v)
      BY <1>3 DEF WriteLong
  <2>2. /\ a \in Nat /\ a + 0 = a /\ Len(v) = 4
        /\ v[1] \in V /\ v[2] \in V /\ v[3] \in V /\ v[4] \in V
      BY AddressIsNat, BytesAreSeq DEF V
  <2> DEFINE n1 == Write8(m, a, v[1])
             n2 == Write8(n1, a + 1, v[2])
             n3 == Write8(n2, a + 2, v[3])
             n4 == Write8(n3, a + 3, v[4])
  <2>3. Agrees(m, 0, a, v)
      BY <2>2, AgreesAtStart
  <2>4. Agrees(n1, 1, a, v)
    <3>1. Agrees(Write8(m, a + 0, v[0 + 1]), 0 + 1, a, v)
        BY <2>2, <2>3, AgreesStep
    <3> QED
        BY <2>2, <3>1
  <2>5. m' = n4
      BY <2>1, <2>2, Write32Bytes
  <2> HIDE DEF n1
  <2>6. Agrees(n2, 1 + 1, a, v)
    <3>1. Agrees(Write8(n1, a + 1, v[1 + 1]), 1 + 1, a, v)
        BY <2>2, <2>4, AgreesStep
    <3> QED
        BY <3>1
  <2> HIDE DEF n2
  <2>7. Agrees(n3, 2 + 1, a, v)
    <3>1. Agrees(Write8(n2, a + 2, v[2 + 1]), 2 + 1, a, v)
        BY <2>2, <2>6, AgreesStep
    <3> QED
        BY <3>1
  <2> HIDE DEF n3
  <2>8. Agrees(n4, 3 + 1, a, v)
    <3>1. Agrees(Write8(n3, a + 3, v[3 + 1]), 3 + 1, a, v)
        BY <2>2, <2>7, AgreesStep
    <3> QED
        BY <3>1
  <2> QED
      BY <2>1, <2>2, <2>5, <2>8, AgreesAtEnd
<1>4. ASSUME NEW S, m' = [m EXCEPT !.unread = S], S \subseteq ReadClear,
             UNCHANGED <<ramLast, svramLast, serialOut, writes>>
      PROVE  MemoryInv'
  <2>1. m \in Machine(V)
      BY DEF MemoryInv
  <2>2. m' \in Machine(V) /\ m'.ram = m.ram /\ m'.svram = m.svram /\ m'.sent = m.sent
      BY <1>4, <2>1 DEF Machine
  <2> QED
      BY <1>4, <2>2 DEF MemoryInv, SentInOrder
<1>5. CASE ReadAny
  <2>1. PICK a \in Addresses, n \in {1, 2, 4} : \E order \in Orders(n) :
           m' = AfterReadWide(m, a, order)
      BY <1>5 DEF ReadAny
  <2>2. m.unread \subseteq ReadClear
      BY DEF MemoryInv, Machine
  <2> QED
      BY <1>4, <1>5, <2>1, <2>2 DEF ReadAny, AfterReadWide, After
<1>6. CASE SetRegisters
    BY <1>4, <1>6 DEF SetRegisters
<1>7. CASE UNCHANGED vars
    BY <1>7 DEF vars, MemoryInv, SentInOrder
<1> QED
    BY <1>1, <1>2, <1>3, <1>5, <1>6, <1>7 DEF Next

-----------------------------------------------------------------------------
LEMMA MemoryInvariant == Spec => []MemoryInv
<1> QED
    BY MemoryInit, MemoryStep, PTL DEF Spec

(* config.h 51: RAM_SIZE "must be a multiple of 131072". With a power of   *)
(* two every byte of the main ram is one of its own, wherever and at       *)
(* whatever width it is written: a program reads what it last wrote.       *)
THEOREM MainRamIsFlat ==
    ASSUME PowerOfTwoSize
    PROVE  Spec => []RamIsFlat
<1>1. MemoryInv => RamIsFlat
  <2> SUFFICES ASSUME MemoryInv, NEW a \in RamAt
               PROVE  Read8(m, a) = ramLast[a]
      BY DEF RamIsFlat
  <2>1. a \in Nat /\ InRam(a)
      BY TouchedIsNat DEF RamAt
  <2> QED
      BY <2>1, Read8Ram DEF MemoryInv
<1> QED
    BY <1>1, MemoryInvariant, PTL

(* A write to the svram, through whichever of its mirrors, is read back at *)
(* every mirror, and no other write disturbs it.                           *)
THEOREM SvramKeepsWrites == Spec => []SvramIsFlat
<1>1. MemoryInv => SvramIsFlat
  <2> SUFFICES ASSUME MemoryInv, NEW a \in SvramTouched
               PROVE  Read8(m, a) = svramLast[Mirrored(a)]
      BY DEF SvramIsFlat, SvramTouched
  <2>1. a \in Nat /\ a < BusEnd /\ InSvram(a)
      BY TouchedIsNat DEF SvramTouched
  <2> QED
      BY <2>1, Read8Svram DEF MemoryInv
<1> QED
    BY <1>1, MemoryInvariant, PTL

(* The serial line carries what the program wrote to the transmitter, byte *)
(* by byte and in order, through writes of every width that reach it.      *)
THEOREM SerialOutput == Spec => []SentInOrder
<1>1. MemoryInv => SentInOrder
    BY DEF MemoryInv
<1> QED
    BY <1>1, MemoryInvariant, PTL

-----------------------------------------------------------------------------
(* A read marks its own register only, and no two addresses are the same   *)
(* register.                                                               *)
LEMMA RegistersDiffer ==
    ASSUME NEW a \in Nat, NEW b \in Nat, Register(a) = Register(b), Register(a) # "none"
    PROVE  a = b
    BY SMT DEF Register

(* What a byte reads as depends on the marks of its own register only.     *)
LEMMA ReadUnmarked ==
    ASSUME NEW n \in Machine(V), NEW a \in Nat, NEW S, Register(a) \notin S
    PROVE  Read8([n EXCEPT !.unread = @ \ S], a) = Read8(n, a)
<1> DEFINE r == [n EXCEPT !.unread = @ \ S]
<1>1. /\ r.ram = n.ram /\ r.svram = n.svram /\ r.pr_cont = n.pr_cont /\ r.kb_wr = n.kb_wr
      /\ r.unread = n.unread \ S
    BY DEF Machine
<1> HIDE DEF r
<1>2. Register(a) \in r.unread <=> Register(a) \in n.unread
    BY <1>1
<1>3. <<Register(a), Register(a) \in r.unread>> = <<Register(a), Register(a) \in n.unread>>
    BY <1>2
<1>4. Read8(r, a) = Read8(n, a)
    BY <1>1, <1>3, SMT DEF Read8
<1> QED
    BY <1>4 DEF r

(* An order of the bytes of a word or of a long reads each of them once.   *)
LEMMA OrderReadsAll ==
    ASSUME NEW n \in {2, 4}, NEW order \in Orders(n)
    PROVE  /\ Len(order) = n
           /\ \A i \in 0..(n - 1) : \E k \in 1..n : order[k] = i
           /\ \A k \in 1..n : order[k] \in 0..(n - 1)
           /\ \A j, k \in 1..n : order[j] = order[k] => j = k
<1>1. /\ order \in [1..n -> 0..(n - 1)]
      /\ \A j, k \in 1..n : order[j] = order[k] => j = k
    BY DEF Orders
<1>2. CASE n = 2
  <2>1. /\ order[1] \in {0, 1} /\ order[2] \in {0, 1} /\ order[1] # order[2]
      BY <1>1, <1>2
  <2>2. \A i \in 0..1 : order[1] = i \/ order[2] = i
      BY <2>1
  <2> QED
      BY <1>1, <1>2, <2>2
<1>3. CASE n = 4
  <2>1. /\ order[1] \in 0..3 /\ order[2] \in 0..3 /\ order[3] \in 0..3 /\ order[4] \in 0..3
        /\ order[1] # order[2] /\ order[1] # order[3] /\ order[1] # order[4]
        /\ order[2] # order[3] /\ order[2] # order[4] /\ order[3] # order[4]
      BY <1>1, <1>3
  <2>2. \A i \in 0..3 : order[1] = i \/ order[2] = i \/ order[3] = i \/ order[4] = i
      BY <2>1
  <2> QED
      BY <1>1, <1>3, <2>2
<1> QED
    BY <1>2, <1>3

(* So it reads every byte as if it were the first.                         *)
BytesAt(q, a, n) == [i \in 1..n |-> Read8(q, a + i - 1)]

MarkedAt(q, a, n) == [q EXCEPT !.unread = q.unread \ {Register(a + j) : j \in 0..(n - 1)}]

LEMMA ReadsAsFirst ==
    ASSUME NEW q \in Machine(V), NEW a \in Nat, NEW n \in {2, 4}, NEW order \in Orders(n)
    PROVE  /\ ReadWide(q, a, order) = BytesAt(q, a, n)
           /\ AfterReadWide(q, a, order) = MarkedAt(q, a, n)
<1>0. n \in Nat /\ Len(order) = n
  <2>1. n \in Nat
      OBVIOUS
  <2>2. Len(order) = n
      BY OrderReadsAll
  <2> QED
      BY <2>1, <2>2
<1>1. ASSUME NEW i \in 1..n
      PROVE  Read8(After(q, a, order, (CHOOSE k \in 1..n : order[k] = i - 1) - 1), a + i - 1)
             = Read8(q, a + i - 1)
  <2> DEFINE k == CHOOSE k \in 1..n : order[k] = i - 1
             S == {Register(a + order[j]) : j \in 1..(k - 1)}
  <2>1. k \in 1..n /\ order[k] = i - 1
    <3>1. i - 1 \in 0..(n - 1)
        BY <1>0
    <3> QED
        BY <3>1, OrderReadsAll
  <2> HIDE DEF k
  <2>2. a + i - 1 \in Nat /\ a + order[k] = a + i - 1
      BY <1>0, <2>1
  <2>3. ASSUME Register(a + i - 1) = "none"
        PROVE  Read8(After(q, a, order, k - 1), a + i - 1) = Read8(q, a + i - 1)
    <3>1. Register(a + i - 1) \notin q.unread
        BY <2>3 DEF Machine, ReadClear
    <3>2. After(q, a, order, k - 1) = [q EXCEPT !.unread = q.unread \ (S \ {"none"})]
      <4>1. q.unread \ S = q.unread \ (S \ {"none"})
          BY DEF Machine, ReadClear
      <4> QED
          BY <4>1 DEF After
    <3>3. Register(a + i - 1) \notin S \ {"none"}
        BY <2>3
    <3> HIDE DEF S
    <3>4. Read8([q EXCEPT !.unread = q.unread \ (S \ {"none"})], a + i - 1) = Read8(q, a + i - 1)
        BY <2>2, <3>3, ReadUnmarked
    <3> QED
        BY <3>2, <3>4
  <2>4. ASSUME Register(a + i - 1) # "none"
        PROVE  Read8(After(q, a, order, k - 1), a + i - 1) = Read8(q, a + i - 1)
    <3>1. Register(a + i - 1) \notin S
      <4> SUFFICES ASSUME NEW j \in 1..(k - 1), Register(a + order[j]) = Register(a + i - 1)
                   PROVE  FALSE
          OBVIOUS
      <4>1. j \in 1..n /\ j # k
          BY <1>0, <2>1
      <4>2. a + order[j] \in Nat
          BY <1>0, <4>1, OrderReadsAll
      <4>3. a + order[j] = a + order[k]
          BY <2>2, <2>4, <4>2, RegistersDiffer
      <4>4. order[j] = order[k]
          BY <1>0, <2>1, <4>1, <4>3, OrderReadsAll
      <4> QED
          BY <2>1, <4>1, <4>4, OrderReadsAll
    <3> QED
        BY <2>2, <3>1, ReadUnmarked DEF After
  <2> QED
      BY <2>3, <2>4 DEF k
<1>2. ReadWide(q, a, order) = BytesAt(q, a, n)
    BY <1>0, <1>1 DEF ReadWide, BytesAt
<1>3. {Register(a + order[k]) : k \in 1..n} = {Register(a + j) : j \in 0..(n - 1)}
  <2>1. \A k \in 1..n : \E j \in 0..(n - 1) : order[k] = j
      BY OrderReadsAll
  <2>2. \A j \in 0..(n - 1) : \E k \in 1..n : order[k] = j
      BY OrderReadsAll
  <2> QED
      BY <2>1, <2>2
<1> QED
    BY <1>0, <1>2, <1>3 DEF AfterReadWide, After, MarkedAt

(* m68kmess.h lets the compiler choose the order in which a word or a long *)
(* is read. The program gets the same value in all of them, and the DUART  *)
(* is left the same, at every address.                                     *)
THEOREM ReadOrder == Spec => []ReadOrderIsFree
<1>1. MemoryInv => ReadOrderIsFree
  <2> SUFFICES ASSUME MemoryInv, NEW a \in Addresses, NEW n \in {2, 4}, NEW order \in Orders(n)
               PROVE  /\ ReadWide(m, a, order) = ReadWide(m, a, [k \in 1..n |-> k - 1])
                      /\ AfterReadWide(m, a, order) =
                            AfterReadWide(m, a, [k \in 1..n |-> k - 1])
      BY DEF ReadOrderIsFree
  <2>1. m \in Machine(V) /\ a \in Nat
      BY AddressIsNat DEF MemoryInv
  <2>2. [k \in 1..n |-> k - 1] \in Orders(n)
    <3>1. n \in Nat
        OBVIOUS
    <3> QED
        BY <3>1 DEF Orders
  <2> DEFINE first == [k \in 1..n |-> k - 1]
  <2>3. /\ ReadWide(m, a, order) = BytesAt(m, a, n)
        /\ AfterReadWide(m, a, order) = MarkedAt(m, a, n)
      BY <2>1, ReadsAsFirst
  <2>4. ReadWide(m, a, first) = BytesAt(m, a, n) /\ AfterReadWide(m, a, first) = MarkedAt(m, a, n)
      BY <2>1, <2>2, ReadsAsFirst
  <2> QED
      BY <2>3, <2>4
<1> QED
    BY <1>1, MemoryInvariant, PTL
=============================================================================
