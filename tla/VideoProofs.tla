---------------------------- MODULE VideoProofs ----------------------------
(***************************************************************************)
(* The display: what the window shows when a slice ends, for every memory  *)
(* image, every program of writes, both settings of FASTER_VIDEO and both  *)
(* user interfaces.                                                        *)
(***************************************************************************)
EXTENDS Video, TLAPS

(* Of the bus and its machine, what is needed here: MemoryProofs has the   *)
(* same, and more, but Memory and Video have each an m of their own.       *)
PowerOfTwoSize ==
    RAM_SIZE \in {131072, 262144, 524288, 1048576, 2097152, 4194304}

(* Machines whose bytes are in V.                                          *)
Machine(V) ==
    [ram : [RamCells -> V], svram : [SvramCells -> V], unread : SUBSET ReadClear,
     pr_cont : V, kb_wr : V, v_blank : Nat, polarity : Polarities, vram_touched : BOOLEAN,
     framebuffer : [Pixels -> [byte : V, polarity : Polarities]],
     printed : Seq(V), sent : Seq(V)]

LEMMA SizeBound == RAM_SIZE \in Nat /\ 131072 <= RAM_SIZE /\ RAM_SIZE <= 4194304
    BY RamSizeAssumption, SMT

LEMMA RamIndexIsOffset ==
    ASSUME PowerOfTwoSize, NEW a \in Nat, InRam(a)
    PROVE  RamIndex(a) = a - RamBase
<1>1. CASE RAM_SIZE = 131072
    BY <1>1, SMT DEF RamIndex, InRam, RamBase, Bits, Bit
<1>2. CASE RAM_SIZE = 262144
    BY <1>2, SMT DEF RamIndex, InRam, RamBase, Bits, Bit
<1>3. CASE RAM_SIZE = 524288
    BY <1>3, SMT DEF RamIndex, InRam, RamBase, Bits, Bit
<1>4. CASE RAM_SIZE = 1048576
    BY <1>4, SMT DEF RamIndex, InRam, RamBase, Bits, Bit
<1>5. CASE RAM_SIZE = 2097152
    BY <1>5, SMT DEF RamIndex, InRam, RamBase, Bits, Bit
<1>6. CASE RAM_SIZE = 4194304
    BY <1>6, SMT DEF RamIndex, InRam, RamBase, Bits, Bit
<1> QED
    BY <1>1, <1>2, <1>3, <1>4, <1>5, <1>6, SMT DEF PowerOfTwoSize

LEMMA RamIsApart ==
    ASSUME NEW a \in Nat, InRam(a)
    PROVE  /\ ~InRom(a) /\ ~InSvram(a) /\ ~InSvrom(a)
           /\ a < 8388608 /\ a >= 4194304
    BY SizeBound, SMT DEF InRam, InRom, InSvram, InSvrom, RamBase, Bits, Bit

LEMMA NewMachineType ==
    ASSUME NEW V, Zero \in V
    PROVE  NewMachine \in Machine(V)
<1>1. "dark" \in Polarities
    BY DEF Polarities
<1>2. [i \in Pixels |-> [byte |-> Zero, polarity |-> "dark"]]
         \in [Pixels -> [byte : V, polarity : Polarities]]
    BY <1>1
<1>3. <<>> \in Seq(V) /\ 0 \in Nat
    OBVIOUS
<1> QED
    BY <1>1, <1>2, <1>3 DEF NewMachine, Machine

LEMMA Write8Type ==
    ASSUME NEW V, 10 \in V, 13 \in V, NEW n \in Machine(V), NEW a \in Nat, NEW v \in V
    PROVE  Write8(n, a, v) \in Machine(V)
<1>1. n.polarity \in Polarities /\ "inverse" \in Polarities /\ "normal" \in Polarities
    BY DEF Machine, Polarities
<1>2. Drawn(n, v) \in [byte : V, polarity : Polarities]
    BY <1>1 DEF Drawn
<1>3. WriteRam(n, a, v) \in Machine(V)
    BY <1>2 DEF WriteRam, Machine
<1>4. WriteOpr(n, v) \in Machine(V)
    BY <1>1 DEF WriteOpr, Machine
<1>5. PrintOut(n, v) \in Machine(V)
  <2>1. n.printed \in Seq(V) /\ Append(n.printed, v) \in Seq(V)
      BY DEF Machine
  <2> QED
      BY <2>1 DEF PrintOut, Machine
<1>6. Send(n, v) \in Machine(V)
  <2> DEFINE out == IF translate /\ v = 13 THEN 10 ELSE v
  <2>1. n.sent \in Seq(V) /\ out \in V
      BY DEF Machine
  <2> HIDE DEF out
  <2>2. Append(n.sent, out) \in Seq(V)
      BY <2>1
  <2>3. [n EXCEPT !.sent = IF "serial" \in outputs THEN Append(n.sent, out) ELSE n.sent]
           \in Machine(V)
      BY <2>1, <2>2 DEF Machine
  <2> QED
      BY <2>3 DEF Send, out
<1>7. [n EXCEPT !.svram[SvramIndex(a)] = v] \in Machine(V)
    BY DEF Machine
<1>8. [n EXCEPT !.pr_cont = v] \in Machine(V) /\ [n EXCEPT !.kb_wr = v] \in Machine(V)
    BY DEF Machine
<1> QED
    BY <1>3, <1>4, <1>5, <1>6, <1>7, <1>8, SMT DEF Write8

LEMMA Write32Bytes ==
    ASSUME NEW n, NEW a \in Nat, NEW v
    PROVE  Write32(n, a, v) =
              Write8(Write8(Write8(Write8(n, a, v[1]), a + 1, v[2]), a + 2, v[3]), a + 3, v[4])
<1>1. (a + 2) + 1 = a + 3
    OBVIOUS
<1> QED
    BY <1>1 DEF Write32, Write16

-----------------------------------------------------------------------------
LEMMA SomeBytes == Zero \in Bytes /\ 10 \in Bytes /\ 13 \in Bytes
    BY DEF Bytes, Zero

(* What one write of a byte does to the switch of the display.             *)
LEMMA Write8Blank ==
    ASSUME NEW n \in Machine(Bytes), NEW a \in Nat, NEW v
    PROVE  Write8(n, a, v).v_blank \in {0, 1, n.v_blank}
<1>1. /\ WriteRam(n, a, v).v_blank = n.v_blank /\ WriteOpr(n, v).v_blank \in {0, 1}
      /\ PrintOut(n, v).v_blank = n.v_blank /\ Send(n, v).v_blank = n.v_blank
      /\ [n EXCEPT !.svram[SvramIndex(a)] = v].v_blank = n.v_blank
      /\ [n EXCEPT !.pr_cont = v].v_blank = n.v_blank
      /\ [n EXCEPT !.kb_wr = v].v_blank = n.v_blank
    BY DEF WriteRam, WriteOpr, PrintOut, Send, Machine
<1> QED
    BY <1>1, SMT DEF Write8

(* A machine that one or more writes have made from another.               *)
MadeBlank(n, w) == w \in Machine(Bytes) /\ w.v_blank \in {0, 1, n.v_blank}

LEMMA WritesBlank ==
    ASSUME NEW n \in Machine(Bytes), NEW a \in Nat
    PROVE  /\ \A v \in Bytes : MadeBlank(n, Write8(n, a, v))
           /\ \A v \in [1..4 -> Bytes] : MadeBlank(n, Write32(n, a, v))
<1>1. ASSUME NEW q \in Machine(Bytes), NEW b \in Nat, NEW v \in Bytes
      PROVE  MadeBlank(q, Write8(q, b, v))
    BY SomeBytes, Write8Type, Write8Blank DEF MadeBlank
<1>2. ASSUME NEW v \in [1..4 -> Bytes]
      PROVE  MadeBlank(n, Write32(n, a, v))
  <2> DEFINE n1 == Write8(n, a, v[1])
             n2 == Write8(n1, a + 1, v[2])
             n3 == Write8(n2, a + 2, v[3])
             n4 == Write8(n3, a + 3, v[4])
  <2>1. Write32(n, a, v) = n4
      BY Write32Bytes
  <2>2. /\ a + 1 \in Nat /\ a + 2 \in Nat /\ a + 3 \in Nat
        /\ v[1] \in Bytes /\ v[2] \in Bytes /\ v[3] \in Bytes /\ v[4] \in Bytes
      OBVIOUS
  <2>3. MadeBlank(n, n1)
      BY <1>1, <2>2
  <2> HIDE DEF n1
  <2>4. MadeBlank(n1, n2)
      BY <1>1, <2>2, <2>3 DEF MadeBlank
  <2> HIDE DEF n2
  <2>5. MadeBlank(n2, n3)
      BY <1>1, <2>2, <2>4 DEF MadeBlank
  <2> HIDE DEF n3
  <2>6. MadeBlank(n3, n4)
      BY <1>1, <2>2, <2>5 DEF MadeBlank
  <2> HIDE DEF n4
  <2> QED
      BY <2>1, <2>3, <2>4, <2>5, <2>6 DEF MadeBlank
<1> QED
    BY <1>1, <1>2

-----------------------------------------------------------------------------
(* The types, and what the counter v_blank says of the window that Xlib    *)
(* clears.                                                                 *)
Pictures == [Pixels -> [byte : Bytes, polarity : Polarities]]

DarkInv ==
    /\ m \in Machine(Bytes)
    /\ m.v_blank \in 0..2
    /\ screen \in Pictures \cup {Cleared}
    /\ ended \in BOOLEAN /\ changed \in BOOLEAN /\ lit \subseteq Pixels
    /\ ui = "xlib" /\ m.v_blank = 2 => screen = Cleared
    /\ ended => m.v_blank # 1

LEMMA UpdateType ==
    ASSUME NEW n \in Machine(Bytes)
    PROVE  /\ UpdateFramebuffer(n) \in Machine(Bytes)
           /\ UpdateFramebuffer(n).framebuffer \in Pictures
           /\ UpdateFramebuffer(n).v_blank = n.v_blank
           /\ UpdateFramebuffer(n).vram_touched = n.vram_touched
           /\ UpdateFramebuffer(n).ram = n.ram
           /\ \A i \in Pixels : UpdateFramebuffer(n).framebuffer[i].byte = n.ram[i]
<1> DEFINE picture == [i \in Pixels |-> Drawn(n, n.ram[i])]
<1>1. \A i \in Pixels : /\ Drawn(n, n.ram[i]) \in [byte : Bytes, polarity : Polarities]
                        /\ Drawn(n, n.ram[i]).byte = n.ram[i]
    BY DEF Drawn, Machine, Pixels
<1>2. picture \in Pictures /\ \A i \in Pixels : picture[i].byte = n.ram[i]
    BY <1>1 DEF Pictures
<1> HIDE DEF picture
<1>3. UpdateFramebuffer(n) = [n EXCEPT !.framebuffer = picture]
    BY DEF UpdateFramebuffer, picture
<1> QED
    BY <1>2, <1>3 DEF Machine, Pictures

LEMMA LoadedType ==
    ASSUME NEW image \in Images
    PROVE  LET loaded == [NewMachine EXCEPT !.ram = image]
           IN /\ loaded \in Machine(Bytes)
              /\ loaded.v_blank = 0 /\ loaded.vram_touched = FALSE
<1>1. NewMachine \in Machine(Bytes)
    BY SomeBytes, NewMachineType
<1>2. image \in [RamCells -> Bytes]
    BY VideoAssumption
<1>3. NewMachine.v_blank = 0 /\ NewMachine.vram_touched = FALSE
    BY DEF NewMachine
<1> QED
    BY <1>1, <1>2, <1>3 DEF Machine

LEMMA DarkInit == Init => DarkInv
<1> SUFFICES ASSUME Init PROVE DarkInv
    OBVIOUS
<1>1. PICK image \in Images :
         m = IF FASTER_VIDEO
             THEN [UpdateFramebuffer([NewMachine EXCEPT !.ram = image]) EXCEPT !.vram_touched = TRUE]
             ELSE [NewMachine EXCEPT !.ram = image]
    BY DEF Init
<1> DEFINE loaded == [NewMachine EXCEPT !.ram = image]
<1>2. loaded \in Machine(Bytes) /\ loaded.v_blank = 0
    BY LoadedType
<1>3. m = IF FASTER_VIDEO THEN [UpdateFramebuffer(loaded) EXCEPT !.vram_touched = TRUE]
                          ELSE loaded
    BY <1>1
<1> HIDE DEF loaded
<1>4. UpdateFramebuffer(loaded) \in Machine(Bytes) /\ UpdateFramebuffer(loaded).v_blank = 0
    BY <1>2, UpdateType
<1>5. m \in Machine(Bytes) /\ m.v_blank = 0
    BY <1>2, <1>3, <1>4 DEF Machine
<1>6. ended \in BOOLEAN /\ changed \in BOOLEAN /\ ~ended /\ screen = Cleared /\ lit = {}
    BY DEF Init
<1> QED
    BY <1>5, <1>6 DEF DarkInv

LEMMA DarkWrite ==
    ASSUME DarkInv, NEW w, MadeBlank(m, w), CpuWrites(w)
    PROVE  DarkInv'
<1>1. ended' \in BOOLEAN /\ changed' \in BOOLEAN /\ ~ended'
      /\ screen' = screen /\ m' = w /\ ui' = ui
    BY DEF CpuWrites
<1>2. lit' \subseteq Pixels
    BY DEF CpuWrites, DarkInv
<1> QED
    BY <1>1, <1>2 DEF DarkInv, MadeBlank

LEMMA DarkStep == DarkInv /\ [Next]_vars => DarkInv'
<1> SUFFICES ASSUME DarkInv, [Next]_vars PROVE DarkInv'
    OBVIOUS
<1>0. m \in Machine(Bytes)
    BY DEF DarkInv
<1>1. CASE WriteByte
  <2>1. PICK a \in Addresses, v \in Values : CpuWrites(Write8(m, a, v))
      BY <1>1 DEF WriteByte
  <2>2. a \in Nat /\ v \in Bytes
      BY VideoAssumption
  <2> QED
      BY <1>0, <2>1, <2>2, WritesBlank, DarkWrite
<1>2. CASE WriteLong
  <2>1. PICK a \in Addresses, v \in Longs : CpuWrites(Write32(m, a, v))
      BY <1>2 DEF WriteLong
  <2>2. a \in Nat /\ v \in [1..4 -> Bytes]
      BY VideoAssumption
  <2> QED
      BY <1>0, <2>1, <2>2, WritesBlank, DarkWrite
<1>3. CASE SetOpr
  <2>1. PICK v \in OprValues : CpuWrites(Write8(m, 8650753, v))
      BY <1>3 DEF SetOpr
  <2>2. 8650753 \in Nat /\ v \in Bytes
      BY VideoAssumption, SMT
  <2>3. MadeBlank(m, Write8(m, 8650753, v))
      BY <1>0, <2>2, WritesBlank, SMT
  <2> QED
      BY <2>1, <2>3, DarkWrite, SMT
<1>4. CASE SliceEnd
  <2>0. lit' = lit /\ ui' = ui
      BY <1>4 DEF SliceEnd
  <2>1. CASE Refresh
    <3> DEFINE drawn == IF FASTER_VIDEO THEN m ELSE UpdateFramebuffer(m)
    <3>1. /\ drawn \in Machine(Bytes) /\ drawn.v_blank = m.v_blank
          /\ drawn.framebuffer \in Pictures
        BY <1>0, UpdateType DEF Machine, Pictures
    <3>2. /\ m.v_blank = 0 /\ screen' = drawn.framebuffer /\ changed' = FALSE
          /\ m' = [drawn EXCEPT !.vram_touched = FALSE] /\ ended' = TRUE
        BY <1>4, <2>1 DEF Refresh, SliceEnd
    <3> HIDE DEF drawn
    <3>3. m' \in Machine(Bytes) /\ m'.v_blank = 0
        BY <3>1, <3>2 DEF Machine
    <3>4. ended' \in BOOLEAN /\ changed' \in BOOLEAN
        BY <3>2
    <3> QED
        BY <2>0, <3>1, <3>2, <3>3, <3>4 DEF DarkInv
  <2>2. CASE Blank
    <3>1. m' \in Machine(Bytes) /\ m'.v_blank = 2
      <4>1. m' = [m EXCEPT !.v_blank = 2]
          BY <2>2 DEF Blank
      <4> QED
          BY <1>0, <4>1 DEF Machine
    <3>2. /\ screen' \in Pictures \cup {Cleared}
          /\ ui = "xlib" => screen' = Cleared
        BY <2>2 DEF Blank, AfterClear, DarkInv
    <3> QED
        BY <1>4, <2>0, <2>2, <3>1, <3>2 DEF Blank, SliceEnd, DarkInv
  <2>3. CASE NothingToShow
      BY <1>4, <2>0, <2>3 DEF NothingToShow, SliceEnd, DarkInv
  <2> QED
      BY <1>4, <2>1, <2>2, <2>3 DEF SliceEnd
<1>5. CASE UNCHANGED vars
    BY <1>5 DEF vars, DarkInv
<1> QED
    BY <1>1, <1>2, <1>3, <1>4, <1>5 DEF Next

LEMMA DarkInvariant == Spec => []DarkInv
<1> QED
    BY DarkInit, DarkStep, PTL DEF Spec

(* v_blank, a byte that is counted up, stops before it comes back to 0.    *)
THEOREM DisplayTypes == Spec => []TypeOK
<1>1. DarkInv => TypeOK
  <2> SUFFICES ASSUME DarkInv PROVE TypeOK
      OBVIOUS
  <2>1. DOMAIN screen \in {Pixels, {}}
      BY DEF DarkInv, Pictures, Cleared
  <2> QED
      BY <2>1 DEF DarkInv, Machine, TypeOK
<1> QED
    BY <1>1, DarkInvariant, PTL

(* With Xlib the window is empty after every slice while the display is    *)
(* off: the counter says so at 2, and cannot be 1 when a slice has ended.  *)
THEOREM DisplayOff == Spec => []BlankStaysDark
<1>1. DarkInv => BlankStaysDark
    BY DEF DarkInv, BlankStaysDark
<1> QED
    BY <1>1, DarkInvariant, PTL

-----------------------------------------------------------------------------
(* With FASTER_VIDEO the framebuffer follows the ram byte by byte.         *)
Follows(n) == FASTER_VIDEO => \A i \in Pixels : n.framebuffer[i].byte = n.ram[i]

(* What a write does on display, it says in vram_touched.                  *)
MadeShown(n, w) ==
    /\ w \in Machine(Bytes)
    /\ Follows(n) => Follows(w)
    /\ n.vram_touched => w.vram_touched
    /\ ~w.vram_touched => \A i \in Pixels : w.ram[i] = n.ram[i]

LEMMA SameOnDisplay ==
    ASSUME NEW n \in Machine(Bytes), NEW w \in Machine(Bytes),
           w.ram = n.ram, w.framebuffer = n.framebuffer, w.vram_touched = n.vram_touched
    PROVE  MadeShown(n, w)
    BY DEF MadeShown, Follows

(* A pixel byte is below the limit that the code compares the address to.  *)
LEMMA PixelsAreOnDisplay ==
    ASSUME PowerOfTwoSize, NEW a \in Nat, InRam(a), RamIndex(a) \in Pixels
    PROVE  OnDisplay(a)
<1>1. RamIndex(a) = a - RamBase
    BY RamIndexIsOffset
<1>2. VideoSize \in Nat /\ RamBase \in Nat
    BY SMT DEF VideoSize, RamBase
<1>3. RamIndex(a) < VideoSize
    BY <1>2, SMT DEF Pixels
<1> QED
    BY <1>1, <1>2, <1>3, SMT DEF OnDisplay

LEMMA WriteRamShown ==
    ASSUME PowerOfTwoSize, NEW n \in Machine(Bytes), NEW a \in Nat, InRam(a), NEW v \in Bytes
    PROVE  MadeShown(n, WriteRam(n, a, v))
<1> DEFINE w == WriteRam(n, a, v)
           r == RamIndex(a)
           ram == [n.ram EXCEPT ![r] = v]
           picture == IF FASTER_VIDEO THEN [n.framebuffer EXCEPT ![r] = Drawn(n, v)]
                                      ELSE n.framebuffer
<1>1. w \in Machine(Bytes)
  <2>1. Write8(n, a, v) = w
      BY RamIsApart DEF Write8
  <2>2. Write8(n, a, v) \in Machine(Bytes)
      BY SomeBytes, Write8Type
  <2> QED
      BY <2>1, <2>2
<1>2. /\ n.ram \in [RamCells -> Bytes] /\ Pixels \subseteq RamCells
      /\ n.framebuffer \in Pictures /\ Drawn(n, v).byte = v
    BY DEF Machine, Pixels, Pictures, Drawn
<1>3. w.ram = ram
    BY DEF WriteRam, Machine
<1>4. ASSUME OnDisplay(a) PROVE MadeShown(n, w)
  <2>1. w.vram_touched /\ w.framebuffer = picture
      BY <1>4 DEF WriteRam, Machine
  <2>2. Follows(n) => Follows(w)
    <3> SUFFICES ASSUME Follows(n), FASTER_VIDEO, NEW i \in Pixels
                 PROVE  w.framebuffer[i].byte = w.ram[i]
        BY DEF Follows
    <3>1. n.framebuffer[i].byte = n.ram[i]
        BY DEF Follows
    <3>2. picture = [n.framebuffer EXCEPT ![r] = Drawn(n, v)]
        OBVIOUS
    <3> HIDE DEF w, picture, r
    <3>3. CASE i = r
        BY <1>2, <1>3, <2>1, <3>2, <3>3 DEF Pictures
    <3>4. CASE i # r
        BY <1>2, <1>3, <2>1, <3>1, <3>2, <3>4 DEF Pictures
    <3> QED
        BY <3>3, <3>4
  <2> HIDE DEF w
  <2> QED
      BY <1>1, <2>1, <2>2 DEF MadeShown
<1>5. ASSUME ~OnDisplay(a) PROVE MadeShown(n, w)
  <2>1. w.vram_touched = n.vram_touched /\ w.framebuffer = n.framebuffer
      BY <1>5 DEF WriteRam, Machine
  <2>2. r \notin Pixels
      BY <1>5, PixelsAreOnDisplay
  <2> HIDE DEF w, r
  <2>3. \A i \in Pixels : w.ram[i] = n.ram[i]
      BY <1>2, <1>3, <2>2
  <2> QED
      BY <1>1, <2>1, <2>3 DEF MadeShown, Follows
<1> QED
    BY <1>4, <1>5

LEMMA Write8Shown ==
    ASSUME PowerOfTwoSize, NEW n \in Machine(Bytes), NEW a \in Nat, NEW v \in Bytes
    PROVE  MadeShown(n, Write8(n, a, v))
<1>1. Write8(n, a, v) \in Machine(Bytes)
    BY SomeBytes, Write8Type
<1>2. CASE InRam(a)
  <2>1. Write8(n, a, v) = WriteRam(n, a, v)
      BY <1>2, RamIsApart DEF Write8
  <2> QED
      BY <1>2, <2>1, WriteRamShown
<1>3. CASE ~InRam(a)
  <2> DEFINE Same(w) == w.ram = n.ram /\ w.framebuffer = n.framebuffer
                        /\ w.vram_touched = n.vram_touched
  <2>1. /\ Same(WriteOpr(n, v)) /\ Same(PrintOut(n, v)) /\ Same(Send(n, v)) /\ Same(n)
        /\ Same([n EXCEPT !.svram[SvramIndex(a)] = v])
        /\ Same([n EXCEPT !.pr_cont = v]) /\ Same([n EXCEPT !.kb_wr = v])
      BY DEF WriteOpr, PrintOut, Send, Machine
  <2> HIDE DEF Same
  <2>2. Same(Write8(n, a, v))
      BY <1>3, <2>1, SMT DEF Write8
  <2> QED
      BY <1>1, <2>2, SameOnDisplay DEF Same
<1> QED
    BY <1>2, <1>3

LEMMA ShownTwice ==
    ASSUME NEW n, NEW w, NEW x, MadeShown(n, w), MadeShown(w, x)
    PROVE  MadeShown(n, x)
    BY DEF MadeShown

LEMMA Write32Shown ==
    ASSUME PowerOfTwoSize, NEW n \in Machine(Bytes), NEW a \in Nat, NEW v \in [1..4 -> Bytes]
    PROVE  MadeShown(n, Write32(n, a, v))
<1> DEFINE n1 == Write8(n, a, v[1])
           n2 == Write8(n1, a + 1, v[2])
           n3 == Write8(n2, a + 2, v[3])
           n4 == Write8(n3, a + 3, v[4])
<1>1. Write32(n, a, v) = n4
    BY Write32Bytes
<1>2. /\ a + 1 \in Nat /\ a + 2 \in Nat /\ a + 3 \in Nat
      /\ v[1] \in Bytes /\ v[2] \in Bytes /\ v[3] \in Bytes /\ v[4] \in Bytes
    OBVIOUS
<1>3. MadeShown(n, n1) /\ n1 \in Machine(Bytes)
    BY <1>2, Write8Shown DEF MadeShown
<1> HIDE DEF n1
<1>4. MadeShown(n1, n2) /\ n2 \in Machine(Bytes)
    BY <1>2, <1>3, Write8Shown DEF MadeShown
<1> HIDE DEF n2
<1>5. MadeShown(n2, n3) /\ n3 \in Machine(Bytes)
    BY <1>2, <1>4, Write8Shown DEF MadeShown
<1> HIDE DEF n3
<1>6. MadeShown(n3, n4)
    BY <1>2, <1>5, Write8Shown
<1> HIDE DEF n4
<1>7. MadeShown(n, n2)
    BY <1>3, <1>4, ShownTwice
<1>8. MadeShown(n, n3)
    BY <1>5, <1>7, ShownTwice
<1> QED
    BY <1>1, <1>6, <1>8, ShownTwice

-----------------------------------------------------------------------------
(* The inductive invariant of the picture: what is on the screen is what   *)
(* is in the ram unless vram_touched says otherwise.                       *)
ShownInv ==
    /\ Follows(m)
    /\ changed => m.vram_touched
    /\ ~m.vram_touched /\ screen # Cleared => \A i \in Pixels : screen[i].byte = m.ram[i]
    /\ ended /\ m.v_blank = 0 => ~m.vram_touched

LEMMA ShownInit == Init => ShownInv
<1> SUFFICES ASSUME Init PROVE ShownInv
    OBVIOUS
<1>1. PICK image \in Images :
         m = IF FASTER_VIDEO
             THEN [UpdateFramebuffer([NewMachine EXCEPT !.ram = image]) EXCEPT !.vram_touched = TRUE]
             ELSE [NewMachine EXCEPT !.ram = image]
    BY DEF Init
<1> DEFINE loaded == [NewMachine EXCEPT !.ram = image]
           drawn  == UpdateFramebuffer(loaded)
<1>2. loaded \in Machine(Bytes)
    BY LoadedType
<1>3. m = IF FASTER_VIDEO THEN [drawn EXCEPT !.vram_touched = TRUE] ELSE loaded
    BY <1>1
<1> HIDE DEF loaded
<1>4. drawn \in Machine(Bytes) /\ drawn.ram = loaded.ram
      /\ \A i \in Pixels : drawn.framebuffer[i].byte = loaded.ram[i]
    BY <1>2, UpdateType
<1> HIDE DEF drawn
<1>5. FASTER_VIDEO => m.ram = drawn.ram /\ m.framebuffer = drawn.framebuffer
    BY <1>3, <1>4 DEF Machine
<1>6. Follows(m)
    BY <1>4, <1>5 DEF Follows
<1> QED
    BY <1>6 DEF Init, ShownInv

LEMMA ShownWrite ==
    ASSUME ShownInv, NEW w, MadeShown(m, w), CpuWrites(w)
    PROVE  ShownInv'
<1>1. m' = w /\ screen' = screen /\ ~ended'
    BY DEF CpuWrites
<1>2. Follows(m')
    BY <1>1 DEF ShownInv, MadeShown
<1>3. ~w.vram_touched => /\ ~m.vram_touched /\ ~changed
                         /\ \A i \in Pixels : w.ram[i] = m.ram[i]
    BY DEF MadeShown, ShownInv
<1>4. changed' => w.vram_touched
    BY <1>1, <1>3 DEF CpuWrites
<1> QED
    BY <1>1, <1>2, <1>3, <1>4 DEF ShownInv, Follows

LEMMA ShownStep == PowerOfTwoSize /\ DarkInv /\ ShownInv /\ [Next]_vars => ShownInv'
<1> SUFFICES ASSUME PowerOfTwoSize, DarkInv, ShownInv, [Next]_vars PROVE ShownInv'
    OBVIOUS
<1>0. m \in Machine(Bytes)
    BY DEF DarkInv
<1>1. CASE WriteByte
  <2>1. PICK a \in Addresses, v \in Values : CpuWrites(Write8(m, a, v))
      BY <1>1 DEF WriteByte
  <2>2. a \in Nat /\ v \in Bytes
      BY VideoAssumption
  <2>3. MadeShown(m, Write8(m, a, v))
      BY <1>0, <2>2, Write8Shown
  <2> QED
      BY <2>1, <2>3, ShownWrite
<1>2. CASE WriteLong
  <2>1. PICK a \in Addresses, v \in Longs : CpuWrites(Write32(m, a, v))
      BY <1>2 DEF WriteLong
  <2>2. a \in Nat /\ v \in [1..4 -> Bytes]
      BY VideoAssumption
  <2>3. MadeShown(m, Write32(m, a, v))
      BY <1>0, <2>2, Write32Shown
  <2> QED
      BY <2>1, <2>3, ShownWrite
<1>3. CASE SetOpr
  <2>1. PICK v \in OprValues : CpuWrites(Write8(m, 8650753, v))
      BY <1>3 DEF SetOpr
  <2>2. 8650753 \in Nat /\ v \in Bytes
      BY VideoAssumption, SMT
  <2>3. MadeShown(m, Write8(m, 8650753, v))
      BY <1>0, <2>2, Write8Shown, SMT
  <2> QED
      BY <2>1, <2>3, ShownWrite, SMT
<1>4. CASE SliceEnd
  <2>1. CASE Refresh
    <3> DEFINE drawn == IF FASTER_VIDEO THEN m ELSE UpdateFramebuffer(m)
    <3>1. /\ drawn \in Machine(Bytes) /\ drawn.ram = m.ram
          /\ \A i \in Pixels : drawn.framebuffer[i].byte = m.ram[i]
        BY <1>0, UpdateType DEF ShownInv, Follows
    <3>2. /\ screen' = drawn.framebuffer /\ changed' = FALSE
          /\ m' = [drawn EXCEPT !.vram_touched = FALSE]
        BY <2>1 DEF Refresh
    <3> HIDE DEF drawn
    <3>3. /\ m'.ram = m.ram /\ m'.framebuffer = drawn.framebuffer /\ m'.vram_touched = FALSE
        BY <3>1, <3>2 DEF Machine
    <3> QED
        BY <3>1, <3>2, <3>3 DEF ShownInv, Follows
  <2>2. CASE Blank
    <3>1. m' = [m EXCEPT !.v_blank = 2]
        BY <2>2 DEF Blank
    <3>2. /\ m'.ram = m.ram /\ m'.framebuffer = m.framebuffer
          /\ m'.vram_touched = m.vram_touched /\ m'.v_blank = 2
        BY <1>0, <3>1 DEF Machine
    <3>3. (screen' = Cleared \/ screen' = screen) /\ changed' = changed
        BY <2>2 DEF Blank, AfterClear
    <3> QED
        BY <3>2, <3>3 DEF ShownInv, Follows
  <2>3. CASE NothingToShow
      BY <2>3 DEF NothingToShow, ShownInv, Follows
  <2> QED
      BY <1>4, <2>1, <2>2, <2>3 DEF SliceEnd
<1>5. CASE UNCHANGED vars
    BY <1>5 DEF vars, ShownInv, Follows
<1> QED
    BY <1>1, <1>2, <1>3, <1>4, <1>5 DEF Next

(* When a slice has ended with the display on, the window shows the bytes  *)
(* that are in the ram, those of a write across the end of the display and *)
(* those written while the display was off included.                       *)
THEOREM DisplayOn ==
    ASSUME PowerOfTwoSize
    PROVE  Spec => []ScreenShowsRam
<1>1. ShownInv => ScreenShowsRam
    BY DEF ShownInv, ScreenShowsRam
<1> QED
    BY <1>1, ShownInit, ShownStep, DarkInvariant, PTL DEF Spec
-----------------------------------------------------------------------------
(* Once opr has set colours they are never dark again, and what is written *)
(* is drawn with them.                                                     *)
MadeLit(n, w) ==
    n.polarity # "dark" =>
        /\ w.polarity # "dark"
        /\ FASTER_VIDEO =>
              \A i \in Pixels : n.framebuffer[i].polarity # "dark" \/ w.ram[i] # n.ram[i]
                                   => w.framebuffer[i].polarity # "dark"

LEMMA WriteRamLit ==
    ASSUME PowerOfTwoSize, NEW n \in Machine(Bytes), NEW a \in Nat, InRam(a), NEW v \in Bytes
    PROVE  MadeLit(n, WriteRam(n, a, v))
<1> DEFINE w == WriteRam(n, a, v)
           r == RamIndex(a)
           ram == [n.ram EXCEPT ![r] = v]
           picture == [n.framebuffer EXCEPT ![r] = Drawn(n, v)]
<1>1. /\ n.ram \in [RamCells -> Bytes] /\ Pixels \subseteq RamCells
      /\ n.framebuffer \in Pictures /\ Drawn(n, v).polarity = n.polarity
    BY DEF Machine, Pixels, Pictures, Drawn
<1>2. w.ram = ram /\ w.polarity = n.polarity
    BY DEF WriteRam, Machine
<1> SUFFICES ASSUME n.polarity # "dark", FASTER_VIDEO, NEW i \in Pixels,
                    n.framebuffer[i].polarity # "dark" \/ w.ram[i] # n.ram[i]
             PROVE  w.framebuffer[i].polarity # "dark"
    BY <1>2 DEF MadeLit
<1>3. CASE OnDisplay(a)
  <2>1. w.framebuffer = picture
      BY <1>3 DEF WriteRam, Machine
  <2> HIDE DEF w, r
  <2>2. CASE i = r
      BY <1>1, <2>1, <2>2 DEF Pictures
  <2>3. CASE i # r
      BY <1>1, <1>2, <2>1, <2>3 DEF Pictures
  <2> QED
      BY <2>2, <2>3
<1>4. CASE ~OnDisplay(a)
  <2>1. w.framebuffer = n.framebuffer
      BY <1>4 DEF WriteRam, Machine
  <2>2. r \notin Pixels
      BY <1>4, PixelsAreOnDisplay
  <2> HIDE DEF w, r
  <2> QED
      BY <1>1, <1>2, <2>1, <2>2
<1> QED
    BY <1>3, <1>4

LEMMA Write8Lit ==
    ASSUME PowerOfTwoSize, NEW n \in Machine(Bytes), NEW a \in Nat, NEW v \in Bytes
    PROVE  MadeLit(n, Write8(n, a, v))
<1>1. CASE InRam(a)
  <2>1. Write8(n, a, v) = WriteRam(n, a, v)
      BY <1>1, RamIsApart DEF Write8
  <2> QED
      BY <1>1, <2>1, WriteRamLit
<1>2. CASE ~InRam(a)
  <2> DEFINE Same(w) == /\ w.ram = n.ram /\ w.framebuffer = n.framebuffer
                        /\ n.polarity # "dark" => w.polarity # "dark"
  <2>1. /\ Same(WriteOpr(n, v)) /\ Same(PrintOut(n, v)) /\ Same(Send(n, v)) /\ Same(n)
        /\ Same([n EXCEPT !.svram[SvramIndex(a)] = v])
        /\ Same([n EXCEPT !.pr_cont = v]) /\ Same([n EXCEPT !.kb_wr = v])
      BY DEF WriteOpr, PrintOut, Send, Machine
  <2> HIDE DEF Same
  <2>2. Same(Write8(n, a, v))
      BY <1>2, <2>1, SMT DEF Write8
  <2> QED
      BY <2>2 DEF Same, MadeLit
<1> QED
    BY <1>1, <1>2

LEMMA LitTwice ==
    ASSUME NEW n, NEW w, NEW x, MadeLit(n, w), MadeLit(w, x)
    PROVE  MadeLit(n, x)
    BY DEF MadeLit

LEMMA Write32Lit ==
    ASSUME PowerOfTwoSize, NEW n \in Machine(Bytes), NEW a \in Nat, NEW v \in [1..4 -> Bytes]
    PROVE  MadeLit(n, Write32(n, a, v))
<1> DEFINE n1 == Write8(n, a, v[1])
           n2 == Write8(n1, a + 1, v[2])
           n3 == Write8(n2, a + 2, v[3])
           n4 == Write8(n3, a + 3, v[4])
<1>1. Write32(n, a, v) = n4
    BY Write32Bytes
<1>2. /\ a + 1 \in Nat /\ a + 2 \in Nat /\ a + 3 \in Nat
      /\ v[1] \in Bytes /\ v[2] \in Bytes /\ v[3] \in Bytes /\ v[4] \in Bytes
    OBVIOUS
<1>3. MadeLit(n, n1) /\ n1 \in Machine(Bytes)
    BY <1>2, Write8Lit, SomeBytes, Write8Type
<1> HIDE DEF n1
<1>4. MadeLit(n1, n2) /\ n2 \in Machine(Bytes)
    BY <1>2, <1>3, Write8Lit, SomeBytes, Write8Type
<1> HIDE DEF n2
<1>5. MadeLit(n2, n3) /\ n3 \in Machine(Bytes)
    BY <1>2, <1>4, Write8Lit, SomeBytes, Write8Type
<1> HIDE DEF n3
<1>6. MadeLit(n3, n4)
    BY <1>2, <1>5, Write8Lit
<1> HIDE DEF n4
<1>7. MadeLit(n, n2)
    BY <1>3, <1>4, LitTwice
<1>8. MadeLit(n, n3)
    BY <1>5, <1>7, LitTwice
<1> QED
    BY <1>1, <1>6, <1>8, LitTwice

-----------------------------------------------------------------------------
(* The bytes in lit have colours, in the framebuffer if it is kept up to   *)
(* date and, with SDL, on the screen unless vram_touched says otherwise.   *)
LitInv ==
    /\ lit # {} => m.polarity # "dark"
    /\ FASTER_VIDEO => \A i \in lit : m.framebuffer[i].polarity # "dark"
    /\ ui = "sdl" /\ ~m.vram_touched =>
          \A i \in lit : screen # Cleared /\ screen[i].polarity # "dark"

LEMMA LitInit == Init => LitInv
    BY DEF Init, LitInv

LEMMA LitWrite ==
    ASSUME DarkInv, LitInv, NEW w, MadeShown(m, w), MadeLit(m, w), CpuWrites(w)
    PROVE  LitInv'
<1>1. m' = w /\ screen' = screen /\ ui' = ui
    BY DEF CpuWrites
<1>2. CASE m.polarity = "dark"
  <2>1. lit' = {}
      BY <1>2 DEF CpuWrites, LitInv
  <2> QED
      BY <2>1 DEF LitInv
<1>3. CASE m.polarity # "dark"
  <2> DEFINE differs == {i \in Pixels : m.ram[i] # w.ram[i]}
  <2>1. lit' = lit \cup differs /\ lit \subseteq Pixels
      BY <1>3 DEF CpuWrites, DarkInv
  <2>2. w.polarity # "dark"
      BY <1>3 DEF MadeLit
  <2>3. FASTER_VIDEO => \A i \in lit' : w.framebuffer[i].polarity # "dark"
      BY <1>3, <2>1 DEF MadeLit, LitInv
  <2>4. ~w.vram_touched => ~m.vram_touched /\ lit' = lit
      BY <2>1 DEF MadeShown
  <2> QED
      BY <1>1, <2>2, <2>3, <2>4 DEF LitInv
<1> QED
    BY <1>2, <1>3

LEMMA LitStep == PowerOfTwoSize /\ DarkInv /\ LitInv /\ [Next]_vars => LitInv'
<1> SUFFICES ASSUME PowerOfTwoSize, DarkInv, LitInv, [Next]_vars PROVE LitInv'
    OBVIOUS
<1>0. m \in Machine(Bytes) /\ lit \subseteq Pixels
    BY DEF DarkInv
<1>1. CASE WriteByte
  <2>1. PICK a \in Addresses, v \in Values : CpuWrites(Write8(m, a, v))
      BY <1>1 DEF WriteByte
  <2>2. a \in Nat /\ v \in Bytes
      BY VideoAssumption
  <2>3. MadeShown(m, Write8(m, a, v)) /\ MadeLit(m, Write8(m, a, v))
      BY <1>0, <2>2, Write8Shown, Write8Lit
  <2> QED
      BY <2>1, <2>3, LitWrite
<1>2. CASE WriteLong
  <2>1. PICK a \in Addresses, v \in Longs : CpuWrites(Write32(m, a, v))
      BY <1>2 DEF WriteLong
  <2>2. a \in Nat /\ v \in [1..4 -> Bytes]
      BY VideoAssumption
  <2>3. MadeShown(m, Write32(m, a, v)) /\ MadeLit(m, Write32(m, a, v))
      BY <1>0, <2>2, Write32Shown, Write32Lit
  <2> QED
      BY <2>1, <2>3, LitWrite
<1>3. CASE SetOpr
  <2>1. PICK v \in OprValues : CpuWrites(Write8(m, 8650753, v))
      BY <1>3 DEF SetOpr
  <2>2. 8650753 \in Nat /\ v \in Bytes
      BY VideoAssumption, SMT
  <2>3. MadeShown(m, Write8(m, 8650753, v)) /\ MadeLit(m, Write8(m, 8650753, v))
      BY <1>0, <2>2, Write8Shown, Write8Lit, SMT
  <2> QED
      BY <2>1, <2>3, LitWrite, SMT
<1>4. CASE SliceEnd
  <2>0. lit' = lit /\ ui' = ui
      BY <1>4 DEF SliceEnd
  <2>1. CASE Refresh
    <3> DEFINE drawn == IF FASTER_VIDEO THEN m ELSE UpdateFramebuffer(m)
    <3>1. /\ drawn \in Machine(Bytes) /\ drawn.framebuffer \in Pictures
          /\ drawn.polarity = m.polarity
        BY <1>0, UpdateType DEF Machine, Pictures, UpdateFramebuffer
    <3>2. \A i \in lit : drawn.framebuffer[i].polarity # "dark"
      <4>1. CASE FASTER_VIDEO
          BY <4>1 DEF LitInv
      <4>2. CASE ~FASTER_VIDEO
        <5>1. drawn.framebuffer = [i \in Pixels |-> Drawn(m, m.ram[i])]
            BY <1>0, <4>2 DEF UpdateFramebuffer, Machine
        <5> HIDE DEF drawn
        <5> QED
            BY <1>0, <5>1 DEF Drawn, LitInv
      <4> QED
          BY <4>1, <4>2
    <3>3. screen' = drawn.framebuffer /\ m' = [drawn EXCEPT !.vram_touched = FALSE]
        BY <2>1 DEF Refresh
    <3> HIDE DEF drawn
    <3>4. m'.framebuffer = drawn.framebuffer /\ m'.polarity = m.polarity
        BY <3>1, <3>3 DEF Machine
    <3>5. \A i \in lit : screen' # Cleared
      <4> SUFFICES ASSUME NEW i \in lit PROVE screen' # Cleared
          OBVIOUS
      <4>1. DOMAIN screen' = Pixels /\ i \in Pixels
          BY <1>0, <3>1, <3>3 DEF Pictures
      <4>2. DOMAIN Cleared = {}
          BY DEF Cleared
      <4> QED
          BY <4>1, <4>2
    <3> QED
        BY <2>0, <3>2, <3>3, <3>4, <3>5 DEF LitInv
  <2>2. CASE Blank
    <3>1. m' = [m EXCEPT !.v_blank = 2]
        BY <2>2 DEF Blank
    <3>2. /\ m'.framebuffer = m.framebuffer /\ m'.polarity = m.polarity
          /\ m'.vram_touched = m.vram_touched
        BY <1>0, <3>1 DEF Machine
    <3>3. ui = "sdl" => screen' = screen
        BY <2>2 DEF Blank, AfterClear
    <3> QED
        BY <2>0, <3>2, <3>3 DEF LitInv
  <2>3. CASE NothingToShow
      BY <2>0, <2>3 DEF NothingToShow, LitInv
  <2> QED
      BY <1>4, <2>1, <2>2, <2>3 DEF SliceEnd
<1>5. CASE UNCHANGED vars
    BY <1>5 DEF vars, LitInv
<1> QED
    BY <1>1, <1>2, <1>3, <1>4, <1>5 DEF Next

(* With SDL, what the cat has written since opr first set the colours can  *)
(* be seen in the window whenever a slice has ended with the display on,   *)
(* also if it was switched off and on again without another write.         *)
THEOREM WrittenBytesAreVisible ==
    ASSUME PowerOfTwoSize
    PROVE  Spec => []WrittenIsVisible
<1>1. DarkInv /\ ShownInv /\ LitInv => WrittenIsVisible
  <2> SUFFICES ASSUME DarkInv, ShownInv, LitInv, ui = "sdl", ended, m.v_blank = 0, NEW i \in lit
               PROVE  /\ screen # Cleared
                      /\ screen[i].byte = m.ram[i] /\ screen[i].polarity # "dark"
      BY DEF WrittenIsVisible
  <2>1. ~m.vram_touched /\ i \in Pixels
      BY DEF ShownInv, DarkInv
  <2> QED
      BY <2>1 DEF ShownInv, LitInv
<1> QED
    BY <1>1, ShownInit, ShownStep, LitInit, LitStep, DarkInvariant, PTL DEF Spec
=============================================================================
