--------------------------- MODULE EmulatorProofs ---------------------------
(***************************************************************************)
(* Theorems about the exceptions of the 68000 under the main loop, for     *)
(* every ROM, every length of a slice, every limit of the watchdog and     *)
(* every bound on what the ROM nests.                                      *)
(***************************************************************************)
EXTENDS Emulator, SequenceTheorems, TLAPS

(* A cpu of which each stack pointer points into the stack of its mode.    *)
GoodCpu(c) ==
    /\ c \in Cpus
    /\ c.sp \in Stacks(c.s)
    /\ c.sp_base[~c.s] \in Stacks(~c.s)

Context(c) == [pc |-> c.pc, sr |-> GetSr(c)]

(* d is c with an exception just taken: c's context is on top of the       *)
(* supervisor stack, and the user stack pointer is safe.                   *)
Interrupted(c, d) ==
    /\ GoodCpu(d)
    /\ d.s = TRUE
    /\ d.pc \in {Vector[v] : v \in Vectors}
    /\ d.mask >= c.mask
    /\ StackOf(d, TRUE) = Append(StackOf(c, TRUE), Context(c))
    /\ StackOf(d, FALSE) = StackOf(c, FALSE)

(* The fields that count requests and services of interrupts.              *)
SameRequests(c, d) ==
    /\ d.int_level = c.int_level
    /\ d.nmi_pending = c.nmi_pending
    /\ d.acks = c.acks
    /\ d.nmis = c.nmis

-----------------------------------------------------------------------------
(* Changing the S flag swaps the active stack pointer with its bank: both  *)
(* modes keep their stacks.                                                *)
LEMMA SetSFlagFacts ==
    ASSUME NEW c, GoodCpu(c), NEW s \in BOOLEAN
    PROVE  LET d == SetSFlag(c, s)
           IN /\ GoodCpu(d)
              /\ d.s = s
              /\ d.pc = c.pc /\ d.mask = c.mask /\ d.stopped = c.stopped
              /\ SameRequests(c, d)
              /\ StackOf(d, TRUE) = StackOf(c, TRUE)
              /\ StackOf(d, FALSE) = StackOf(c, FALSE)
<1> DEFINE banked == [c.sp_base EXCEPT ![c.s] = c.sp]
           d == SetSFlag(c, s)
<1>1. /\ c.s \in BOOLEAN
      /\ c.sp \in Seq(Frames) \cup UserStacks
      /\ c.sp_base \in [BOOLEAN -> Seq(Frames) \cup UserStacks]
    BY DEF GoodCpu, Cpus
<1>2. d = [c EXCEPT !.s = s, !.sp_base = banked, !.sp = banked[s]]
    BY DEF SetSFlag
<1>3. /\ banked \in [BOOLEAN -> Seq(Frames) \cup UserStacks]
      /\ banked[c.s] = c.sp
      /\ banked[~c.s] = c.sp_base[~c.s]
    BY <1>1
<1>4. d \in Cpus
    BY <1>1, <1>2, <1>3 DEF GoodCpu, Cpus
<1>5. /\ d.s = s /\ d.sp_base = banked /\ d.sp = banked[s]
      /\ d.pc = c.pc /\ d.mask = c.mask /\ d.stopped = c.stopped
      /\ SameRequests(c, d)
    BY <1>2 DEF GoodCpu, Cpus, SameRequests
<1> HIDE DEF banked, d
<1>6. CASE s = c.s
    BY <1>1, <1>3, <1>4, <1>5, <1>6 DEF GoodCpu, StackOf, d
<1>7. CASE s = ~c.s
    BY <1>1, <1>3, <1>4, <1>5, <1>7 DEF GoodCpu, StackOf, d
<1> QED
    BY <1>1, <1>6, <1>7

LEMMA ExceptionFacts ==
    ASSUME NEW c, GoodCpu(c), NEW pc \in Code, NEW vector \in Vectors
    PROVE  LET d == Exception(c, pc, vector)
           IN /\ GoodCpu(d)
              /\ d.s = TRUE
              /\ d.pc = Vector[vector]
              /\ d.mask = c.mask /\ d.stopped = c.stopped
              /\ SameRequests(c, d)
              /\ StackOf(d, TRUE) = Append(StackOf(c, TRUE), [pc |-> pc, sr |-> GetSr(c)])
              /\ StackOf(d, FALSE) = StackOf(c, FALSE)
<1> DEFINE b == SetSFlag(c, TRUE)
           frame == [pc |-> pc, sr |-> GetSr(c)]
           d == Exception(c, pc, vector)
<1>1. /\ GoodCpu(b) /\ b.s = TRUE /\ b.mask = c.mask /\ b.stopped = c.stopped
      /\ SameRequests(c, b)
      /\ StackOf(b, TRUE) = StackOf(c, TRUE)
      /\ StackOf(b, FALSE) = StackOf(c, FALSE)
    BY SetSFlagFacts
<1>2. d = [b EXCEPT !.sp = Append(b.sp, frame), !.pc = Vector[vector]]
    BY DEF Exception
<1>3. frame \in Frames /\ Vector[vector] \in Code
    BY CodeAssumption DEF Frames, StatusWords, GetSr, GoodCpu, Cpus
<1> HIDE DEF b, frame, d
<1>4. b.sp \in Seq(Frames) /\ b \in Cpus /\ b.sp_base[FALSE] \in UserStacks
    BY <1>1 DEF GoodCpu, Stacks
<1>5. Append(b.sp, frame) \in Seq(Frames)
    BY <1>3, <1>4
<1>6. d \in Cpus
    BY <1>2, <1>3, <1>4, <1>5 DEF Cpus
<1>7. /\ d.s = TRUE /\ d.sp_base = b.sp_base /\ d.sp = Append(b.sp, frame)
      /\ d.pc = Vector[vector] /\ d.mask = b.mask /\ d.stopped = b.stopped
      /\ SameRequests(b, d)
    BY <1>1, <1>2, <1>4 DEF Cpus, SameRequests
<1>8. StackOf(b, TRUE) = b.sp /\ StackOf(b, FALSE) = b.sp_base[FALSE]
    BY <1>1 DEF StackOf
<1>9. StackOf(d, TRUE) = d.sp /\ StackOf(d, FALSE) = d.sp_base[FALSE]
    BY <1>7 DEF StackOf
<1>10. GoodCpu(d)
    BY <1>4, <1>5, <1>6, <1>7 DEF GoodCpu, Stacks
<1>11. SameRequests(c, d)
    BY <1>1, <1>7 DEF SameRequests
<1> QED
    BY <1>1, <1>7, <1>8, <1>9, <1>10, <1>11 DEF d, frame

(* The service of an interrupt: an exception that raises the mask to the   *)
(* level served and takes the request back.                                *)
LEMMA ExceptionInterruptFacts ==
    ASSUME NEW c, GoodCpu(c), NEW level \in Levels, level >= c.mask
    PROVE  LET d == ExceptionInterrupt(c, level)
           IN /\ Interrupted(c, d)
              /\ d.int_level = 0
              /\ d.stopped = FALSE
              /\ d.nmi_pending = c.nmi_pending
              /\ d.acks = (IF level = 1 THEN c.acks + 1 ELSE c.acks)
              /\ d.nmis = (IF level = 7 THEN c.nmis + 1 ELSE c.nmis)
<1> DEFINE vector == IF level = 7 THEN "nmi" ELSE "level1"
           b == Exception(c, c.pc, vector)
           d == ExceptionInterrupt(c, level)
<1>1. vector \in Vectors /\ c.pc \in Code
    BY DEF Vectors, GoodCpu, Cpus
<1> HIDE DEF vector
<1>2. /\ GoodCpu(b) /\ b.s = TRUE /\ b.pc = Vector[vector]
      /\ SameRequests(c, b)
      /\ StackOf(b, TRUE) = Append(StackOf(c, TRUE), Context(c))
      /\ StackOf(b, FALSE) = StackOf(c, FALSE)
    BY <1>1, ExceptionFacts DEF Context
<1>3. d = [b EXCEPT !.stopped = FALSE, !.mask = level, !.int_level = 0,
                    !.acks = IF level = 1 THEN b.acks + 1 ELSE b.acks,
                    !.nmis = IF level = 7 THEN b.nmis + 1 ELSE b.nmis]
    BY DEF ExceptionInterrupt, vector
<1> HIDE DEF b, d
<1>4. b \in Cpus /\ b.sp \in Seq(Frames) /\ b.sp_base[FALSE] \in UserStacks
    BY <1>2 DEF GoodCpu, Stacks
<1>5. /\ d.s = TRUE /\ d.pc = b.pc /\ d.mask = level /\ d.sp = b.sp /\ d.sp_base = b.sp_base
      /\ d.int_level = 0 /\ d.stopped = FALSE /\ d.nmi_pending = c.nmi_pending
      /\ d.acks = (IF level = 1 THEN c.acks + 1 ELSE c.acks)
      /\ d.nmis = (IF level = 7 THEN c.nmis + 1 ELSE c.nmis)
    BY <1>2, <1>3, <1>4 DEF Cpus, SameRequests
<1>6. d \in Cpus
    <2>1. b.acks \in Nat /\ b.nmis \in Nat
        BY <1>4 DEF Cpus
    <2> DEFINE acks == IF level = 1 THEN b.acks + 1 ELSE b.acks
               nmis == IF level = 7 THEN b.nmis + 1 ELSE b.nmis
    <2>2. acks \in Nat /\ nmis \in Nat /\ level \in Levels /\ 0 \in Levels
        BY <2>1 DEF Levels
    <2>3. d = [b EXCEPT !.stopped = FALSE, !.mask = level, !.int_level = 0,
                        !.acks = acks, !.nmis = nmis]
        BY <1>3
    <2> HIDE DEF acks, nmis
    <2> QED
        BY <1>4, <2>2, <2>3 DEF Cpus
<1>7. GoodCpu(d)
    BY <1>4, <1>5, <1>6 DEF GoodCpu, Stacks
<1>8. StackOf(d, TRUE) = StackOf(b, TRUE) /\ StackOf(d, FALSE) = StackOf(b, FALSE)
    BY <1>2, <1>5 DEF StackOf
<1>9. Interrupted(c, d)
    BY <1>1, <1>2, <1>5, <1>7, <1>8 DEF Interrupted
<1> QED
    BY <1>5, <1>9 DEF d

(* d is c after the service of its NMI, or of its request.                 *)
NmiServed(c, d) ==
    /\ c.nmi_pending = TRUE
    /\ Interrupted(c, d)
    /\ d.nmi_pending = FALSE /\ d.int_level = 0 /\ d.stopped = FALSE
    /\ d.acks = c.acks /\ d.nmis = c.nmis + 1

LevelServed(c, d) ==
    /\ c.nmi_pending = FALSE /\ c.int_level > c.mask
    /\ Interrupted(c, d)
    /\ d.nmi_pending = FALSE /\ d.int_level = 0 /\ d.stopped = FALSE
    /\ d.acks = (IF c.int_level = 1 THEN c.acks + 1 ELSE c.acks)
    /\ d.nmis = (IF c.int_level = 7 THEN c.nmis + 1 ELSE c.nmis)

Checked(c, d) ==
    \/ NmiServed(c, d)
    \/ LevelServed(c, d)
    \/ d = c /\ c.nmi_pending = FALSE /\ c.int_level <= c.mask

(* The check for interrupts takes an NMI first, then a level above the     *)
(* mask, and otherwise leaves the cpu alone.                               *)
LEMMA CheckInterruptsFacts ==
    ASSUME NEW c, GoodCpu(c)
    PROVE  Checked(c, CheckInterrupts(c))
<1> DEFINE d == CheckInterrupts(c)
<1>0. c \in Cpus /\ c.nmi_pending \in BOOLEAN /\ c.mask \in 0..7 /\ c.int_level \in 0..7
    BY DEF GoodCpu, Cpus, Levels
<1>1. CASE c.nmi_pending = TRUE
    <2> DEFINE b == [c EXCEPT !.nmi_pending = FALSE]
    <2>1. /\ b.s = c.s /\ b.sp = c.sp /\ b.sp_base = c.sp_base /\ b.mask = c.mask /\ b.pc = c.pc
          /\ b.nmi_pending = FALSE /\ b.acks = c.acks /\ b.nmis = c.nmis
          /\ b \in Cpus
        BY <1>0 DEF Cpus
    <2>3. d = ExceptionInterrupt(b, 7)
        BY <1>1 DEF CheckInterrupts
    <2> HIDE DEF b, d
    <2>2. GoodCpu(b) /\ 7 \in Levels /\ 7 >= b.mask
        BY <1>0, <2>1 DEF GoodCpu, Levels
    <2>3a. /\ Interrupted(b, d) /\ d.int_level = 0 /\ d.nmi_pending = b.nmi_pending
          /\ d.stopped = FALSE
          /\ d.acks = (IF 7 = 1 THEN b.acks + 1 ELSE b.acks)
          /\ d.nmis = (IF 7 = 7 THEN b.nmis + 1 ELSE b.nmis)
        BY <2>2, <2>3, ExceptionInterruptFacts
    <2>4. /\ Interrupted(b, d) /\ d.int_level = 0 /\ d.nmi_pending = FALSE
          /\ d.stopped = FALSE
          /\ d.acks = c.acks /\ d.nmis = c.nmis + 1
        BY <2>1, <2>3a
    <2>5. Interrupted(c, d)
        BY <2>1, <2>4 DEF Interrupted, StackOf, Context, GetSr
    <2>6. NmiServed(c, d)
        BY <1>1, <2>4, <2>5 DEF NmiServed
    <2> QED
        BY <2>6 DEF d, Checked
<1>2. CASE c.nmi_pending = FALSE /\ c.int_level > c.mask
    <2>1. d = ExceptionInterrupt(c, c.int_level)
        BY <1>2 DEF CheckInterrupts
    <2> HIDE DEF d
    <2>2. c.int_level \in Levels /\ c.int_level >= c.mask
        BY <1>0, <1>2 DEF Levels
    <2>3. /\ Interrupted(c, d) /\ d.int_level = 0 /\ d.stopped = FALSE
          /\ d.nmi_pending = c.nmi_pending
          /\ d.acks = (IF c.int_level = 1 THEN c.acks + 1 ELSE c.acks)
          /\ d.nmis = (IF c.int_level = 7 THEN c.nmis + 1 ELSE c.nmis)
        BY <2>1, <2>2, ExceptionInterruptFacts
    <2>4. LevelServed(c, d)
        BY <1>2, <2>3 DEF LevelServed
    <2> QED
        BY <2>4 DEF d, Checked
<1>3. CASE c.nmi_pending = FALSE /\ ~(c.int_level > c.mask)
    <2>1. d = c
        BY <1>3 DEF CheckInterrupts
    <2>2. c.int_level <= c.mask
        BY <1>0, <1>3
    <2> QED
        BY <1>3, <2>1, <2>2 DEF Checked
<1> QED
    BY <1>0, <1>1, <1>2, <1>3

(* Setting the status register without the check for interrupts.           *)
LEMMA SetSrNoIntFacts ==
    ASSUME NEW c, GoodCpu(c), NEW sr \in StatusWords
    PROVE  LET d == SetSrNoInt(c, sr)
           IN /\ GoodCpu(d)
              /\ GetSr(d) = sr
              /\ d.pc = c.pc
              /\ SameRequests(c, d)
              /\ StackOf(d, TRUE) = StackOf(c, TRUE)
              /\ StackOf(d, FALSE) = StackOf(c, FALSE)
<1> DEFINE b == SetSFlag(c, sr.s)
           d == SetSrNoInt(c, sr)
<1>1. sr.s \in BOOLEAN /\ sr.mask \in Levels /\ sr = [s |-> sr.s, mask |-> sr.mask]
    BY DEF StatusWords
<1>2. /\ GoodCpu(b) /\ b.s = sr.s /\ b.pc = c.pc
      /\ SameRequests(c, b)
      /\ StackOf(b, TRUE) = StackOf(c, TRUE)
      /\ StackOf(b, FALSE) = StackOf(c, FALSE)
    BY <1>1, SetSFlagFacts
<1>3. d = [b EXCEPT !.mask = sr.mask]
    BY DEF SetSrNoInt
<1> HIDE DEF b, d
<1>4. /\ d \in Cpus
      /\ d.s = b.s /\ d.pc = b.pc /\ d.mask = sr.mask /\ d.sp = b.sp /\ d.sp_base = b.sp_base
      /\ SameRequests(b, d)
    BY <1>1, <1>2, <1>3 DEF GoodCpu, Cpus, SameRequests
<1>5. GoodCpu(d)
    BY <1>2, <1>4 DEF GoodCpu
<1>6. SameRequests(c, d)
    BY <1>2, <1>4 DEF SameRequests
<1>7. StackOf(d, TRUE) = StackOf(b, TRUE) /\ StackOf(d, FALSE) = StackOf(b, FALSE)
    BY <1>4 DEF StackOf
<1>8. GetSr(d) = sr
    BY <1>1, <1>2, <1>4 DEF GetSr
<1> QED
    BY <1>2, <1>4, <1>5, <1>6, <1>7, <1>8 DEF d

(* The reset empties the supervisor stack and withdraws the request of an  *)
(* interrupt; a latched NMI survives it.                                   *)
LEMMA PulseResetFacts ==
    ASSUME NEW c, GoodCpu(c)
    PROVE  LET d == PulseReset(c)
           IN /\ GoodCpu(d)
              /\ d.s = TRUE /\ d.pc = Vector["reset"]
              /\ d.int_level = 0 /\ d.stopped = FALSE
              /\ d.nmi_pending = c.nmi_pending /\ d.acks = c.acks /\ d.nmis = c.nmis
              /\ StackOf(d, TRUE) = <<>>
              /\ StackOf(d, FALSE) = StackOf(c, FALSE)
<1> DEFINE b == SetSFlag(c, TRUE)
           d == PulseReset(c)
<1>1. /\ GoodCpu(b) /\ b.s = TRUE /\ SameRequests(c, b)
      /\ StackOf(b, FALSE) = StackOf(c, FALSE)
    BY SetSFlagFacts
<1>2. d = [b EXCEPT !.stopped = FALSE, !.mask = 7, !.int_level = 0,
                    !.sp = <<>>, !.pc = Vector["reset"]]
    BY DEF PulseReset
<1> HIDE DEF b, d
<1>3. Vector["reset"] \in Code /\ <<>> \in Seq(Frames) /\ 7 \in Levels /\ 0 \in Levels
    BY CodeAssumption DEF Vectors, Levels
<1>4. b \in Cpus /\ b.sp_base[FALSE] \in UserStacks
    BY <1>1 DEF GoodCpu, Stacks
<1>5. /\ d \in Cpus
      /\ d.s = TRUE /\ d.pc = Vector["reset"] /\ d.int_level = 0 /\ d.stopped = FALSE
      /\ d.sp = <<>> /\ d.sp_base = b.sp_base
      /\ d.nmi_pending = c.nmi_pending /\ d.acks = c.acks /\ d.nmis = c.nmis
    BY <1>1, <1>2, <1>3, <1>4 DEF Cpus, SameRequests
<1>6. GoodCpu(d)
    BY <1>3, <1>4, <1>5 DEF GoodCpu, Stacks
<1>7. StackOf(d, TRUE) = <<>> /\ StackOf(d, FALSE) = StackOf(b, FALSE)
    BY <1>1, <1>5 DEF StackOf
<1> QED
    BY <1>1, <1>5, <1>6, <1>7 DEF d

(* A request touches neither the context nor the stacks.                   *)
LEMMA SetIrqFacts ==
    ASSUME NEW c, GoodCpu(c), NEW level \in Levels
    PROVE  LET d == SetIrq(c, level)
           IN /\ GoodCpu(d)
              /\ Context(d) = Context(c)
              /\ StackOf(d, TRUE) = StackOf(c, TRUE)
              /\ StackOf(d, FALSE) = StackOf(c, FALSE)
              /\ d.int_level = level /\ d.acks = 0 /\ d.nmis = c.nmis
              /\ d.nmi_pending = (c.nmi_pending \/ (c.int_level # 7 /\ level = 7))
<1> DEFINE nmi == c.nmi_pending \/ (c.int_level # 7 /\ level = 7)
           d == SetIrq(c, level)
<1>1. nmi \in BOOLEAN /\ c \in Cpus
    BY DEF GoodCpu, Cpus
<1>2. d = [c EXCEPT !.int_level = level, !.nmi_pending = nmi, !.acks = 0]
    BY DEF SetIrq
<1> HIDE DEF nmi, d
<1>3. /\ d \in Cpus
      /\ d.s = c.s /\ d.mask = c.mask /\ d.pc = c.pc /\ d.sp = c.sp /\ d.sp_base = c.sp_base
      /\ d.int_level = level /\ d.acks = 0 /\ d.nmis = c.nmis /\ d.nmi_pending = nmi
    BY <1>1, <1>2 DEF Cpus
<1>4. GoodCpu(d)
    BY <1>3 DEF GoodCpu
<1>5. /\ Context(d) = Context(c)
      /\ StackOf(d, TRUE) = StackOf(c, TRUE)
      /\ StackOf(d, FALSE) = StackOf(c, FALSE)
    BY <1>3 DEF Context, GetSr, StackOf
<1> QED
    BY <1>3, <1>4, <1>5 DEF nmi, d

-----------------------------------------------------------------------------
(* Between two ticks of a machine that has served its NMIs, n of them.     *)
Steady(c, n) ==
    /\ GoodCpu(c)
    /\ c.nmi_pending = FALSE
    /\ c.int_level # 7
    /\ c.acks + (IF c.int_level = 1 THEN 1 ELSE 0) <= 1
    /\ c.nmis = n

LEMMA SteadySame ==
    ASSUME NEW c, NEW n, Steady(c, n), NEW d, GoodCpu(d), SameRequests(c, d)
    PROVE  Steady(d, n)
BY DEF Steady, SameRequests

(* The check for interrupts takes the request of a tick away as it serves  *)
(* it.                                                                     *)
LEMMA SteadyChecked ==
    ASSUME NEW c, NEW n, Steady(c, n), NEW d, Checked(c, d)
    PROVE  Steady(d, n)
<1>0. c.int_level \in 0..7 /\ c.acks \in Nat
    BY DEF Steady, GoodCpu, Cpus, Levels
<1>1. CASE NmiServed(c, d)
    BY <1>1 DEF Steady, NmiServed
<1>2. CASE LevelServed(c, d)
    <2>1. /\ GoodCpu(d) /\ d.nmi_pending = FALSE /\ d.int_level = 0
          /\ d.acks = (IF c.int_level = 1 THEN c.acks + 1 ELSE c.acks)
          /\ d.nmis = c.nmis
        BY <1>2 DEF Steady, LevelServed, Interrupted
    <2>2. d.acks <= 1
        BY <1>0, <2>1 DEF Steady
    <2>3. d.acks + (IF d.int_level = 1 THEN 1 ELSE 0) <= 1
        BY <1>0, <2>1, <2>2
    <2> QED
        BY <2>1, <2>3 DEF Steady
<1>3. CASE d = c
    BY <1>3
<1> QED
    BY <1>1, <1>2, <1>3 DEF Checked

(* What one step of the cpu may do to the program that runs: go on, or     *)
(* begin a call, end one, or end one to begin another.                     *)
Contexts == [pc : Code, sr : StatusWords]
Entries  == {Vector[v] : v \in Vectors}

Goes(c, d) ==
    /\ c.s \/ GetSr(d) = GetSr(c)
    /\ c.s => StackOf(d, FALSE) = StackOf(c, FALSE)
    /\ StackOf(d, TRUE) = StackOf(c, TRUE)

Begins(c, x, d) ==
    /\ c.s \/ x.sr = GetSr(c)
    /\ d.pc \in Entries /\ d.s = TRUE /\ d.mask >= x.sr.mask
    /\ StackOf(d, TRUE) = Append(StackOf(c, TRUE), x)
    /\ StackOf(d, FALSE) = StackOf(c, FALSE)

Top(s) == s[Len(s)]

Ends(c, d) ==
    /\ c.s
    /\ StackOf(c, TRUE) # <<>>
    /\ Context(d) = Top(StackOf(c, TRUE))
    /\ StackOf(d, TRUE) = SubSeq(StackOf(c, TRUE), 1, Len(StackOf(c, TRUE)) - 1)
    /\ StackOf(d, FALSE) = StackOf(c, FALSE)

EndsInterrupted(c, d) ==
    /\ c.s
    /\ StackOf(c, TRUE) # <<>>
    /\ d.pc \in Entries /\ d.s = TRUE /\ d.mask >= Top(StackOf(c, TRUE)).sr.mask
    /\ StackOf(d, TRUE) = StackOf(c, TRUE)
    /\ StackOf(d, FALSE) = StackOf(c, FALSE)

Transparent(c, d) ==
    \/ Goes(c, d)
    \/ \E x \in Contexts : Begins(c, x, d)
    \/ Ends(c, d)
    \/ EndsInterrupted(c, d)

LEMMA ContextType ==
    ASSUME NEW c, GoodCpu(c)
    PROVE  Context(c) \in Contexts
BY DEF Context, Contexts, GetSr, StatusWords, GoodCpu, Cpus

(* An exception that an instruction causes is a call.                      *)
LEMMA ExceptionIsCall ==
    ASSUME NEW c, NEW n, Steady(c, n), NEW pc \in Code, NEW vector \in Vectors
    PROVE  LET d == Exception(c, pc, vector) IN Steady(d, n) /\ Transparent(c, d)
<1> DEFINE d == Exception(c, pc, vector)
           x == [pc |-> pc, sr |-> GetSr(c)]
<1>1. GoodCpu(c)
    BY DEF Steady
<1>2. /\ GoodCpu(d) /\ d.s = TRUE /\ d.pc = Vector[vector] /\ d.mask = c.mask
      /\ SameRequests(c, d)
      /\ StackOf(d, TRUE) = Append(StackOf(c, TRUE), x)
      /\ StackOf(d, FALSE) = StackOf(c, FALSE)
    BY <1>1, ExceptionFacts
<1> HIDE DEF d
<1>3. Steady(d, n)
    BY <1>2, SteadySame
<1>4. x \in Contexts /\ x.sr = GetSr(c) /\ x.sr.mask = c.mask
    BY <1>1 DEF GetSr, Contexts, StatusWords, GoodCpu, Cpus
<1>5. d.pc \in Entries
    BY <1>2 DEF Entries
<1>6. d.mask >= x.sr.mask
    BY <1>1, <1>2, <1>4 DEF GoodCpu, Cpus, Levels
<1> HIDE DEF x
<1>7. Begins(c, x, d)
    BY <1>2, <1>4, <1>5, <1>6 DEF Begins
<1> QED
    BY <1>3, <1>4, <1>7 DEF Transparent, d

(* So is the service of an interrupt, in whatever context b it finds.      *)
LEMMA InterruptedIsCall ==
    ASSUME NEW c, NEW b, NEW d, GoodCpu(b), Interrupted(b, d),
           c.s \/ GetSr(b) = GetSr(c),
           StackOf(b, TRUE) = StackOf(c, TRUE), StackOf(b, FALSE) = StackOf(c, FALSE)
    PROVE  Transparent(c, d)
<1> DEFINE x == Context(b)
<1>1. x \in Contexts
    BY ContextType
<1>2. x.sr = GetSr(b) /\ x.sr.mask = b.mask
    BY DEF Context, GetSr
<1> HIDE DEF x
<1>3. Begins(c, x, d)
    BY <1>2 DEF Begins, Interrupted, Entries, x
<1> QED
    BY <1>1, <1>3 DEF Transparent

(* Setting the status register in supervisor mode, from b which is c but   *)
(* for its program counter and its being stopped.                          *)
LEMMA SetSrIsTransparent ==
    ASSUME NEW c, NEW n, Steady(c, n), c.s = TRUE, NEW sr \in StatusWords,
           NEW b, GoodCpu(b), SameRequests(c, b),
           StackOf(b, TRUE) = StackOf(c, TRUE), StackOf(b, FALSE) = StackOf(c, FALSE)
    PROVE  LET d == SetSr(b, sr) IN Steady(d, n) /\ Transparent(c, d)
<1> DEFINE e == SetSrNoInt(b, sr)
           d == SetSr(b, sr)
<1>1. /\ GoodCpu(e) /\ SameRequests(b, e)
      /\ StackOf(e, TRUE) = StackOf(c, TRUE)
      /\ StackOf(e, FALSE) = StackOf(c, FALSE)
    BY SetSrNoIntFacts
<1>2. d = CheckInterrupts(e)
    BY DEF SetSr
<1> HIDE DEF d, e
<1>3. Checked(e, d)
    BY <1>1, <1>2, CheckInterruptsFacts
<1>4. Steady(b, n)
    BY SteadySame
<1>5. Steady(e, n)
    BY <1>1, <1>4, SteadySame
<1>6. Steady(d, n)
    BY <1>3, <1>5, SteadyChecked
<1>7. ASSUME Interrupted(e, d) PROVE Transparent(c, d)
    BY <1>1, <1>7, InterruptedIsCall
<1>8. ASSUME d = e PROVE Transparent(c, d)
    <2>1. Goes(c, d)
        BY <1>1, <1>8 DEF Goes
    <2> QED
        BY <2>1 DEF Transparent
<1>9. Transparent(c, d)
    BY <1>3, <1>7, <1>8 DEF Checked, NmiServed, LevelServed
<1> QED
    BY <1>6, <1>9 DEF d

(* An instruction that leaves the status register and the supervisor stack *)
(* alone.                                                                  *)
LEMMA PlainIsTransparent ==
    ASSUME NEW c, NEW n, Steady(c, n), NEW pc \in Code, NEW usp \in UserStacks
    PROVE  LET d == [c EXCEPT !.pc = pc, !.sp = IF c.s THEN c.sp ELSE usp]
           IN Steady(d, n) /\ Transparent(c, d)
<1> DEFINE sp == IF c.s THEN c.sp ELSE usp
           d == [c EXCEPT !.pc = pc, !.sp = sp]
<1>1. GoodCpu(c) /\ c \in Cpus /\ c.s \in BOOLEAN
    BY DEF Steady, GoodCpu, Cpus
<1>2. sp \in Stacks(c.s) /\ (c.s => sp = c.sp)
    BY <1>1 DEF GoodCpu, Stacks
<1> HIDE DEF sp
<1>3. sp \in Seq(Frames) \cup UserStacks
    BY <1>1, <1>2 DEF Stacks
<1>4. /\ d \in Cpus
      /\ d.s = c.s /\ d.mask = c.mask /\ d.sp = sp /\ d.sp_base = c.sp_base
      /\ SameRequests(c, d)
    BY <1>1, <1>3 DEF Cpus, SameRequests
<1> HIDE DEF d
<1>5. GoodCpu(d)
    BY <1>1, <1>2, <1>4 DEF GoodCpu
<1>6. Steady(d, n)
    BY <1>4, <1>5, SteadySame
<1>7. Goes(c, d)
    BY <1>1, <1>2, <1>4 DEF Goes, GetSr, StackOf
<1> QED
    BY <1>6, <1>7 DEF Transparent, d, sp

LEMMA JumpIsTransparent ==
    ASSUME NEW c, NEW n, Steady(c, n), NEW pc \in Code
    PROVE  LET d == [c EXCEPT !.pc = pc] IN Steady(d, n) /\ Transparent(c, d)
<1> DEFINE d == [c EXCEPT !.pc = pc]
<1>1. GoodCpu(c) /\ c \in Cpus
    BY DEF Steady, GoodCpu
<1>2. /\ d \in Cpus
      /\ d.s = c.s /\ d.mask = c.mask /\ d.sp = c.sp /\ d.sp_base = c.sp_base
      /\ SameRequests(c, d)
    BY <1>1 DEF Cpus, SameRequests
<1> HIDE DEF d
<1>3. GoodCpu(d)
    BY <1>1, <1>2 DEF GoodCpu
<1>4. Steady(d, n)
    BY <1>2, <1>3, SteadySame
<1>5. Goes(c, d)
    BY <1>2 DEF Goes, GetSr, StackOf
<1> QED
    BY <1>4, <1>5 DEF Transparent, d

LEMMA MoveToSrIsTransparent ==
    ASSUME NEW c, NEW n, Steady(c, n), NEW next \in Code, NEW sr \in StatusWords
    PROVE  LET d == MoveToSrOp(c, next, sr) IN Steady(d, n) /\ Transparent(c, d)
<1>1. GoodCpu(c) /\ c \in Cpus /\ c.pc \in Code /\ c.s \in BOOLEAN /\ "privilege" \in Vectors
    BY DEF Steady, GoodCpu, Cpus, Vectors
<1>2. CASE c.s = TRUE
    <2> DEFINE b == [c EXCEPT !.pc = next]
    <2>1. /\ b \in Cpus /\ SameRequests(c, b)
          /\ b.s = c.s /\ b.sp = c.sp /\ b.sp_base = c.sp_base
        BY <1>1 DEF Cpus, SameRequests
    <2>2. MoveToSrOp(c, next, sr) = SetSr(b, sr)
        BY <1>2 DEF MoveToSrOp
    <2> HIDE DEF b
    <2>3. GoodCpu(b)
        BY <1>1, <2>1 DEF GoodCpu
    <2>4. StackOf(b, TRUE) = StackOf(c, TRUE) /\ StackOf(b, FALSE) = StackOf(c, FALSE)
        BY <2>1 DEF StackOf
    <2>5. Steady(SetSr(b, sr), n) /\ Transparent(c, SetSr(b, sr))
        BY <1>2, <2>1, <2>3, <2>4, SetSrIsTransparent
    <2> QED
        BY <2>2, <2>5
<1>3. CASE c.s = FALSE
    BY <1>1, <1>3, ExceptionIsCall DEF MoveToSrOp, PrivilegeViolation
<1> QED
    BY <1>1, <1>2, <1>3

LEMMA StopIsTransparent ==
    ASSUME NEW c, NEW n, Steady(c, n), NEW next \in Code, NEW sr \in StatusWords
    PROVE  LET d == StopOp(c, next, sr) IN Steady(d, n) /\ Transparent(c, d)
<1>1. GoodCpu(c) /\ c \in Cpus /\ c.pc \in Code /\ c.s \in BOOLEAN /\ "privilege" \in Vectors
    BY DEF Steady, GoodCpu, Cpus, Vectors
<1>2. CASE c.s = TRUE
    <2> DEFINE b == [c EXCEPT !.pc = next, !.stopped = TRUE]
    <2>1. /\ b \in Cpus /\ SameRequests(c, b)
          /\ b.s = c.s /\ b.sp = c.sp /\ b.sp_base = c.sp_base
        BY <1>1 DEF Cpus, SameRequests
    <2>2. StopOp(c, next, sr) = SetSr(b, sr)
        BY <1>2 DEF StopOp
    <2> HIDE DEF b
    <2>3. GoodCpu(b)
        BY <1>1, <2>1 DEF GoodCpu
    <2>4. StackOf(b, TRUE) = StackOf(c, TRUE) /\ StackOf(b, FALSE) = StackOf(c, FALSE)
        BY <2>1 DEF StackOf
    <2>5. Steady(SetSr(b, sr), n) /\ Transparent(c, SetSr(b, sr))
        BY <1>2, <2>1, <2>3, <2>4, SetSrIsTransparent
    <2> QED
        BY <2>2, <2>5
<1>3. CASE c.s = FALSE
    BY <1>1, <1>3, ExceptionIsCall DEF StopOp, PrivilegeViolation
<1> QED
    BY <1>1, <1>2, <1>3

(* What is left when the last element goes, and what comes back with it.   *)
LEMMA TopAndRest ==
    ASSUME NEW S, NEW q \in Seq(S), q # <<>>
    PROVE  LET rest == SubSeq(q, 1, Len(q) - 1)
           IN rest \in Seq(S) /\ Top(q) \in S /\ Append(rest, Top(q)) = q
<1> DEFINE m == Len(q)
           rest == SubSeq(q, 1, m - 1)
<1>1. m \in Nat /\ m # 0 /\ q \in [1..m -> S]
    BY EmptySeq, LenProperties
<1>2. rest \in Seq(S) /\ Len(rest) = m - 1 /\ \A i \in 1..m-1 : rest[i] = q[i]
    <2>1. \A i \in 1..m-1 : q[i] \in S
        BY <1>1
    <2>2. /\ rest \in Seq(S)
          /\ Len(rest) = IF 1 <= m - 1 THEN m - 1 - 1 + 1 ELSE 0
          /\ \A i \in 1..m - 1 - 1 + 1 : rest[i] = q[1 + i - 1]
        BY <1>1, <2>1, SubSeqProperties
    <2> QED
        BY <1>1, <2>2
<1>3. Top(q) \in S /\ Top(q) = q[m]
    BY <1>1 DEF Top
<1> HIDE DEF rest, m
<1>4. /\ Append(rest, Top(q)) \in Seq(S)
      /\ Len(Append(rest, Top(q))) = m
      /\ \A i \in 1..m-1 : Append(rest, Top(q))[i] = rest[i]
      /\ Append(rest, Top(q))[m] = q[m]
    <2>1. \A x \in S :
            /\ Append(rest, x) \in Seq(S)
            /\ Len(Append(rest, x)) = Len(rest) + 1
            /\ \A i \in 1..Len(rest) : Append(rest, x)[i] = rest[i]
            /\ Append(rest, x)[Len(rest) + 1] = x
        BY <1>2, AppendProperties
    <2> QED
        BY <1>1, <1>2, <1>3, <2>1
<1>5. \A i \in 1..m : Append(rest, Top(q))[i] = q[i]
    BY <1>1, <1>2, <1>4
<1>6. Append(rest, Top(q)) = q
    BY <1>4, <1>5, SeqEqual DEF m
<1> QED
    BY <1>2, <1>3, <1>6 DEF rest, m

(* RTE of the last exception on the stack.                                 *)
LEMMA RteIsTransparent ==
    ASSUME NEW c, NEW n, Steady(c, n),
           c.s = TRUE => StackOf(c, TRUE) # <<>>
    PROVE  LET d == RteOp(c) IN Steady(d, n) /\ Transparent(c, d)
<1>1. GoodCpu(c) /\ c \in Cpus /\ c.pc \in Code /\ c.s \in BOOLEAN /\ "privilege" \in Vectors
    BY DEF Steady, GoodCpu, Cpus, Vectors
<1>2. CASE c.s = FALSE
    BY <1>1, <1>2, ExceptionIsCall DEF RteOp, PrivilegeViolation
<1>3. CASE c.s = TRUE
    <2> DEFINE frame == Top(c.sp)
               rest == SubSeq(c.sp, 1, Len(c.sp) - 1)
               b == [c EXCEPT !.sp = rest, !.pc = frame.pc]
               e == SetSrNoInt(b, frame.sr)
               d == RteOp(c)
    <2>1. /\ c.sp \in Seq(Frames) /\ c.sp # <<>> /\ c.sp_base[FALSE] \in UserStacks
          /\ StackOf(c, TRUE) = c.sp /\ StackOf(c, FALSE) = c.sp_base[FALSE]
        BY <1>1, <1>3 DEF GoodCpu, Stacks, StackOf
    <2>2. rest \in Seq(Frames) /\ frame \in Frames /\ Append(rest, frame) = c.sp
        BY <2>1, TopAndRest
    <2>3. d = CheckInterrupts(e)
        BY <1>3 DEF RteOp, SetSr, Top
    <2> HIDE DEF rest, frame
    <2>4. frame.pc \in Code /\ frame.sr \in StatusWords /\ frame = [pc |-> frame.pc, sr |-> frame.sr]
        BY <2>2 DEF Frames
    <2>5. /\ b \in Cpus /\ SameRequests(c, b)
          /\ b.s = TRUE /\ b.sp = rest /\ b.sp_base = c.sp_base /\ b.pc = frame.pc
        BY <1>1, <1>3, <2>2, <2>4 DEF Cpus, SameRequests
    <2> HIDE DEF b
    <2>6. GoodCpu(b)
        BY <2>1, <2>2, <2>5 DEF GoodCpu, Stacks
    <2>7. /\ GoodCpu(e) /\ SameRequests(b, e) /\ GetSr(e) = frame.sr /\ e.pc = frame.pc
          /\ StackOf(e, TRUE) = StackOf(b, TRUE)
          /\ StackOf(e, FALSE) = StackOf(b, FALSE)
        BY <2>4, <2>5, <2>6, SetSrNoIntFacts
    <2>8. StackOf(b, TRUE) = rest /\ StackOf(b, FALSE) = StackOf(c, FALSE)
        BY <2>1, <2>5 DEF StackOf
    <2> HIDE DEF e, d
    <2>9. Checked(e, d)
        BY <2>3, <2>7, CheckInterruptsFacts
    <2>10. Steady(b, n)
        BY <2>5, <2>6, SteadySame
    <2>11. Steady(e, n)
        BY <2>7, <2>10, SteadySame
    <2>12. Steady(d, n)
        BY <2>9, <2>11, SteadyChecked
    <2>13. Context(e) = frame
        BY <2>4, <2>7 DEF Context
    <2>14. ASSUME d = e PROVE Transparent(c, d)
        <3>1. Ends(c, d)
            BY <1>3, <2>1, <2>7, <2>8, <2>13, <2>14 DEF Ends, frame, rest
        <3> QED
            BY <3>1 DEF Transparent
    <2>15. ASSUME Interrupted(e, d) PROVE Transparent(c, d)
        <3>1. StackOf(d, TRUE) = c.sp
            BY <2>2, <2>7, <2>8, <2>13, <2>15 DEF Interrupted
        <3>2. e.mask = frame.sr.mask
            BY <2>13 DEF Context, GetSr
        <3>3. d.pc \in Entries /\ d.s = TRUE /\ d.mask >= frame.sr.mask
              /\ StackOf(d, FALSE) = StackOf(c, FALSE)
            BY <2>7, <2>8, <2>15, <3>2 DEF Interrupted, Entries
        <3>4. EndsInterrupted(c, d)
            BY <1>3, <2>1, <3>1, <3>3 DEF EndsInterrupted, frame
        <3> QED
            BY <3>4 DEF Transparent
    <2>16. Transparent(c, d)
        BY <2>9, <2>14, <2>15 DEF Checked, NmiServed, LevelServed
    <2> QED
        BY <2>12, <2>16 DEF d
<1> QED
    BY <1>1, <1>2, <1>3

-----------------------------------------------------------------------------
(* The inductive invariant.  A warm boot has one NMI to serve: it is       *)
(* latched until the first slice begins and served from then on.           *)
Boots == IF warm THEN 1 ELSE 0

Types ==
    /\ cycles \in 0..SliceCycles
    /\ watchdog \in 0..(WatchdogLimit + 1)
    /\ phase \in Phases
    /\ warm \in BOOLEAN
    /\ ended \in {"no", "quit", "watchdog"}

Bounds ==
    /\ phase = "slice" => cycles > 0
    /\ phase # "done" => watchdog <= WatchdogLimit

NmiToServe(c) ==
    /\ GoodCpu(c)
    /\ warm = TRUE /\ c.nmi_pending = TRUE
    /\ c.int_level = 0 /\ c.acks = 0 /\ c.nmis = 0

Boot ==
    CASE phase = "load"  -> Steady(cpu, 0) /\ cpu.int_level = 0 /\ cpu.acks = 0
      [] phase = "reset" -> /\ GoodCpu(cpu)
                            /\ cpu.nmi_pending = warm
                            /\ cpu.int_level \in {0, 7} /\ cpu.acks = 0 /\ cpu.nmis = 0
      [] phase = "loop"  -> NmiToServe(cpu) \/ Steady(cpu, Boots)
      [] OTHER           -> Steady(cpu, Boots)

(* A cpu that is still stopped when the loop comes round has the request   *)
(* of the tick before it.                                                  *)
Wakeable == phase = "loop" => cpu.stopped = FALSE \/ cpu.int_level = 1

Inv == Types /\ Bounds /\ Boot /\ Wakeable

(* Every instruction leaves a steady cpu steady and is transparent.        *)
LEMMA InstructionStep ==
    ASSUME Inv, Instruction
    PROVE  /\ phase = "slice" /\ phase' \in {"slice", "tick"}
           /\ Steady(cpu', Boots) /\ Transparent(cpu, cpu')
           /\ cycles' \in 0..SliceCycles /\ (phase' = "slice" => cycles' > 0)
           /\ watchdog' \in 0..WatchdogLimit
           /\ UNCHANGED <<warm, ended>>
<1>0. phase = "slice"
    BY DEF Instruction, Plain, KickWatchdog, Trap, MoveToSr, Rte, Stop
<1>1. /\ Steady(cpu, Boots) /\ cycles \in 1..SliceCycles /\ watchdog \in 0..WatchdogLimit
      /\ SliceCycles \in Nat /\ WatchdogLimit \in Nat
    BY <1>0, EmulatorAssumption DEF Inv, Types, Bounds, Boot
<1>2. ASSUME NEW left \in 0..SliceCycles, Executed(left)
      PROVE  /\ phase' \in {"slice", "tick"}
             /\ cycles' \in 0..SliceCycles /\ (phase' = "slice" => cycles' > 0)
             /\ UNCHANGED <<warm, ended>>
    BY <1>2 DEF Executed
<1>3. cycles - 1 \in 0..SliceCycles /\ 0 \in 0..SliceCycles
      /\ (IF cpu.s THEN 0 ELSE cycles - 1) \in 0..SliceCycles
    BY <1>1
<1>4. \A s \in BOOLEAN, mask \in Masks : [s |-> s, mask |-> mask] \in StatusWords
    BY EmulatorAssumption DEF StatusWords
<1>5. CASE Plain
    <2>1. PICK pc \in Code, usp \in UserStacks :
            cpu' = [cpu EXCEPT !.pc = pc, !.sp = IF cpu.s THEN cpu.sp ELSE usp]
        BY <1>5 DEF Plain
    <2>2. Steady(cpu', Boots) /\ Transparent(cpu, cpu')
        BY <1>1, <2>1, PlainIsTransparent
    <2> QED
        BY <1>0, <1>1, <1>2, <1>3, <1>5, <2>2 DEF Plain
<1>6. CASE KickWatchdog
    <2>1. PICK pc \in Code : cpu' = [cpu EXCEPT !.pc = pc]
        BY <1>6 DEF KickWatchdog
    <2>2. Steady(cpu', Boots) /\ Transparent(cpu, cpu')
        BY <1>1, <2>1, JumpIsTransparent
    <2> QED
        BY <1>0, <1>1, <1>2, <1>3, <1>6, <2>2 DEF KickWatchdog
<1>7. CASE Trap
    <2>1. PICK pc \in Code : cpu' = Exception(cpu, pc, "trap")
        BY <1>7 DEF Trap, TrapOp
    <2>2. "trap" \in Vectors
        BY DEF Vectors
    <2>3. Steady(cpu', Boots) /\ Transparent(cpu, cpu')
        BY <1>1, <2>1, <2>2, ExceptionIsCall
    <2> QED
        BY <1>0, <1>1, <1>2, <1>3, <1>7, <2>3 DEF Trap
<1>8. CASE MoveToSr
    <2>1. PICK pc \in Code, s \in BOOLEAN, mask \in Masks :
            cpu' = MoveToSrOp(cpu, pc, [s |-> s, mask |-> mask])
        BY <1>8 DEF MoveToSr
    <2>2. Steady(cpu', Boots) /\ Transparent(cpu, cpu')
        BY <1>1, <1>4, <2>1, MoveToSrIsTransparent
    <2> QED
        BY <1>0, <1>1, <1>2, <1>3, <1>8, <2>2 DEF MoveToSr
<1>9. CASE Rte
    <2>1. cpu.s = TRUE => StackOf(cpu, TRUE) # <<>>
        <3>1. Len(<<>>) = 0
            OBVIOUS
        <3>2. ASSUME cpu.s = TRUE PROVE Len(StackOf(cpu, TRUE)) > 0
            BY <1>9, <3>2 DEF Rte, Depth
        <3>3. ASSUME NEW q, Len(q) > 0 PROVE q # <<>>
            BY <3>1, <3>3
        <3> QED
            BY <3>2, <3>3
    <2>2. Steady(cpu', Boots) /\ Transparent(cpu, cpu')
        BY <1>1, <1>9, <2>1, RteIsTransparent DEF Rte
    <2> QED
        BY <1>0, <1>1, <1>2, <1>3, <1>9, <2>2 DEF Rte
<1>10. CASE Stop
    <2>1. PICK pc \in Code, s \in BOOLEAN, mask \in Masks :
            cpu' = StopOp(cpu, pc, [s |-> s, mask |-> mask])
        BY <1>10 DEF Stop
    <2>2. Steady(cpu', Boots) /\ Transparent(cpu, cpu')
        BY <1>1, <1>4, <2>1, StopIsTransparent
    <2> QED
        BY <1>0, <1>1, <1>2, <1>3, <1>10, <2>2 DEF Stop
<1> QED
    BY <1>5, <1>6, <1>7, <1>8, <1>9, <1>10 DEF Instruction

LEMMA InitInv ==
    ASSUME Init
    PROVE  Inv
<1>1. PICK usp \in UserStacks, pc \in Code :
        cpu = [pc |-> pc, s |-> FALSE, mask |-> 0, sp |-> usp,
               sp_base |-> [s \in BOOLEAN |-> IF s THEN <<>> ELSE usp],
               int_level |-> 0, nmi_pending |-> FALSE, stopped |-> FALSE,
               acks |-> 0, nmis |-> 0]
    BY DEF Init
<1>2. <<>> \in Seq(Frames) /\ 0 \in Levels /\ 0 \in Nat
    BY DEF Levels
<1> DEFINE bases == [s \in BOOLEAN |-> IF s THEN <<>> ELSE usp]
<1>3. bases \in [BOOLEAN -> Seq(Frames) \cup UserStacks] /\ bases[TRUE] = <<>>
    BY <1>2
<1> HIDE DEF bases
<1>4. cpu = [pc |-> pc, s |-> FALSE, mask |-> 0, sp |-> usp, sp_base |-> bases,
             int_level |-> 0, nmi_pending |-> FALSE, stopped |-> FALSE,
             acks |-> 0, nmis |-> 0]
    BY <1>1 DEF bases
<1>5. cpu \in Cpus
    BY <1>2, <1>3, <1>4 DEF Cpus
<1>6. GoodCpu(cpu)
    BY <1>2, <1>3, <1>4, <1>5 DEF GoodCpu, Stacks
<1>7. Steady(cpu, 0) /\ cpu.int_level = 0 /\ cpu.acks = 0
    BY <1>4, <1>6 DEF Steady
<1> QED
    BY <1>7, EmulatorAssumption DEF Init, Inv, Types, Bounds, Boot, Wakeable, Phases

LEMMA InvStep ==
    ASSUME Inv, [Next]_vars
    PROVE  Inv'
<1>1. CASE LoadRam
    <2>1. /\ phase = "load" /\ phase' = "reset"
          /\ UNCHANGED <<cycles, watchdog, warm, ended>>
          /\ Steady(cpu, 0) /\ cpu.int_level = 0 /\ cpu.acks = 0
          /\ cpu' = IF warm THEN SetIrq(cpu, 7) ELSE cpu
        BY <1>1 DEF LoadRam, Inv, Boot
    <2>2. /\ GoodCpu(cpu) /\ cpu.nmi_pending = FALSE /\ cpu.nmis = 0
          /\ 7 \in Levels /\ warm \in BOOLEAN
        BY <2>1 DEF Steady, Levels, Inv, Types
    <2>3. CASE warm = TRUE
        <3>1. /\ GoodCpu(cpu') /\ cpu'.int_level = 7 /\ cpu'.acks = 0 /\ cpu'.nmis = 0
              /\ cpu'.nmi_pending = (cpu.nmi_pending \/ (cpu.int_level # 7 /\ 7 = 7))
            BY <2>1, <2>2, <2>3, SetIrqFacts
        <3>2. cpu'.nmi_pending = TRUE
            BY <2>1, <2>2, <3>1
        <3> QED
            BY <2>1, <2>3, <3>1, <3>2 DEF Inv, Types, Bounds, Boot, Wakeable, Phases
    <2>4. CASE warm = FALSE
        BY <2>1, <2>2, <2>4 DEF Inv, Types, Bounds, Boot, Wakeable, Phases
    <2> QED
        BY <2>2, <2>3, <2>4
<1>2. CASE ResetCpu
    <2>1. /\ phase = "reset" /\ phase' = "loop" /\ cpu' = PulseReset(cpu)
          /\ UNCHANGED <<cycles, watchdog, warm, ended>>
          /\ GoodCpu(cpu) /\ cpu.nmi_pending = warm /\ cpu.acks = 0 /\ cpu.nmis = 0
        BY <1>2 DEF ResetCpu, Inv, Boot
    <2>2. /\ GoodCpu(cpu') /\ cpu'.int_level = 0 /\ cpu'.stopped = FALSE
          /\ cpu'.nmi_pending = warm /\ cpu'.acks = 0 /\ cpu'.nmis = 0
        BY <2>1, PulseResetFacts
    <2>3. warm \in BOOLEAN
        BY DEF Inv, Types
    <2>4. NmiToServe(cpu)' \/ Steady(cpu', Boots')
        BY <2>1, <2>2, <2>3 DEF NmiToServe, Steady, Boots
    <2> QED
        BY <2>1, <2>2, <2>4 DEF Inv, Types, Bounds, Boot, Wakeable, Phases
<1>3. CASE BeginSlice
    <2>1. /\ phase = "loop" /\ phase' \in {"slice", "tick"} /\ cpu' = CheckInterrupts(cpu)
          /\ phase' = "slice" => cycles' = SliceCycles
          /\ cycles' \in {0, SliceCycles}
          /\ UNCHANGED <<watchdog, warm, ended>>
          /\ NmiToServe(cpu) \/ Steady(cpu, Boots)
        BY <1>3 DEF BeginSlice, Inv, Boot
    <2>2. Checked(cpu, cpu')
        BY <2>1, CheckInterruptsFacts DEF NmiToServe, Steady
    <2>3. CASE NmiToServe(cpu)
        <3>1. NmiServed(cpu, cpu')
            BY <2>2, <2>3 DEF NmiToServe, Checked, LevelServed
        <3> QED
            BY <2>1, <2>3, <3>1, EmulatorAssumption
            DEF NmiServed, NmiToServe, Interrupted, Steady, Boots,
                Inv, Types, Bounds, Boot, Wakeable, Phases
    <2>4. CASE Steady(cpu, Boots)
        <3>1. Steady(cpu', Boots)
            BY <2>2, <2>4, SteadyChecked
        <3>2. Steady(cpu', Boots')
            BY <2>1, <3>1 DEF Boots
        <3> QED
            BY <2>1, <3>2, EmulatorAssumption DEF Inv, Types, Bounds, Boot, Wakeable, Phases
    <2> QED
        BY <2>1, <2>3, <2>4
<1>4. CASE Instruction
    <2>1. /\ phase = "slice" /\ phase' \in {"slice", "tick"}
          /\ Steady(cpu', Boots)
          /\ cycles' \in 0..SliceCycles /\ (phase' = "slice" => cycles' > 0)
          /\ watchdog' \in 0..WatchdogLimit
          /\ UNCHANGED <<warm, ended>>
        BY <1>4, InstructionStep
    <2>2. Steady(cpu', Boots')
        BY <2>1 DEF Boots
    <2> QED
        BY <2>1, <2>2, EmulatorAssumption DEF Inv, Types, Bounds, Boot, Wakeable, Phases
<1>5. CASE Tick
    <2>1. /\ phase = "tick" /\ phase' \in {"loop", "done"}
          /\ Steady(cpu, Boots) /\ cpu' = SetIrq(cpu, 1)
          /\ watchdog' = (watchdog + 1) % WatchdogRange
          /\ phase' = "loop" => ~WatchdogExpired
          /\ ended' \in {"no", "quit", "watchdog"}
          /\ UNCHANGED <<cycles, warm>>
        BY <1>5 DEF Tick, RequestTimer, Inv, Boot
    <2>2. /\ GoodCpu(cpu') /\ cpu'.int_level = 1 /\ cpu'.acks = 0 /\ cpu'.nmis = Boots
          /\ cpu'.nmi_pending = (cpu.nmi_pending \/ (cpu.int_level # 7 /\ 1 = 7))
        <3>1. 1 \in Levels /\ GoodCpu(cpu) /\ cpu.nmis = Boots
            BY <2>1 DEF Levels, Steady
        <3> QED
            BY <2>1, <3>1, SetIrqFacts
    <2>3. cpu'.nmi_pending = FALSE
        <3>1. 1 # 7
            OBVIOUS
        <3>2. cpu.nmi_pending = FALSE
            BY <2>1 DEF Steady
        <3> QED
            BY <2>2, <3>1, <3>2, Zenon
    <2>4. Steady(cpu', Boots')
        BY <2>1, <2>2, <2>3 DEF Steady, Boots
    <2>5. watchdog' = watchdog + 1 /\ watchdog' \in 0..(WatchdogLimit + 1)
        <3>1. watchdog \in 0..WatchdogLimit /\ WatchdogLimit \in Nat
              /\ WatchdogRange \in Nat /\ WatchdogLimit + 1 < WatchdogRange
            BY <2>1, EmulatorAssumption DEF Inv, Types, Bounds
        <3>2. (watchdog + 1) % WatchdogRange = watchdog + 1
            BY <3>1
        <3> QED
            BY <2>1, <3>1, <3>2
    <2>6. phase' = "loop" => watchdog' <= WatchdogLimit
        BY <2>1, <2>5, EmulatorAssumption DEF WatchdogExpired
    <2> QED
        BY <2>1, <2>2, <2>4, <2>5, <2>6 DEF Inv, Types, Bounds, Boot, Wakeable, Phases
<1>6. CASE UNCHANGED vars
    BY <1>6 DEF vars, Inv, Types, Bounds, Boot, Wakeable, NmiToServe, Boots
<1> QED
    BY <1>1, <1>2, <1>3, <1>4, <1>5, <1>6 DEF Next, Done

LEMMA Invariance == Spec => []Inv
<1> QED
    BY InitInv, InvStep, PTL DEF Spec

(* Every state is well typed: each stack pointer points into the stack of  *)
(* its mode, and the counters stay within the limits the loop puts them.   *)
THEOREM TypeCorrect == Spec => []TypeOK
<1>1. Inv => TypeOK
    <2> SUFFICES ASSUME Inv PROVE TypeOK
        OBVIOUS
    <2>1. GoodCpu(cpu)
        BY DEF Inv, Boot, Types, Phases, Steady, NmiToServe
    <2> QED
        BY <2>1 DEF GoodCpu, TypeOK, Inv, Types
<1> QED
    BY <1>1, Invariance, PTL

(* Between two ticks of the timer at most one interrupt of level 1 begins, *)
(* and none while the request of the tick still stands: m68ki_exception_   *)
(* interrupt takes the request back as it serves it.                       *)
THEOREM TickServedOnce == Spec => []OneServicePerTick
<1>1. Inv => OneServicePerTick
    BY DEF Inv, Boot, Types, Phases, Steady, NmiToServe, OneServicePerTick
<1> QED
    BY <1>1, Invariance, PTL

(* From the first instruction on, a warm boot has served exactly one NMI   *)
(* and a cold boot none, although m68k_set_irq(7) comes before the reset.  *)
THEOREM WarmBootServesNmi == Spec => []WarmBootByNmi
<1>1. Inv => WarmBootByNmi
    BY DEF Inv, Boot, Steady, Boots, WarmBootByNmi
<1> QED
    BY <1>1, Invariance, PTL

(* The loop gives a slice up only for a cpu that stopped with the timer    *)
(* masked: any other has been requested to serve the tick before, and does *)
(* so as the slice begins.                                                 *)
THEOREM StopMissesNoTick == Spec => OnlyMaskedStopSkipsSlice
<1>1. ASSUME Inv, [Next]_vars, phase = "loop", phase' = "tick"
      PROVE  cpu.mask >= 1
    <2>1. BeginSlice
        BY <1>1 DEF Next, LoadRam, ResetCpu, Instruction, Plain, KickWatchdog, Trap,
                    MoveToSr, Rte, Stop, Tick, Done, vars
    <2>2. GoodCpu(cpu) /\ cpu' = CheckInterrupts(cpu) /\ cpu'.stopped
        BY <1>1, <2>1 DEF BeginSlice, Inv, Boot, NmiToServe, Steady
    <2>3. Checked(cpu, cpu')
        BY <2>2, CheckInterruptsFacts
    <2>4. cpu' = cpu /\ cpu.int_level <= cpu.mask
        BY <2>2, <2>3 DEF Checked, NmiServed, LevelServed
    <2>5. cpu.int_level = 1
        BY <1>1, <2>2, <2>4 DEF Inv, Wakeable
    <2> QED
        BY <2>2, <2>4, <2>5 DEF GoodCpu, Cpus, Levels
<1>2. Inv /\ [Next]_vars => [phase = "loop" /\ phase' = "tick" => cpu.mask >= 1]_vars
    BY <1>1
<1> QED
    BY <1>2, Invariance, PTL DEF Spec, OnlyMaskedStopSkipsSlice

-----------------------------------------------------------------------------
(* The refinement: what Transparent says of two cpu records is what the    *)
(* abstract specification says of the program they run.                    *)
LEMMA TransparentStep ==
    ASSUME GoodCpu(cpu), GoodCpu(cpu'), Transparent(cpu, cpu')
    PROVE  [Calls!Next]_(Calls!vars)
<1> DEFINE ctx   == [pc |-> cpu.pc, sr |-> GetSr(cpu)]
           usp   == StackOf(cpu, FALSE)
           calls == StackOf(cpu, TRUE)
<1>1. /\ ctx \in Contexts /\ ctx' \in Contexts
      /\ ctx.sr = GetSr(cpu) /\ ctx'.sr = GetSr(cpu')
      /\ ctx.sr.s = cpu.s /\ ctx'.sr.s = cpu'.s /\ ctx'.sr.mask = cpu'.mask
      /\ ctx'.pc = cpu'.pc /\ ctx' = Context(cpu')
    BY ContextType DEF Context, GetSr
<1>2. usp' \in UserStacks
    BY DEF StackOf, GoodCpu, Stacks, Cpus
<1> HIDE DEF ctx, usp, calls
<1>3. CASE Goes(cpu, cpu')
    <2>1. Calls!Run
        BY <1>1, <1>2, <1>3 DEF Goes, Calls!Run, Calls!Ran, Calls!Contexts, Contexts, ctx, usp, calls
    <2> QED
        BY <2>1 DEF Calls!Next
<1>4. ASSUME NEW x \in Contexts, Begins(cpu, x, cpu')
      PROVE  Calls!Next
    <2>1. Calls!Ran(x) /\ Calls!Entered(x)
        BY <1>1, <1>4 DEF Begins, Entries, Calls!Ran, Calls!Entered, Calls!Contexts, Contexts, ctx
    <2>2. calls' = Append(calls, x) /\ usp' = usp
        BY <1>4 DEF Begins, calls, usp
    <2>3. Calls!Call
        BY <2>1, <2>2 DEF Calls!Call, Calls!Contexts, Contexts, calls, usp
    <2> QED
        BY <2>3 DEF Calls!Next
<1>5. CASE Ends(cpu, cpu')
    <2>1. Calls!Return
        BY <1>1, <1>5 DEF Ends, Top, Calls!Return, ctx, usp, calls
    <2> QED
        BY <2>1 DEF Calls!Next
<1>6. CASE EndsInterrupted(cpu, cpu')
    <2>1. Calls!Entered(Top(calls))
        BY <1>1, <1>6 DEF EndsInterrupted, Entries, Calls!Entered, Calls!Contexts, Contexts, ctx, calls
    <2>2. Calls!ReturnInterrupted
        BY <1>1, <1>6, <2>1 DEF EndsInterrupted, Top, Calls!ReturnInterrupted, ctx, usp, calls
    <2> QED
        BY <2>2 DEF Calls!Next
<1> QED
    BY <1>3, <1>4, <1>5, <1>6 DEF Transparent

LEMMA CallsInit ==
    ASSUME Init
    PROVE  Calls!Init
<1>1. GoodCpu(cpu) /\ cpu.s = FALSE /\ cpu.sp_base[TRUE] = <<>>
    <2>1. GoodCpu(cpu)
        BY InitInv DEF Inv, Boot, Init, Steady
    <2> QED
        BY <2>1 DEF Init
<1>2. Context(cpu) \in Contexts
    BY <1>1, ContextType
<1>3. StackOf(cpu, FALSE) \in UserStacks /\ StackOf(cpu, TRUE) = <<>>
    BY <1>1 DEF StackOf, GoodCpu, Stacks
<1> QED
    BY <1>2, <1>3 DEF Calls!Init, Calls!Contexts, Contexts, Context

LEMMA CallsStep ==
    ASSUME Inv, Inv', [Next]_vars
    PROVE  [Calls!Next]_(Calls!vars)
<1>0. GoodCpu(cpu) /\ GoodCpu(cpu')
    BY DEF Inv, Boot, Types, Phases, Steady, NmiToServe
<1>1. ASSUME Context(cpu') = Context(cpu),
             StackOf(cpu', TRUE) = StackOf(cpu, TRUE),
             StackOf(cpu', FALSE) = StackOf(cpu, FALSE)
      PROVE  UNCHANGED Calls!vars
    BY <1>1 DEF Calls!vars, Context
<1>2. CASE LoadRam
    <2>1. 7 \in Levels
        BY DEF Levels
    <2> QED
        BY <1>0, <1>1, <1>2, <2>1, SetIrqFacts DEF LoadRam
<1>3. CASE ResetCpu
    <2>1. /\ cpu'.s = TRUE /\ cpu'.pc = Vector["reset"]
          /\ StackOf(cpu', TRUE) = <<>> /\ StackOf(cpu', FALSE) = StackOf(cpu, FALSE)
        BY <1>0, <1>3, PulseResetFacts DEF ResetCpu
    <2>2. Context(cpu') \in Contexts
        BY <1>0, ContextType
    <2>3. Calls!Reset
        BY <2>1, <2>2 DEF Calls!Reset, Calls!Contexts, Contexts, Context, GetSr, Vectors
    <2> QED
        BY <2>3 DEF Calls!Next
<1>4. CASE BeginSlice
    <2>1. Checked(cpu, cpu')
        BY <1>0, <1>4, CheckInterruptsFacts DEF BeginSlice
    <2>2. CASE cpu' = cpu
        BY <1>1, <2>2
    <2>3. CASE Interrupted(cpu, cpu')
        <3>1. Transparent(cpu, cpu')
            BY <1>0, <2>3, InterruptedIsCall
        <3> QED
            BY <1>0, <3>1, TransparentStep
    <2> QED
        BY <2>1, <2>2, <2>3 DEF Checked, NmiServed, LevelServed
<1>5. CASE Instruction
    BY <1>0, <1>5, InstructionStep, TransparentStep
<1>6. CASE Tick
    <2>1. 1 \in Levels
        BY DEF Levels
    <2> QED
        BY <1>0, <1>1, <1>6, <2>1, SetIrqFacts DEF Tick, RequestTimer
<1>7. CASE UNCHANGED vars
    BY <1>1, <1>7 DEF vars
<1> QED
    BY <1>2, <1>3, <1>4, <1>5, <1>6, <1>7 DEF Next, Done

(* Exceptions, interrupts among them, are calls that the program they      *)
(* interrupt does not see: its context and its user stack come back, in    *)
(* the order of a stack, however the S flag, STOP and RTE interleave with  *)
(* the timer.                                                              *)
THEOREM ExceptionsAreCalls == Spec => ImplementsCalls
<1>1. Init => Calls!Init
    BY CallsInit
<1>2. Inv /\ Inv' /\ [Next]_vars => [Calls!Next]_(Calls!vars)
    BY CallsStep
<1> QED
    BY <1>1, <1>2, Invariance, PTL DEF Spec, ImplementsCalls, Calls!Spec
=============================================================================
