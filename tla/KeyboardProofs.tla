--------------------------- MODULE KeyboardProofs ---------------------------
(***************************************************************************)
(* The cat sees the strokes that were typed, for every number of events,   *)
(* every set of host keys and every mixture of hosts, the one excepted     *)
(* that Keyboard_layout shows to fail: Xlib with remapped letters.         *)
(***************************************************************************)
EXTENDS Keyboard, FiniteSetTheorems, SequenceTheorems, TLAPS

(* The letter that a handler finds is the one on the key (kyacopycat.c 600 *)
(* as against 649).                                                        *)
CertainHosts == \A h \in DOMAIN Hosts : Hosts[h].ui = "sdl" \/ ~Hosts[h].remap

KeyEvents(h) ==
    [type : {"down", "up"}, key : Hosts[h].keys, control : BOOLEAN] \cup [type : {"quit"}]

-----------------------------------------------------------------------------
(* The cells that a key is meant for on host h: MeantCells, without the    *)
(* variable. It is at most one.                                            *)
MeantOn(h, key) ==
    IF Hosts[h].remap /\ key.char \in Letters THEN SymCells(key.char)
    ELSE CellsOf(IF Hosts[h].ui = "sdl" THEN SdlMatrix ELSE XlibMatrix, key.code)

LEMMA MeantIsMeantOn == \A key : MeantCells(key) = MeantOn(host, key)
    BY DEF MeantCells, MeantOn, Matrix, UI, remap

LEMMA OneCell ==
    ASSUME NEW h, NEW key
    PROVE  /\ MeantOn(h, key) \subseteq Cells
           /\ \A c, d \in MeantOn(h, key) : c = d
<1>1. ASSUME NEW matrix, Apart(matrix), NEW code
      PROVE  /\ CellsOf(matrix, code) \subseteq Cells
             /\ \A c, d \in CellsOf(matrix, code) : c = d
    BY <1>1 DEF CellsOf, Apart
<1> QED
    BY <1>1, OnePlace DEF MeantOn, SymCells

(* The state of a cell after the first q of some strokes, from the places  *)
(* where it was struck.                                                    *)
At(s, q, c) == {i \in 1..q : s[i][1] = c}

LastOf(at) == CHOOSE i \in at : \A j \in at : j <= i

StateAt(s, q, c) == IF At(s, q, c) = {} THEN "up" ELSE s[LastOf(At(s, q, c))][2]

DownAt(s, q) == {c \in Cells : StateAt(s, q, c) = "down"}

(* That a set of places has a last one takes an induction: the invariant   *)
(* carries it along.                                                       *)
HasLast(s, q, c) == At(s, q, c) = {} \/ LastOf(At(s, q, c)) \in At(s, q, c)

LEMMA StateIsLast ==
    ASSUME NEW s \in Seq(Strokes), NEW c
    PROVE  State(s, c) = StateAt(s, Len(s), c)
<1>1. DOMAIN s = 1..Len(s)
    OBVIOUS
<1> QED
    BY <1>1 DEF State, StateAt, At, LastOf

LEMMA StateAtStart ==
    ASSUME NEW s, NEW c
    PROVE  StateAt(s, 0, c) = "up" /\ HasLast(s, 0, c)
    BY DEF StateAt, HasLast, At

(* The next stroke sets the state of its cell and of no other,             *)
LEMMA StateAtNext ==
    ASSUME NEW s, NEW q \in Nat, NEW c
    PROVE  /\ StateAt(s, q + 1, c) = IF s[q + 1][1] = c THEN s[q + 1][2] ELSE StateAt(s, q, c)
           /\ HasLast(s, q, c) => HasLast(s, q + 1, c)
<1>1. CASE s[q + 1][1] = c
  <2>1. q + 1 \in At(s, q + 1, c) /\ At(s, q + 1, c) \subseteq 1..(q + 1)
      BY <1>1 DEF At
  <2>2. \A i \in At(s, q + 1, c) : (\A j \in At(s, q + 1, c) : j <= i) <=> i = q + 1
      BY <2>1
  <2>3. LastOf(At(s, q + 1, c)) = q + 1
      BY <2>1, <2>2 DEF LastOf
  <2> QED
      BY <1>1, <2>1, <2>3 DEF StateAt, HasLast
<1>2. CASE s[q + 1][1] # c
  <2>1. At(s, q + 1, c) = At(s, q, c)
      BY <1>2 DEF At
  <2> QED
      BY <1>2, <2>1 DEF StateAt, HasLast
<1> QED
    BY <1>1, <1>2

(* and strokes typed later change nothing.                                 *)
LEMMA StateAtSame ==
    ASSUME NEW s, NEW t, NEW q \in Nat, \A i \in 1..q : t[i] = s[i], NEW c, HasLast(s, q, c)
    PROVE  StateAt(t, q, c) = StateAt(s, q, c) /\ HasLast(t, q, c)
<1>1. At(t, q, c) = At(s, q, c) /\ At(s, q, c) \subseteq 1..q
    BY DEF At
<1> QED
    BY <1>1 DEF StateAt, HasLast

-----------------------------------------------------------------------------
(* Strokes that make sense: each of them changes the state of its cell.    *)
Sensible(s) ==
    /\ s \in Seq(Strokes)
    /\ \A q \in 0..Len(s), c \in Cells :
          HasLast(s, q, c) /\ StateAt(s, q, c) \in {"up", "down"}
    /\ \A q \in 0..(Len(s) - 1) : s[q + 1][2] # StateAt(s, q, s[q + 1][1])

Extends(t, s) == Len(s) <= Len(t) /\ \A i \in 1..Len(s) : t[i] = s[i]

(* An event that a host has sent and the strokes it stands for: those of s *)
(* from q + 1 to r, one or none.                                           *)
EventCells(h, e) == IF e.type = "quit" THEN {} ELSE MeantOn(h, e.key)

Plays(h, s, q, e, r) ==
    \/ r = q /\ \A c \in EventCells(h, e) : StateAt(s, q, c) = e.type
    \/ r = q + 1 /\ \E c \in EventCells(h, e) : s[r] = <<c, e.type>>

LEMMA PrefixIsSame ==
    ASSUME NEW s, Sensible(s), NEW t, Extends(t, s), NEW q \in 0..Len(s), NEW c \in Cells
    PROVE  StateAt(t, q, c) = StateAt(s, q, c) /\ HasLast(t, q, c)
<1>1. q \in Nat /\ HasLast(s, q, c) /\ \A i \in 1..q : t[i] = s[i]
    BY DEF Sensible, Extends
<1> QED
    BY <1>1, StateAtSame

(* t is s with one stroke more.                                            *)
OneMore(s, t, c, type) ==
    /\ Sensible(t) /\ Extends(t, s) /\ Len(t) = Len(s) + 1
    /\ t[Len(s) + 1] = <<c, type>>
    /\ \A d \in Cells : StateAt(t, Len(t), d) = IF d = c THEN type ELSE StateAt(s, Len(s), d)

LEMMA OneMoreStroke ==
    ASSUME NEW s, Sensible(s), NEW c \in Cells, NEW type \in {"down", "up"},
           StateAt(s, Len(s), c) # type
    PROVE  OneMore(s, Append(s, <<c, type>>), c, type)
<1> DEFINE x == <<c, type>>
           t == Append(s, x)
<1>1. /\ s \in Seq(Strokes) /\ x \in Strokes /\ x[1] = c /\ x[2] = type
      /\ Len(s) \in Nat
    BY DEF Sensible, Strokes
<1> HIDE DEF x
<1>2. t \in Seq(Strokes) /\ Extends(t, s) /\ Len(t) = Len(s) + 1 /\ t[Len(s) + 1] = x
    BY <1>1 DEF Extends
<1> HIDE DEF t
<1>3. \A q \in 0..Len(s), d \in Cells : StateAt(t, q, d) = StateAt(s, q, d) /\ HasLast(t, q, d)
    BY <1>2, PrefixIsSame
<1>4. \A d \in Cells : /\ StateAt(t, Len(t), d) = IF c = d THEN type ELSE StateAt(s, Len(s), d)
                       /\ HasLast(t, Len(t), d)
  <2> SUFFICES ASSUME NEW d \in Cells
               PROVE  /\ StateAt(t, Len(t), d) = IF c = d THEN type ELSE StateAt(s, Len(s), d)
                      /\ HasLast(t, Len(t), d)
      OBVIOUS
  <2>1. StateAt(t, Len(s), d) = StateAt(s, Len(s), d) /\ HasLast(t, Len(s), d)
      BY <1>1, <1>3
  <2>2. /\ StateAt(t, Len(s) + 1, d) = IF t[Len(s) + 1][1] = d THEN t[Len(s) + 1][2]
                                       ELSE StateAt(t, Len(s), d)
        /\ HasLast(t, Len(s), d) => HasLast(t, Len(s) + 1, d)
      BY <1>1, StateAtNext
  <2> QED
      BY <1>1, <1>2, <2>1, <2>2
<1>5. \A q \in 0..Len(t), d \in Cells : HasLast(t, q, d) /\ StateAt(t, q, d) \in {"up", "down"}
  <2> SUFFICES ASSUME NEW q \in 0..Len(t), NEW d \in Cells
               PROVE  HasLast(t, q, d) /\ StateAt(t, q, d) \in {"up", "down"}
      OBVIOUS
  <2>1. StateAt(s, Len(s), d) \in {"up", "down"}
      BY <1>1 DEF Sensible
  <2>2. CASE q = Len(t)
      BY <1>4, <2>1, <2>2
  <2>3. CASE q # Len(t)
    <3>1. q \in 0..Len(s)
        BY <1>1, <1>2, <2>3
    <3> QED
        BY <1>3, <3>1 DEF Sensible
  <2> QED
      BY <2>2, <2>3
<1>6. \A q \in 0..(Len(t) - 1) : t[q + 1][2] # StateAt(t, q, t[q + 1][1])
  <2> SUFFICES ASSUME NEW q \in 0..(Len(t) - 1)
               PROVE  t[q + 1][2] # StateAt(t, q, t[q + 1][1])
      OBVIOUS
  <2>1. CASE q = Len(s)
    <3>1. StateAt(t, Len(s), c) = StateAt(s, Len(s), c)
        BY <1>1, <1>3
    <3> QED
        BY <1>1, <1>2, <2>1, <3>1
  <2>2. CASE q # Len(s)
    <3>1. q \in 0..(Len(s) - 1) /\ q + 1 \in 1..Len(s) /\ q \in 0..Len(s)
        BY <1>1, <1>2, <2>2
    <3>2. s[q + 1] \in Strokes
        BY <1>1, <3>1
    <3>3. s[q + 1][1] \in Cells
        BY <3>2 DEF Strokes
    <3>4. t[q + 1] = s[q + 1]
        BY <1>2, <3>1 DEF Extends
    <3>5. StateAt(t, q, s[q + 1][1]) = StateAt(s, q, s[q + 1][1])
        BY <1>3, <3>1, <3>3
    <3> QED
        BY <3>1, <3>4, <3>5 DEF Sensible
  <2> QED
      BY <2>1, <2>2
<1>7. Sensible(t)
    BY <1>2, <1>5, <1>6 DEF Sensible
<1>8. OneMore(s, t, c, type)
    BY <1>2, <1>4, <1>7 DEF OneMore, x
<1> QED
    BY <1>8 DEF t, x

(* What a key that goes down or up adds to the strokes.                    *)
Adds(h, s, t, e) ==
    /\ Sensible(t) /\ Extends(t, s) /\ Len(t) \in {Len(s), Len(s) + 1}
    /\ Plays(h, t, Len(s), e, Len(t))
    /\ \A d \in Cells : StateAt(t, Len(t), d) =
          IF d \in EventCells(h, e) THEN e.type ELSE StateAt(s, Len(s), d)

LEMMA StruckOnce ==
    ASSUME NEW s, Sensible(s), NEW e, e.type \in {"down", "up"}
    PROVE  Adds(host, s, Struck(s, e.key, e.type), e)
<1> DEFINE t == Struck(s, e.key, e.type)
<1>1. /\ EventCells(host, e) = MeantCells(e.key) /\ MeantCells(e.key) \subseteq Cells
      /\ \A c, d \in MeantCells(e.key) : c = d
    BY OneCell, MeantIsMeantOn DEF EventCells
<1>2. s \in Seq(Strokes) /\ Len(s) \in Nat /\ \A c : State(s, c) = StateAt(s, Len(s), c)
    BY StateIsLast DEF Sensible
<1>3. ASSUME \A c \in MeantCells(e.key) : State(s, c) = e.type
      PROVE  Adds(host, s, t, e)
  <2>1. t = s
      BY <1>3 DEF Struck
  <2> HIDE DEF t
  <2>2. Extends(s, s)
      BY <1>2 DEF Extends
  <2>3. Plays(host, s, Len(s), e, Len(s))
      BY <1>1, <1>2, <1>3 DEF Plays
  <2>4. \A d \in EventCells(host, e) : StateAt(s, Len(s), d) = e.type
      BY <1>1, <1>2, <1>3
  <2> QED
      BY <2>1, <2>2, <2>3, <2>4 DEF Adds
<1>4. ASSUME NEW c \in MeantCells(e.key), State(s, c) # e.type
      PROVE  Adds(host, s, t, e)
  <2>1. MeantCells(e.key) = {c} /\ c \in Cells /\ (CHOOSE d \in MeantCells(e.key) : TRUE) = c
      BY <1>1
  <2>2. t = Append(s, <<c, e.type>>)
      BY <1>4, <2>1 DEF Struck
  <2> HIDE DEF t
  <2>3. StateAt(s, Len(s), c) # e.type
      BY <1>2, <1>4
  <2>4. OneMore(s, t, c, e.type)
      BY <2>1, <2>2, <2>3, OneMoreStroke
  <2>5. Plays(host, t, Len(s), e, Len(t))
      BY <1>1, <2>4 DEF Plays, OneMore
  <2> QED
      BY <1>1, <2>1, <2>4, <2>5 DEF Adds, OneMore
<1> QED
    BY <1>3, <1>4

-----------------------------------------------------------------------------
(* The events es of the queue play the end of the strokes s: p[i] is how   *)
(* many strokes the matrix has had when i of them are handled.             *)
Chain(h, es, s, p) ==
    /\ p \in [0..Len(es) -> 0..Len(s)]
    /\ p[Len(es)] = Len(s)
    /\ \A i \in 0..(Len(es) - 1) : Plays(h, s, p[i], es[i + 1], p[i + 1])

LEMMA ChainGrows ==
    ASSUME NEW h, NEW E, NEW es \in Seq(E), NEW e \in E, NEW s, Sensible(s),
           NEW t, Sensible(t), Extends(t, s), NEW p, Chain(h, es, s, p),
           Plays(h, t, Len(s), e, Len(t))
    PROVE  \E q : Chain(h, es \o <<e>>, t, q) /\ q[0] = p[0]
<1> DEFINE n == Len(es)
           more == es \o <<e>>
           q == [i \in 0..(n + 1) |-> IF i <= n THEN p[i] ELSE Len(t)]
<1>1. n \in Nat /\ Len(s) \in Nat /\ Len(t) \in Nat /\ Len(s) <= Len(t)
    BY DEF Sensible, Extends
<1>2. Len(more) = n + 1 /\ more[n + 1] = e /\ \A i \in 1..n : more[i] = es[i]
    OBVIOUS
<1>3. /\ p \in [0..n -> 0..Len(s)] /\ p[n] = Len(s)
      /\ \A i \in 0..(n - 1) : Plays(h, s, p[i], es[i + 1], p[i + 1])
    BY DEF Chain
<1> HIDE DEF n, more
<1>4. /\ q \in [0..(n + 1) -> 0..Len(t)] /\ q[n + 1] = Len(t)
      /\ \A i \in 0..n : q[i] = p[i]
    BY <1>1, <1>3
<1> HIDE DEF q
<1>5. \A i \in 0..((n + 1) - 1) : Plays(h, t, q[i], more[i + 1], q[i + 1])
  <2> SUFFICES ASSUME NEW i \in 0..((n + 1) - 1)
               PROVE  Plays(h, t, q[i], more[i + 1], q[i + 1])
      OBVIOUS
  <2>1. CASE i = n
      BY <1>1, <1>2, <1>3, <1>4, <2>1
  <2>2. CASE i # n
    <3>1. i \in 0..(n - 1) /\ i + 1 \in 1..n /\ i \in 0..n /\ i + 1 \in 0..n
        BY <1>1, <2>2
    <3>2. /\ q[i] = p[i] /\ q[i + 1] = p[i + 1] /\ more[i + 1] = es[i + 1]
          /\ p[i] \in 0..Len(s) /\ p[i + 1] \in 0..Len(s)
        BY <1>2, <1>3, <1>4, <3>1
    <3>3. Plays(h, s, p[i], es[i + 1], p[i + 1])
        BY <1>3, <3>1
    <3>4. \A c \in EventCells(h, es[i + 1]) : StateAt(t, p[i], c) = StateAt(s, p[i], c)
        BY <3>2, PrefixIsSame, OneCell DEF EventCells
    <3>5. p[i + 1] = p[i] + 1 => t[p[i + 1]] = s[p[i + 1]]
        BY <1>1, <3>2 DEF Extends
    <3>6. Plays(h, t, p[i], es[i + 1], p[i + 1])
        BY <3>3, <3>4, <3>5 DEF Plays
    <3> QED
        BY <3>2, <3>6
  <2> QED
      BY <2>1, <2>2
<1>6. q[0] = p[0]
    BY <1>1, <1>4
<1> QED
    BY <1>1, <1>2, <1>4, <1>5, <1>6 DEF Chain, more

(* The first event of the queue is handled.                                *)
LEMMA ChainTail ==
    ASSUME NEW h, NEW E, NEW es \in Seq(E), es # <<>>, NEW s \in Seq(Strokes), NEW p,
           Chain(h, es, s, p)
    PROVE  /\ Plays(h, s, p[0], Head(es), p[1]) /\ p[0] \in 0..Len(s) /\ p[1] \in 0..Len(s)
           /\ \E q : Chain(h, Tail(es), s, q) /\ q[0] = p[1]
<1> DEFINE n == Len(es) - 1
           rest == Tail(es)
           q == [i \in 0..n |-> p[i + 1]]
<1>1. /\ n \in Nat /\ Len(es) = n + 1 /\ Len(rest) = n /\ Head(es) = es[1]
      /\ \A i \in 1..n : rest[i] = es[i + 1]
    OBVIOUS
<1>2. /\ p \in [0..(n + 1) -> 0..Len(s)] /\ p[n + 1] = Len(s)
      /\ \A i \in 0..n : Plays(h, s, p[i], es[i + 1], p[i + 1])
    BY <1>1 DEF Chain
<1> HIDE DEF n, rest
<1>3. q \in [0..n -> 0..Len(s)] /\ q[n] = Len(s) /\ q[0] = p[1]
    BY <1>1, <1>2
<1>4. \A i \in 0..(n - 1) : Plays(h, s, q[i], rest[i + 1], q[i + 1])
  <2> SUFFICES ASSUME NEW i \in 0..(n - 1)
               PROVE  Plays(h, s, q[i], rest[i + 1], q[i + 1])
      OBVIOUS
  <2>1. /\ i \in 0..n /\ i + 1 \in 0..n /\ i + 1 \in 1..n
        /\ rest[i + 1] = es[(i + 1) + 1]
      BY <1>1
  <2> QED
      BY <1>2, <2>1
<1>5. Chain(h, rest, s, q)
    BY <1>1, <1>3, <1>4 DEF Chain
<1>6. 0 \in 0..n /\ 0 \in 0..(n + 1) /\ 1 \in 0..(n + 1) /\ 0 + 1 = 1
    BY <1>1
<1> QED
    BY <1>1, <1>2, <1>3, <1>5, <1>6 DEF rest

(* The matrix rd, the last scan sc and the n strokes seen fit the queue:   *)
(* the matrix is at most one stroke ahead of the scans, and in a poll none. *)
Fits(h, es, s, rd, sc, n, ph) ==
    \E p : /\ Chain(h, es, s, p)
           /\ rd = DownAt(s, p[0]) /\ sc = DownAt(s, n)
           /\ n = p[0] \/ (ph = "slice" /\ n + 1 = p[0])

LEMMA FitsGrows ==
    ASSUME NEW h, NEW E, NEW es \in Seq(E), NEW e \in E, NEW s, Sensible(s),
           NEW t, Sensible(t), Extends(t, s), Plays(h, t, Len(s), e, Len(t)),
           NEW rd, NEW sc, NEW n \in 0..Len(s), NEW ph, Fits(h, es, s, rd, sc, n, ph)
    PROVE  Fits(h, es \o <<e>>, t, rd, sc, n, ph)
<1>1. PICK p : /\ Chain(h, es, s, p)
               /\ rd = DownAt(s, p[0]) /\ sc = DownAt(s, n)
               /\ n = p[0] \/ (ph = "slice" /\ n + 1 = p[0])
    BY DEF Fits
<1>2. PICK q : Chain(h, es \o <<e>>, t, q) /\ q[0] = p[0]
    BY <1>1, ChainGrows
<1>3. p[0] \in 0..Len(s)
    BY <1>1 DEF Chain
<1>4. \A i \in 0..Len(s) : DownAt(t, i) = DownAt(s, i)
    BY PrefixIsSame DEF DownAt
<1> QED
    BY <1>1, <1>2, <1>3, <1>4 DEF Fits

-----------------------------------------------------------------------------
(* The inductive invariant. Once the program is done it says of the strokes *)
(* seen that they were typed, and no more.                                 *)
HeldInv(h, s, keys) ==
    \A c \in Cells : StateAt(s, Len(s), c) = "down" => \E k \in keys : c \in MeantOn(h, k)

KeyboardInv ==
    /\ host \in DOMAIN Hosts
    /\ held \subseteq Hosts[host].keys
    /\ events \in Seq(KeyEvents(host))
    /\ phase \in {"slice", "poll", "done"}
    /\ Sensible(typed)
    /\ HeldInv(host, typed, held)
    /\ seen \in Seq(Strokes) /\ Extends(typed, seen)
    /\ phase # "done" => Fits(host, events, typed, kb_rd, scanned, Len(seen), phase)

LEMMA KeyboardInit == Init => KeyboardInv
<1> SUFFICES ASSUME Init PROVE KeyboardInv
    OBVIOUS
<1>1. typed = <<>> /\ seen = <<>> /\ events = <<>> /\ kb_rd = {} /\ scanned = {}
      /\ phase = "slice" /\ held = {} /\ host \in DOMAIN Hosts
    BY DEF Init
<1>2. Sensible(<<>>)
  <2>1. <<>> \in Seq(Strokes) /\ Len(<<>>) = 0 /\ 0..0 = {0} /\ 0..(0 - 1) = {}
      OBVIOUS
  <2> QED
      BY <2>1, StateAtStart DEF Sensible
<1>3. HeldInv(host, <<>>, {})
  <2>1. Len(<<>>) = 0
      OBVIOUS
  <2> QED
      BY <2>1, StateAtStart DEF HeldInv
<1>4. Fits(host, <<>>, <<>>, {}, {}, 0, "slice")
  <2> DEFINE p == [i \in {0} |-> 0]
  <2>1. Len(<<>>) = 0 /\ 0..0 = {0} /\ 0..(0 - 1) = {} /\ p \in [{0} -> {0}] /\ p[0] = 0
      OBVIOUS
  <2> HIDE DEF p
  <2>2. Chain(host, <<>>, <<>>, p)
      BY <2>1 DEF Chain
  <2>3. DownAt(<<>>, 0) = {}
      BY StateAtStart DEF DownAt
  <2> QED
      BY <2>1, <2>2, <2>3 DEF Fits
<1>5. Extends(<<>>, <<>>) /\ Len(<<>>) = 0 /\ <<>> \in Seq(Strokes) /\ <<>> \in Seq(KeyEvents(host))
    BY DEF Extends
<1> QED
    BY <1>1, <1>2, <1>3, <1>4, <1>5 DEF KeyboardInv

(* A host that produces events for the strokes that are typed.             *)
LEMMA ExtendsTwice ==
    ASSUME NEW s \in Seq(Strokes), NEW t \in Seq(Strokes), NEW u \in Seq(Strokes),
           Extends(t, s), Extends(u, t)
    PROVE  Extends(u, s)
    BY DEF Extends

TypedOn ==
    /\ KeyboardInv'
    /\ Extends(typed', typed) /\ Len(typed') - Len(typed) \in 0..2 /\ seen' = seen

LEMMA HostProduces ==
    ASSUME KeyboardInv, UNCHANGED <<host, kb_rd, phase, scanned, seen>>,
           events' \in Seq(KeyEvents(host)),
           held' \subseteq Hosts[host].keys,
           Sensible(typed'), Extends(typed', typed), Len(typed') - Len(typed) \in 0..2,
           HeldInv(host, typed', held'),
           phase # "done" => Fits(host, events', typed', kb_rd, scanned, Len(seen), phase)
    PROVE  TypedOn
<1>1. Extends(typed', seen)
    BY ExtendsTwice DEF KeyboardInv, Sensible
<1> QED
    BY <1>1 DEF TypedOn, KeyboardInv

LEMMA EventIsEvent ==
    ASSUME NEW k \in Hosts[host].keys, NEW type \in {"down", "up"}
    PROVE  /\ Event(type, k) \in KeyEvents(host)
           /\ Event(type, k).type = type /\ Event(type, k).key = k
<1>1. (\E j \in held : j.code \in Controls) \in BOOLEAN
    OBVIOUS
<1> QED
    BY <1>1 DEF Event, KeyEvents

(* A key that goes down, up, or down again adds to the strokes what its    *)
(* event will do to the matrix.                                            *)
LEMMA OneStroke ==
    ASSUME KeyboardInv, NEW E, NEW es \in Seq(E), NEW e \in E, e.type \in {"down", "up"},
           NEW s, Sensible(s), Extends(s, typed),
           phase # "done" => Fits(host, es, s, kb_rd, scanned, Len(seen), phase)
    PROVE  /\ Adds(host, s, Struck(s, e.key, e.type), e)
           /\ Extends(Struck(s, e.key, e.type), typed)
           /\ phase # "done" => Fits(host, es \o <<e>>, Struck(s, e.key, e.type),
                                     kb_rd, scanned, Len(seen), phase)
<1> DEFINE t == Struck(s, e.key, e.type)
<1>1. Adds(host, s, t, e)
    BY StruckOnce
<1> HIDE DEF t
<1>2. Sensible(t) /\ Extends(t, s) /\ Plays(host, t, Len(s), e, Len(t))
    BY <1>1 DEF Adds
<1>3. Extends(t, typed)
    BY <1>2, ExtendsTwice DEF KeyboardInv, Sensible
<1>4. Len(seen) \in 0..Len(s)
    BY DEF KeyboardInv, Extends, Sensible
<1>5. phase # "done" => Fits(host, es \o <<e>>, t, kb_rd, scanned, Len(seen), phase)
    BY <1>2, <1>4, FitsGrows
<1> QED
    BY <1>1, <1>3, <1>5 DEF t

LEMMA TypedNow ==
    ASSUME KeyboardInv
    PROVE  /\ Sensible(typed) /\ Extends(typed, typed) /\ Len(typed) \in Nat
           /\ phase # "done" => Fits(host, events, typed, kb_rd, scanned, Len(seen), phase)
    BY DEF KeyboardInv, Sensible, Extends

LEMMA PressStep == KeyboardInv /\ HostPress => TypedOn
<1> SUFFICES ASSUME KeyboardInv, HostPress PROVE TypedOn
    OBVIOUS
<1>1. PICK k \in Keys \ held : /\ held' = held \cup {k}
                               /\ Produce(<<Event("down", k)>>)
                               /\ typed' = Struck(typed, k, "down")
    BY DEF HostPress
<1> DEFINE e == Event("down", k)
<1>2. e \in KeyEvents(host) /\ e.type = "down" /\ e.key = k /\ k \in Hosts[host].keys
    BY EventIsEvent DEF Keys
<1>3. events' = events \o <<e>>
    BY <1>1 DEF Produce
<1> HIDE DEF e
<1>4. events \in Seq(KeyEvents(host)) /\ events' \in Seq(KeyEvents(host))
    BY <1>2, <1>3 DEF KeyboardInv
<1>5. /\ Adds(host, typed, typed', e) /\ Extends(typed', typed)
      /\ phase # "done" => Fits(host, events', typed', kb_rd, scanned, Len(seen), phase)
    BY <1>1, <1>2, <1>3, <1>4, TypedNow, OneStroke
<1>6. held' \subseteq Hosts[host].keys
    BY <1>1, <1>2 DEF KeyboardInv
<1>7. HeldInv(host, typed', held')
    BY <1>1, <1>2, <1>5 DEF HeldInv, KeyboardInv, Adds, EventCells
<1>8. Sensible(typed') /\ Len(typed') - Len(typed) \in 0..2
    BY <1>5, TypedNow DEF Adds
<1> QED
    BY <1>4, <1>5, <1>6, <1>7, <1>8, HostProduces DEF HostPress

LEMMA ReleaseStep == KeyboardInv /\ HostRelease => TypedOn
<1> SUFFICES ASSUME KeyboardInv, HostRelease PROVE TypedOn
    OBVIOUS
<1>1. PICK k \in held : /\ held' = held \ {k}
                        /\ Produce(<<Event("up", k)>>)
                        /\ typed' = Struck(typed, k, "up")
    BY DEF HostRelease
<1> DEFINE e == Event("up", k)
<1>2. e \in KeyEvents(host) /\ e.type = "up" /\ e.key = k /\ k \in Hosts[host].keys
    BY EventIsEvent DEF KeyboardInv
<1>3. events' = events \o <<e>>
    BY <1>1 DEF Produce
<1> HIDE DEF e
<1>4. events \in Seq(KeyEvents(host)) /\ events' \in Seq(KeyEvents(host))
    BY <1>2, <1>3 DEF KeyboardInv
<1>5. /\ Adds(host, typed, typed', e) /\ Extends(typed', typed)
      /\ phase # "done" => Fits(host, events', typed', kb_rd, scanned, Len(seen), phase)
    BY <1>1, <1>2, <1>3, <1>4, TypedNow, OneStroke
<1>6. held' \subseteq Hosts[host].keys
    BY <1>1 DEF KeyboardInv
<1>7. HeldInv(host, typed', held')
  <2> SUFFICES ASSUME NEW c \in Cells, StateAt(typed', Len(typed'), c) = "down"
               PROVE  \E j \in held' : c \in MeantOn(host, j)
      BY DEF HeldInv
  <2>1. c \notin MeantOn(host, k) /\ StateAt(typed, Len(typed), c) = "down"
      BY <1>2, <1>5 DEF Adds, EventCells
  <2>2. PICK j \in held : c \in MeantOn(host, j)
      BY <2>1 DEF HeldInv, KeyboardInv
  <2> QED
      BY <1>1, <2>1, <2>2
<1>8. Sensible(typed') /\ Len(typed') - Len(typed) \in 0..2
    BY <1>5, TypedNow DEF Adds
<1> QED
    BY <1>4, <1>5, <1>6, <1>7, <1>8, HostProduces DEF HostRelease

LEMMA TwoMore ==
    ASSUME NEW E, NEW s \in Seq(E), NEW x \in E, NEW y \in E
    PROVE  /\ s \o <<x>> \in Seq(E) /\ s \o <<x, y>> \in Seq(E)
           /\ s \o <<x, y>> = (s \o <<x>>) \o <<y>>
<1>1. <<x>> \in Seq(E) /\ <<y>> \in Seq(E) /\ <<x, y>> \in Seq(E)
    OBVIOUS
<1>2. <<x>> \o <<y>> = <<x, y>>
  <2> DEFINE z == <<x>> \o <<y>>
             w == <<x, y>>
  <2>1. /\ Len(<<x>>) = 1 /\ Len(<<y>>) = 1 /\ <<x>>[1] = x /\ <<y>>[1] = y
        /\ Len(w) = 2 /\ w[1] = x /\ w[2] = y
      OBVIOUS
  <2>2. /\ z \in Seq(E) /\ Len(z) = 1 + 1
        /\ \A i \in 1..(1 + 1) : z[i] = IF i <= 1 THEN <<x>>[i] ELSE <<y>>[i - 1]
      BY <1>1, <2>1, ConcatProperties
  <2> HIDE DEF z
  <2>3. z[1] = x /\ z[2] = y
      BY <2>1, <2>2
  <2> HIDE DEF w
  <2>4. w \in Seq(E) /\ Len(z) = Len(w) /\ \A i \in 1..Len(z) : z[i] = w[i]
      BY <1>1, <2>1, <2>2, <2>3 DEF w
  <2>5. z = w
      BY <2>2, <2>4, SeqEqual
  <2> QED
      BY <2>5 DEF z, w
<1>3. s \o <<x>> \in Seq(E) /\ s \o <<x, y>> \in Seq(E)
    BY <1>1, ConcatProperties
<1>4. (s \o <<x>>) \o <<y>> = s \o (<<x>> \o <<y>>)
    BY <1>1, ConcatAssociative
<1> QED
    BY <1>2, <1>3, <1>4

LEMMA RepeatStep == KeyboardInv /\ HostRepeat => TypedOn
<1> SUFFICES ASSUME KeyboardInv, HostRepeat PROVE TypedOn
    OBVIOUS
<1>1. PICK k \in held :
         IF UI = "sdl"
         THEN Produce(<<Event("down", k)>>) /\ typed' = Struck(typed, k, "down")
         ELSE /\ Produce(<<Event("up", k), Event("down", k)>>)
              /\ typed' = Struck(Struck(typed, k, "up"), k, "down")
    BY DEF HostRepeat
<1> DEFINE u == Event("up", k)
           d == Event("down", k)
<1>2. /\ u \in KeyEvents(host) /\ u.type = "up" /\ u.key = k
      /\ d \in KeyEvents(host) /\ d.type = "down" /\ d.key = k
    BY EventIsEvent DEF KeyboardInv
<1>3. events \in Seq(KeyEvents(host)) /\ held' = held /\ held \subseteq Hosts[host].keys
    BY DEF KeyboardInv, HostRepeat
<1>4. CASE UI = "sdl"
  <2>1. events' = events \o <<d>> /\ typed' = Struck(typed, k, "down")
      BY <1>1, <1>4 DEF Produce
  <2> HIDE DEF d
  <2>2. events' \in Seq(KeyEvents(host))
      BY <1>2, <1>3, <2>1
  <2>3. /\ Adds(host, typed, typed', d) /\ Extends(typed', typed)
        /\ phase # "done" => Fits(host, events', typed', kb_rd, scanned, Len(seen), phase)
      BY <1>2, <1>3, <2>1, TypedNow, OneStroke
  <2>4. HeldInv(host, typed', held')
      BY <1>2, <1>3, <2>3 DEF HeldInv, KeyboardInv, Adds, EventCells
  <2>5. Sensible(typed') /\ Len(typed') - Len(typed) \in 0..2
      BY <2>3, TypedNow DEF Adds
  <2> QED
      BY <1>3, <2>2, <2>3, <2>4, <2>5, HostProduces DEF HostRepeat
<1>5. CASE UI # "sdl"
  <2> DEFINE s == Struck(typed, k, "up")
             es == events \o <<u>>
  <2>1. events' = events \o <<u, d>> /\ typed' = Struck(s, k, "down")
      BY <1>1, <1>5 DEF Produce
  <2> HIDE DEF u, d
  <2>2. es \in Seq(KeyEvents(host)) /\ events' = es \o <<d>> /\ events' \in Seq(KeyEvents(host))
      BY <1>2, <1>3, <2>1, TwoMore
  <2>3. /\ Adds(host, typed, s, u) /\ Extends(s, typed)
        /\ phase # "done" => Fits(host, es, s, kb_rd, scanned, Len(seen), phase)
      BY <1>2, <1>3, TypedNow, OneStroke
  <2>4. Sensible(s) /\ Len(s) \in {Len(typed), Len(typed) + 1}
      BY <2>3 DEF Adds
  <2> HIDE DEF s, es
  <2>5. /\ Adds(host, s, typed', d) /\ Extends(typed', typed)
        /\ phase # "done" => Fits(host, events', typed', kb_rd, scanned, Len(seen), phase)
      BY <1>2, <2>1, <2>2, <2>3, <2>4, OneStroke
  <2>6. HeldInv(host, typed', held')
    <3> SUFFICES ASSUME NEW c \in Cells, StateAt(typed', Len(typed'), c) = "down"
                 PROVE  \E j \in held' : c \in MeantOn(host, j)
        BY DEF HeldInv
    <3>1. CASE c \in MeantOn(host, k)
        BY <1>3, <3>1
    <3>2. CASE c \notin MeantOn(host, k)
      <4>1. StateAt(typed, Len(typed), c) = "down"
          BY <1>2, <2>3, <2>5, <3>2 DEF Adds, EventCells
      <4> QED
          BY <1>3, <4>1 DEF HeldInv, KeyboardInv
    <3> QED
        BY <3>1, <3>2
  <2>7. Sensible(typed') /\ Len(typed') - Len(typed) \in 0..2
      BY <2>4, <2>5, TypedNow DEF Adds
  <2> QED
      BY <1>3, <2>2, <2>5, <2>6, <2>7, HostProduces DEF HostRepeat
<1> QED
    BY <1>4, <1>5

LEMMA QuitStep == KeyboardInv /\ HostQuit => TypedOn
<1> SUFFICES ASSUME KeyboardInv, HostQuit PROVE TypedOn
    OBVIOUS
<1> DEFINE e == [type |-> "quit"]
<1>1. /\ events' = events \o <<e>> /\ typed' = typed /\ held' = held
      /\ UNCHANGED <<host, kb_rd, phase, scanned, seen>>
    BY DEF HostQuit, Produce
<1>2. e \in KeyEvents(host) /\ e.type = "quit"
    BY DEF KeyEvents
<1> HIDE DEF e
<1>3. events \in Seq(KeyEvents(host)) /\ events' \in Seq(KeyEvents(host))
    BY <1>1, <1>2 DEF KeyboardInv
<1>4. Plays(host, typed, Len(typed), e, Len(typed))
    BY <1>2 DEF Plays, EventCells
<1>5. Len(seen) \in 0..Len(typed)
    BY DEF KeyboardInv, Extends, Sensible
<1>6. phase # "done" => Fits(host, events', typed', kb_rd, scanned, Len(seen), phase)
    BY <1>1, <1>2, <1>3, <1>4, <1>5, TypedNow, FitsGrows
<1>7. Len(typed') - Len(typed) \in 0..2 /\ Sensible(typed') /\ Extends(typed', typed)
    BY <1>1, TypedNow
<1>8. held' \subseteq Hosts[host].keys /\ HeldInv(host, typed', held')
    BY <1>1 DEF KeyboardInv
<1> QED
    BY <1>1, <1>3, <1>6, <1>7, <1>8, HostProduces

-----------------------------------------------------------------------------
(* A scan of the eight rows finds the whole matrix.                        *)
LEMMA ScanIsMatrix ==
    ASSUME kb_rd \subseteq Cells
    PROVE  UNION {CatKeyb(0, 2^y) : y \in 0..7} = kb_rd
<1>1. ASSUME NEW c \in kb_rd
      PROVE  c \in UNION {CatKeyb(0, 2^y) : y \in 0..7}
  <2>1. c[1] \in 0..7
      BY DEF Cells
  <2>2. c \in CatKeyb(0, 2^(c[1]))
      BY DEF CatKeyb
  <2> QED
      BY <2>1, <2>2
<1>2. \A y \in 0..7 : CatKeyb(0, 2^y) \subseteq kb_rd
    BY DEF CatKeyb
<1> QED
    BY <1>1, <1>2

(* An order of no stroke or of one.                                        *)
LEMMA FunctionIsSeq ==
    ASSUME NEW T, NEW n \in Nat, NEW f \in [1..n -> T]
    PROVE  f \in Seq(T) /\ Len(f) = n /\ \A i \in 1..n : f[i] \in T
    OBVIOUS

LEMMA OrderOfFew ==
    ASSUME NEW S, NEW order \in [1..Cardinality(S) -> S], NEW s \in Seq(Strokes)
    PROVE  /\ S = {} => s \o order = s
           /\ \A x \in Strokes : S = {x} => s \o order = Append(s, x)
<1>1. CASE S = {}
  <2>1. Cardinality(S) = 0
      BY <1>1, FS_EmptySet
  <2>2. order \in [1..0 -> S]
      BY <2>1
  <2>3. order = <<>>
      BY <2>2
  <2> QED
      BY <1>1, <2>3
<1>2. ASSUME NEW x \in Strokes, S = {x}
      PROVE  s \o order = Append(s, x)
  <2>1. Cardinality(S) = 1
      BY <1>2, FS_Singleton
  <2>2. order \in Seq(S) /\ Len(order) = 1 /\ order[1] \in S
    <3>1. order \in [1..1 -> S] /\ 1 \in Nat /\ 1 \in 1..1
        BY <2>1
    <3> QED
        BY <3>1, FunctionIsSeq
  <2>3. <<x>> \in Seq(S) /\ Len(<<x>>) = 1 /\ <<x>>[1] = x
      BY <1>2
  <2>4. order = <<x>>
    <3>1. \A i \in 1..1 : i = 1
        OBVIOUS
    <3>2. \A i \in 1..Len(order) : order[i] = <<x>>[i]
        BY <1>2, <2>2, <2>3, <3>1
    <3>3. Len(order) = Len(<<x>>)
        BY <2>2, <2>3
    <3> QED
        BY <2>2, <2>3, <3>2, <3>3, SeqEqual
  <2> QED
      BY <2>4, AppendIsConcat
<1> QED
    BY <1>1, <1>2

(* What a stroke does to the cells that are down.                          *)
LEMMA OneStrokeApart ==
    ASSUME NEW s, Sensible(s), NEW q \in 0..(Len(s) - 1)
    PROVE  /\ s[q + 1] \in Strokes
           /\ ((DownAt(s, q + 1) \ DownAt(s, q)) \X {"down"})
                \cup ((DownAt(s, q) \ DownAt(s, q + 1)) \X {"up"}) = {s[q + 1]}
<1> DEFINE x == s[q + 1]
<1>1. /\ s \in Seq(Strokes) /\ q \in Nat /\ q + 1 \in 1..Len(s) /\ q \in 0..Len(s)
      /\ q + 1 \in 0..Len(s)
    BY DEF Sensible
<1>2. x \in Strokes
    BY <1>1
<1>3. x[1] \in Cells /\ x[2] \in {"down", "up"} /\ x = <<x[1], x[2]>>
    BY <1>2 DEF Strokes
<1>4. x[2] # StateAt(s, q, x[1]) /\ StateAt(s, q, x[1]) \in {"up", "down"}
    BY <1>1, <1>3 DEF Sensible
<1>5. \A c \in Cells : StateAt(s, q + 1, c) = IF x[1] = c THEN x[2] ELSE StateAt(s, q, c)
    BY <1>1, StateAtNext
<1> HIDE DEF x
<1>6. CASE x[2] = "down"
  <2>1. DownAt(s, q + 1) \ DownAt(s, q) = {x[1]} /\ DownAt(s, q) \ DownAt(s, q + 1) = {}
      BY <1>3, <1>4, <1>5, <1>6 DEF DownAt
  <2>2. {x[1]} \X {"down"} = {<<x[1], x[2]>>} /\ {} \X {"up"} = {}
      BY <1>6
  <2>3. ((DownAt(s, q + 1) \ DownAt(s, q)) \X {"down"})
          \cup ((DownAt(s, q) \ DownAt(s, q + 1)) \X {"up"}) = {x}
      BY <1>3, <2>1, <2>2
  <2> QED
      BY <1>2, <2>3 DEF x
<1>7. CASE x[2] = "up"
  <2>1. DownAt(s, q + 1) \ DownAt(s, q) = {} /\ DownAt(s, q) \ DownAt(s, q + 1) = {x[1]}
      BY <1>3, <1>4, <1>5, <1>7 DEF DownAt
  <2>2. {x[1]} \X {"up"} = {<<x[1], x[2]>>} /\ {} \X {"down"} = {}
      BY <1>7
  <2>3. ((DownAt(s, q + 1) \ DownAt(s, q)) \X {"down"})
          \cup ((DownAt(s, q) \ DownAt(s, q + 1)) \X {"up"}) = {x}
      BY <1>3, <2>1, <2>2
  <2> QED
      BY <1>2, <2>3 DEF x
<1> QED
    BY <1>3, <1>6, <1>7

(* One scan finds the one stroke that the event since the last scan has    *)
(* made, or none.                                                          *)
SeenOn ==
    /\ KeyboardInv'
    /\ typed' = typed
    /\ \/ seen' = seen
       \/ Len(seen) < Len(typed) /\ seen' = Append(seen, typed[Len(seen) + 1])

LEMMA ScanStep == KeyboardInv /\ Scan => SeenOn
<1> SUFFICES ASSUME KeyboardInv, Scan PROVE SeenOn
    OBVIOUS
<1> DEFINE n == Len(seen)
<1>1. /\ phase = "slice" /\ phase' = "poll" /\ typed' = typed
      /\ UNCHANGED <<host, held, events, kb_rd>>
    BY DEF Scan
<1>2. /\ Sensible(typed) /\ typed \in Seq(Strokes) /\ seen \in Seq(Strokes)
      /\ Extends(typed, seen) /\ n \in Nat /\ Len(typed) \in Nat /\ n <= Len(typed)
    BY DEF KeyboardInv, Sensible, Extends
<1>3. PICK p : /\ Chain(host, events, typed, p)
               /\ kb_rd = DownAt(typed, p[0]) /\ scanned = DownAt(typed, n)
               /\ n = p[0] \/ n + 1 = p[0]
    BY <1>1 DEF KeyboardInv, Fits
<1>4. p[0] \in 0..Len(typed)
    BY <1>3 DEF Chain
<1>5. scanned' = kb_rd
  <2>1. kb_rd \subseteq Cells
      BY <1>3 DEF DownAt
  <2> QED
      BY <2>1, ScanIsMatrix DEF Scan
<1> DEFINE strokes == ((kb_rd \ scanned) \X {"down"}) \cup ((scanned \ kb_rd) \X {"up"})
<1>6. PICK order \in [1..Cardinality(strokes) -> strokes] : seen' = seen \o order
    BY <1>5 DEF Scan
<1> HIDE DEF n
<1>7. CASE n = p[0]
  <2>1. strokes = {}
      BY <1>3, <1>7
  <2> HIDE DEF strokes
  <2>2. seen' = seen
      BY <1>2, <1>6, <2>1, OrderOfFew
  <2>3. Fits(host, events, typed, kb_rd, kb_rd, n, "poll")
      BY <1>3, <1>7 DEF Fits
  <2>4. KeyboardInv'
      BY <1>1, <1>5, <2>2, <2>3 DEF KeyboardInv, n
  <2> QED
      BY <1>1, <2>2, <2>4 DEF SeenOn
<1>8. CASE n + 1 = p[0]
  <2> DEFINE x == typed[n + 1]
  <2>1. n \in 0..(Len(typed) - 1)
      BY <1>2, <1>4, <1>8
  <2>2. x \in Strokes /\ strokes = {x}
      BY <1>2, <1>3, <1>8, <2>1, OneStrokeApart
  <2> HIDE DEF strokes
  <2>3. seen' = Append(seen, x)
      BY <1>2, <1>6, <2>2, OrderOfFew
  <2>4. /\ seen' \in Seq(Strokes) /\ Len(seen') = n + 1 /\ seen'[n + 1] = x
        /\ \A i \in 1..n : seen'[i] = seen[i]
      BY <1>2, <2>2, <2>3 DEF n
  <2>5. Extends(typed, seen')
    <3>1. \A i \in 1..(n + 1) : typed[i] = seen'[i]
        BY <1>2, <2>4 DEF Extends, n
    <3> QED
        BY <1>2, <2>1, <2>4, <3>1 DEF Extends
  <2>6. Fits(host, events, typed, kb_rd, kb_rd, n + 1, "poll")
      BY <1>3, <1>8 DEF Fits
  <2>7. KeyboardInv'
      BY <1>1, <1>5, <2>4, <2>5, <2>6 DEF KeyboardInv
  <2>8. n < Len(typed)
      BY <1>2, <2>1
  <2> QED
      BY <1>1, <2>3, <2>7, <2>8 DEF SeenOn, n
<1> QED
    BY <1>3, <1>7, <1>8

(* A handler of keys changes the cells that the key is meant for.          *)
LEMMA HandledAsMeant ==
    ASSUME CertainHosts, host \in DOMAIN Hosts, NEW e, e.type \in {"down", "up"},
           e.key \in Hosts[host].keys, HandleKey(e, e.type)
    PROVE  kb_rd' = Changed(EventCells(host, e), e.type)
<1>1. PICK sym \in Symbols(e) :
         kb_rd' = Changed(IF remap /\ sym \in Letters THEN SymCells(sym)
                                                      ELSE CellsOf(Matrix, e.key.code), e.type)
    BY DEF HandleKey
<1>2. EventCells(host, e) = MeantCells(e.key)
    BY MeantIsMeantOn DEF EventCells
<1>3. CASE ~remap
    BY <1>1, <1>2, <1>3 DEF MeantCells
<1>4. CASE UI = "sdl"
  <2>1. NoText \notin Letters
      BY KeyAssumption
  <2>2. UI # "xlib"
      BY <1>4
  <2>3. Symbols(e) = IF e.key.char # NoText THEN {e.key.char} ELSE {NoText}
      BY <1>4, <2>2 DEF Symbols
  <2> QED
      BY <1>1, <1>2, <2>1, <2>2, <2>3 DEF MeantCells
<1> QED
    BY <1>3, <1>4 DEF CertainHosts, UI, remap

LEMMA PollStep == CertainHosts /\ KeyboardInv /\ PollEvent => SeenOn
<1> SUFFICES ASSUME CertainHosts, KeyboardInv, PollEvent PROVE SeenOn
    OBVIOUS
<1>1. /\ phase = "poll" /\ typed' = typed /\ seen' = seen
      /\ UNCHANGED <<host, held, scanned>>
    BY DEF PollEvent
<1>2. /\ Sensible(typed) /\ typed \in Seq(Strokes) /\ events \in Seq(KeyEvents(host))
      /\ host \in DOMAIN Hosts
    BY DEF KeyboardInv, Sensible
<1>3. PICK p : /\ Chain(host, events, typed, p)
               /\ kb_rd = DownAt(typed, p[0]) /\ scanned = DownAt(typed, Len(seen))
               /\ Len(seen) = p[0]
    BY <1>1 DEF KeyboardInv, Fits
<1>4. SUFFICES /\ events' \in Seq(KeyEvents(host)) /\ phase' \in {"slice", "done"}
               /\ phase' # "done" =>
                     Fits(host, events', typed, kb_rd', scanned, Len(seen), phase')
    BY <1>1, <1>4 DEF SeenOn, KeyboardInv
<1>5. CASE events = <<>>
  <2>1. events' = events /\ kb_rd' = kb_rd /\ phase' = "slice"
      BY <1>5 DEF PollEvent
  <2> QED
      BY <1>2, <1>3, <2>1 DEF Fits
<1>6. CASE events # <<>>
  <2> DEFINE e == Head(events)
  <2>1. events' = Tail(events)
      BY <1>6 DEF PollEvent
  <2>2. events' \in Seq(KeyEvents(host)) /\ e \in KeyEvents(host)
      BY <1>2, <1>6, <2>1
  <2>3. CASE e.type = "quit"
    <3>1. phase' = "done"
        BY <1>6, <2>3 DEF PollEvent
    <3> QED
        BY <2>2, <3>1
  <2>4. CASE e.type # "quit"
    <3>1. HandleKey(e, e.type) /\ phase' = "slice"
        BY <1>6, <2>4 DEF PollEvent, AfterEvent
    <3>2. e.type \in {"down", "up"} /\ e.key \in Hosts[host].keys
        BY <2>2, <2>4 DEF KeyEvents
    <3>3. /\ Plays(host, typed, p[0], e, p[1])
          /\ p[0] \in 0..Len(typed) /\ p[1] \in 0..Len(typed)
          /\ \E q : Chain(host, Tail(events), typed, q) /\ q[0] = p[1]
        BY <1>2, <1>3, <1>6, ChainTail
    <3>4. PICK q : Chain(host, Tail(events), typed, q) /\ q[0] = p[1]
        BY <3>3
    <3> HIDE DEF e
    <3>5. kb_rd' = Changed(EventCells(host, e), e.type)
        BY <1>2, <3>1, <3>2, HandledAsMeant
    <3>6. /\ EventCells(host, e) \subseteq Cells
          /\ \A c, d \in EventCells(host, e) : c = d
        BY OneCell DEF EventCells
    <3>7. kb_rd' = DownAt(typed, p[1]) /\ p[1] \in {p[0], p[0] + 1}
      <4>1. ASSUME p[1] = p[0], \A c \in EventCells(host, e) : StateAt(typed, p[0], c) = e.type
            PROVE  kb_rd' = DownAt(typed, p[1])
          BY <1>3, <3>2, <3>5, <3>6, <4>1 DEF DownAt, Changed
      <4>2. ASSUME p[1] = p[0] + 1, NEW c \in EventCells(host, e), typed[p[1]] = <<c, e.type>>
            PROVE  kb_rd' = DownAt(typed, p[1])
        <5>1. EventCells(host, e) = {c} /\ c \in Cells /\ p[0] \in Nat
            BY <3>3, <3>6
        <5>2. \A d \in Cells : StateAt(typed, p[0] + 1, d) =
                 IF typed[p[0] + 1][1] = d THEN typed[p[0] + 1][2] ELSE StateAt(typed, p[0], d)
            BY <5>1, StateAtNext
        <5>3. typed[p[0] + 1][1] = c /\ typed[p[0] + 1][2] = e.type
            BY <4>2
        <5> QED
            BY <1>3, <3>2, <3>5, <4>2, <5>1, <5>2, <5>3 DEF DownAt, Changed
      <4> QED
          BY <3>3, <4>1, <4>2 DEF Plays
    <3>8. Fits(host, events', typed, kb_rd', scanned, Len(seen), "slice")
        BY <1>3, <2>1, <3>4, <3>7 DEF Fits
    <3> QED
        BY <2>2, <3>1, <3>8
  <2> QED
      BY <2>3, <2>4
<1> QED
    BY <1>5, <1>6

LEMMA KeyboardStep == CertainHosts /\ KeyboardInv /\ [Next]_vars => KeyboardInv'
<1> SUFFICES ASSUME CertainHosts, KeyboardInv, [Next]_vars PROVE KeyboardInv'
    OBVIOUS
<1>1. CASE HostPress
    BY <1>1, PressStep DEF TypedOn
<1>2. CASE HostRelease
    BY <1>2, ReleaseStep DEF TypedOn
<1>3. CASE HostRepeat
    BY <1>3, RepeatStep DEF TypedOn
<1>4. CASE HostQuit
    BY <1>4, QuitStep DEF TypedOn
<1>5. CASE Scan
    BY <1>5, ScanStep DEF SeenOn
<1>6. CASE PollEvent
    BY <1>6, PollStep DEF SeenOn
<1>7. CASE UNCHANGED vars
    BY <1>7 DEF KeyboardInv, vars
<1> QED
    BY <1>1, <1>2, <1>3, <1>4, <1>5, <1>6, <1>7 DEF Next, Host, Done

(* The cells that are down after the strokes seen and the strokes that the *)
(* queued events stand for are all the strokes typed, and every cell that  *)
(* these leave down has a key on the host that is held.                    *)
THEOREM KeyboardInvariant == ASSUME CertainHosts PROVE Spec => []KeyboardInv
<1>1. Init => KeyboardInv
    BY KeyboardInit
<1>2. KeyboardInv /\ [Next]_vars => KeyboardInv'
    BY KeyboardStep
<1> QED
    BY <1>1, <1>2, PTL DEF Spec

-----------------------------------------------------------------------------
(* No key of the cat is stuck: once the keys of the host are up and their  *)
(* events handled, the matrix that cat_keyb reads is clear, however the    *)
(* keys shared its cells or repeated (kyacopycat.c 166-189, 590-604).      *)
THEOREM NoKeyStaysDown == ASSUME CertainHosts PROVE Spec => []NoStuckKey
<1>1. KeyboardInv => NoStuckKey
  <2> SUFFICES ASSUME KeyboardInv, held = {}, events = <<>>, phase # "done"
               PROVE  kb_rd = {}
      BY DEF NoStuckKey
  <2>1. PICK p : Chain(host, events, typed, p) /\ kb_rd = DownAt(typed, p[0])
      BY DEF KeyboardInv, Fits
  <2>2. p[0] = Len(typed)
      BY <2>1 DEF Chain
  <2>3. HeldInv(host, typed, {})
      BY DEF KeyboardInv
  <2>4. DownAt(typed, Len(typed)) = {}
      BY <2>3 DEF HeldInv, DownAt
  <2> QED
      BY <2>1, <2>2, <2>4
<1> QED
    BY <1>1, KeyboardInvariant, PTL

(* A host that types is an abstract step Type, or none;                    *)
LEMMA TypedIsTyped ==
    ASSUME KeyboardInv, TypedOn
    PROVE  [Promise!Next]_(Promise!vars)
<1>1. /\ typed \in Seq(Strokes) /\ typed' \in Seq(Strokes)
      /\ Len(typed) \in Nat /\ Len(typed') \in Nat
    BY DEF TypedOn, KeyboardInv, Sensible
<1>2. /\ Len(typed) <= Len(typed') /\ \A i \in 1..Len(typed) : typed'[i] = typed[i]
      /\ Len(typed') - Len(typed) \in 0..2 /\ seen' = seen
    BY DEF TypedOn, Extends
<1>3. CASE Len(typed') = Len(typed)
  <2>1. typed' = typed
      BY <1>1, <1>2, <1>3, SeqEqual
  <2> QED
      BY <1>2, <2>1 DEF Promise!vars
<1>4. CASE Len(typed') # Len(typed)
  <2>1. Len(typed') - Len(typed) \in 1..2
      BY <1>1, <1>2, <1>4
  <2> DEFINE u == SubSeq(typed', 1, Len(typed))
  <2>2. u \in Seq(Strokes) /\ Len(u) = Len(typed) /\ \A i \in 1..Len(typed) : u[i] = typed'[i]
      BY <1>1, <1>2
  <2> HIDE DEF u
  <2>3. u = typed
      BY <1>1, <1>2, <2>2, SeqEqual
  <2> QED
      BY <1>1, <1>2, <2>1, <2>3 DEF u, Promise!Next, Promise!Type
<1> QED
    BY <1>3, <1>4

(* a scan, or an event that is handled, is a step See, or none.            *)
LEMMA SeenIsSeen ==
    ASSUME SeenOn
    PROVE  [Promise!Next]_(Promise!vars)
    BY DEF SeenOn, Promise!Next, Promise!See, Promise!vars

(* The cat sees the strokes that were typed, each once and in their order: *)
(* the loop that handles one event between two scans implements Keystrokes *)
(* (kyacopycat.c 590-604, 636-661).                                        *)
THEOREM KeyboardRefines == ASSUME CertainHosts PROVE Spec => ImplementsKeystrokes
<1>1. Init => Promise!Init
    BY DEF Init, Promise!Init
<1>2. KeyboardInv /\ [Next]_vars => [Promise!Next]_(Promise!vars)
  <2> SUFFICES ASSUME KeyboardInv, [Next]_vars PROVE [Promise!Next]_(Promise!vars)
      OBVIOUS
  <2>1. CASE HostPress
      BY <2>1, PressStep, TypedIsTyped
  <2>2. CASE HostRelease
      BY <2>2, ReleaseStep, TypedIsTyped
  <2>3. CASE HostRepeat
      BY <2>3, RepeatStep, TypedIsTyped
  <2>4. CASE HostQuit
      BY <2>4, QuitStep, TypedIsTyped
  <2>5. CASE Scan
      BY <2>5, ScanStep, SeenIsSeen
  <2>6. CASE PollEvent
      BY <2>6, PollStep, SeenIsSeen
  <2>7. CASE UNCHANGED vars
      BY <2>7 DEF vars, Promise!vars
  <2> QED
      BY <2>1, <2>2, <2>3, <2>4, <2>5, <2>6, <2>7 DEF Next, Host, Done
<1> QED
    BY <1>1, <1>2, KeyboardInvariant, PTL DEF Spec, ImplementsKeystrokes, Promise!Spec
=============================================================================
