------------------------------ MODULE Keyboard ------------------------------
(***************************************************************************)
(* The keyboard: keys go down and up on the host, the window system queues *)
(* events, the main loop takes one event per slice and changes the matrix  *)
(* kb_rd (kyacopycat.c 166-189, 590-604, 636-661), and the ROM scans the   *)
(* matrix in the slices.                                                   *)
(*                                                                         *)
(* A definition that stands just before another and bears a longer form of *)
(* its name is a mutant of it: a mistake the code could have contained.    *)
(***************************************************************************)
EXTENDS Keymaps, FiniteSets

CONSTANTS Hosts,      \* a sequence of hosts, of which the program runs on one
          NoText,     \* a key that types no text: Shift, Control, Home...
          MaxEvents   \* bound: events that the host produces

(* ui is how kyacopycat was built, remap is FALSE with option -r, keys has *)
(* keys of the host and controls the codes of its control keys.  char is   *)
(* what the layout of the host puts on a key: a letter, "symbol" for other *)
(* text, or NoText.                                                        *)
ASSUME KeyAssumption ==
    /\ NoText \notin Letters \cup {"symbol"}
    /\ \A h \in DOMAIN Hosts :
          /\ Hosts[h].ui \in {"sdl", "xlib"}
          /\ Hosts[h].remap \in BOOLEAN
          /\ \A k \in Hosts[h].keys : k.char \in Letters \cup {"symbol", NoText}
    /\ MaxEvents \in Nat

VARIABLES host,      \* which of Hosts; it never changes
          held,      \* the keys that are down on the host
          events,    \* the queue of the window system
          sent,      \* how many events the host has produced
          kb_rd,     \* the cells whose bit is 0: the keys that are down
          phase,     \* "slice", "poll", or "done" when run is 0
          scanned,   \* what the ROM found at its last scan
          typed,     \* history: strokes that the host's user means
          seen       \* history: strokes as the ROM found them

vars == <<host, held, events, sent, kb_rd, phase, scanned, typed, seen>>

UI       == Hosts[host].ui
remap    == Hosts[host].remap
Keys     == Hosts[host].keys
Controls == Hosts[host].controls

Matrix  == IF UI = "sdl" THEN SdlMatrix ELSE XlibMatrix
Strokes == Cells \X {"down", "up"}

Init ==
    /\ host \in DOMAIN Hosts
    /\ held = {} /\ events = <<>> /\ sent = 0
    /\ kb_rd = {} /\ scanned = {}
    /\ phase = "slice"
    /\ typed = <<>> /\ seen = <<>>

-----------------------------------------------------------------------------
(* The host.  A key is meant for the cell of its letter when the letters   *)
(* are remapped, and otherwise for the cell at its place.                  *)
MeantCells(key) ==
    IF remap /\ key.char \in Letters THEN SymCells(key.char) ELSE CellsOf(Matrix, key.code)

(* Strokes typed so far and one more, unless the cell is in that state     *)
(* already: when two keys are one key of the cat, the first of them to go  *)
(* down presses it and the first to go up releases it.                     *)
State(strokes, cell) ==
    LET at == {i \in DOMAIN strokes : strokes[i][1] = cell}
    IN IF at = {} THEN "up" ELSE strokes[CHOOSE i \in at : \A j \in at : j <= i][2]

Struck(strokes, key, state) ==
    IF \E c \in MeantCells(key) : State(strokes, c) # state
    THEN Append(strokes, <<CHOOSE c \in MeantCells(key) : TRUE, state>>)
    ELSE strokes

Event(state, key) ==
    [type |-> state, key |-> key, control |-> \E k \in held : k.code \in Controls]

Produce(es) ==
    /\ sent + Len(es) <= MaxEvents
    /\ sent' = sent + Len(es)
    /\ events' = events \o es

HostPress ==
    /\ \E k \in Keys \ held :
          /\ held' = held \cup {k}
          /\ Produce(<<Event("down", k)>>)
          /\ typed' = Struck(typed, k, "down")
    /\ UNCHANGED <<host, kb_rd, phase, scanned, seen>>

HostRelease ==
    /\ \E k \in held :
          /\ held' = held \ {k}
          /\ Produce(<<Event("up", k)>>)
          /\ typed' = Struck(typed, k, "up")
    /\ UNCHANGED <<host, kb_rd, phase, scanned, seen>>

(* A key that is kept down repeats: SDL says "down" again, X makes it go   *)
(* up and down.  Either presses the key of the cat again when another key  *)
(* has released it.                                                        *)
HostRepeat ==
    /\ \E k \in held :
          IF UI = "sdl"
          THEN Produce(<<Event("down", k)>>) /\ typed' = Struck(typed, k, "down")
          ELSE /\ Produce(<<Event("up", k), Event("down", k)>>)
               /\ typed' = Struck(Struck(typed, k, "up"), k, "down")
    /\ UNCHANGED <<host, held, kb_rd, phase, scanned, seen>>

HostQuit ==
    /\ Produce(<<[type |-> "quit"]>>)
    /\ UNCHANGED <<host, held, kb_rd, phase, scanned, typed, seen>>

-----------------------------------------------------------------------------
(* change_keyreg_state: a bit of the matrix is 1 when its key is up.       *)
ChangedDownOnly(cells, state) == kb_rd \cup cells

Changed(cells, state) == IF state = "up" THEN kb_rd \ cells ELSE kb_rd \cup cells

(* The letter that a handler finds in an event.  SDL gives the keysym of   *)
(* the layout.  XLookupString gives text, in which Control turns a letter  *)
(* into a control character, and leaves text[0] uninitialised for a key    *)
(* that has no text: whatever it holds.                                    *)
Symbols(e) ==
    CASE e.key.char = NoText -> IF UI = "sdl" THEN {NoText} ELSE Letters \cup {NoText}
      [] e.key.char # NoText /\ UI = "xlib" /\ e.control -> {NoText}
      [] OTHER -> {e.key.char}

HandleKey(e, state) ==
    \E sym \in Symbols(e) :
        kb_rd' = Changed(IF remap /\ sym \in Letters THEN SymCells(sym)
                                                     ELSE CellsOf(Matrix, e.key.code),
                         state)

(* SDL_QUIT falls through to the handler of the keys, which finds what the *)
(* event holds from elsewhere: some key, here one of Keys, or none.        *)
HandleQuit ==
    \/ UI = "sdl" /\ \E k \in Keys : kb_rd' = Changed(CellsOf(Matrix, k.code), "down")
    \/ UNCHANGED kb_rd

(* if, not while: one event, then the next slice.                          *)
AfterEventDraining == IF Len(events) > 1 THEN "poll" ELSE "slice"

AfterEvent == "slice"

PollEvent ==
    /\ phase = "poll"
    /\ IF events = <<>>
       THEN UNCHANGED <<kb_rd, events>> /\ phase' = "slice"
       ELSE LET e == Head(events)
            IN /\ events' = Tail(events)
               /\ IF e.type = "quit" THEN HandleQuit /\ phase' = "done"
                                     ELSE HandleKey(e, e.type) /\ phase' = AfterEvent
    /\ UNCHANGED <<host, held, sent, scanned, typed, seen>>

-----------------------------------------------------------------------------
(* cat_keyb: a read of 0x80000a gives the row that kb_wr selects, a power  *)
(* of two, unless the configuration switches are selected.                 *)
CatKeyb(pr_cont, kb_wr) ==
    {c \in kb_rd : pr_cont # 9 /\ kb_wr = 2^c[1]}

(* The ROM, external, scans all the rows in a slice: it writes pr_cont and *)
(* kb_wr and reads.  It finds strokes where the matrix has changed.        *)
Scan ==
    /\ phase = "slice"
    /\ scanned' = UNION {CatKeyb(0, 2^y) : y \in 0..7}
    /\ LET strokes == ((scanned' \ scanned) \X {"down"}) \cup ((scanned \ scanned') \X {"up"})
       IN \E order \in [1..Cardinality(strokes) -> strokes] :
             /\ \A s \in strokes : \E i \in DOMAIN order : order[i] = s
             /\ seen' = seen \o order
    /\ phase' = "poll"
    /\ UNCHANGED <<host, held, events, sent, kb_rd, typed>>

Done == phase = "done" /\ UNCHANGED vars

Host == HostPress \/ HostRelease \/ HostRepeat \/ HostQuit
Next == Host \/ Scan \/ PollEvent \/ Done

(* The main loop goes round until run is 0.                                *)
Spec == Init /\ [][Next]_vars /\ WF_vars(Scan) /\ WF_vars(PollEvent)

-----------------------------------------------------------------------------
(* No key is stuck: when all the keys of the host are up and the queue is  *)
(* empty, the matrix is clear, also of keys that share a cell.             *)
NoStuckKey == held = {} /\ events = <<>> /\ phase # "done" => kb_rd = {}

(* Every stroke on the host, however fast, is there for a scan to find.    *)
StrokesReachCat ==
    \A k \in 1..MaxEvents :
        (Len(typed) >= k) ~> (Len(seen) >= k \/ phase = "done")

(* The cat sees exactly the strokes that were meant, in order, also when   *)
(* keys share a cell, repeat or are remapped, and no stroke made up by the *)
(* end of the program.                                                     *)
Promise == INSTANCE Keystrokes

ImplementsKeystrokes == Promise!Spec

(* README.txt 8: "an optional layout remapping for the alphabetic keys":   *)
(* the key of a letter on the host works the key of that letter.           *)
LettersByLayout ==
    [][phase = "poll" /\ phase' = "slice" /\ events # <<>> =>
        LET e == Head(events)
        IN remap /\ e.type = "down" /\ e.key.char \in Letters =>
               SymCells(e.key.char) \subseteq kb_rd']_vars
=============================================================================
