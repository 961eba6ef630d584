------------------------------- MODULE Video -------------------------------
(***************************************************************************)
(* The display (kyacopycat.c 567-588 for SDL, 607-632 for Xlib).  The cat  *)
(* writes to main_ram and to opr during a slice; the main loop looks at    *)
(* v_blank and vram_touched when the slice ends.  The screen is what the   *)
(* window shows: a picture, or nothing, at first and after it was cleared. *)
(* The two interfaces have the same conditions, but with SDL a clear stays *)
(* in the renderer and never gets to the window.                           *)
(***************************************************************************)
EXTENDS Bus

Bytes == 0..255

CONSTANTS Interfaces, \* SDL_UI and XLIB_UI: the builds to look at
          Addresses,  \* bound: where the program writes in main_ram
          Values,     \* bound: the bytes that it writes
          Longs,      \* bound: the longs that it writes
          OprValues,  \* bound: the values of opr that it uses
          Images      \* bound: the contents of main_ram at the start

ASSUME VideoAssumption ==
    /\ Interfaces \subseteq {"sdl", "xlib"}
    /\ Addresses \subseteq Nat /\ Values \subseteq Bytes /\ OprValues \subseteq Bytes
    /\ Longs \subseteq [1..4 -> Bytes]
    /\ Images \subseteq [RamCells -> Bytes]

VARIABLES ui,      \* the user interface of this build
          m,       \* the machine
          screen,  \* a framebuffer, or Cleared
          ended,   \* a slice has just ended
          changed, \* history: a byte on display changed since it was shown
          lit      \* history: the bytes changed since opr first set colours

vars == <<ui, m, screen, ended, changed, lit>>

Cleared == <<>>   \* a picture without a pixel

(* A warm boot starts with the ram of the last session.                    *)
Init ==
    /\ ui \in Interfaces
    /\ \E image \in Images :
          LET loaded == [NewMachine EXCEPT !.ram = image]
          IN m = IF FASTER_VIDEO THEN [UpdateFramebuffer(loaded) EXCEPT !.vram_touched = TRUE]
                                 ELSE loaded
    /\ screen = Cleared
    /\ ended = FALSE
    /\ changed = FALSE
    /\ lit = {}

CpuWrites(next) ==
    LET differs == {i \in Pixels : m.ram[i] # next.ram[i]}
    IN /\ m' = next
       /\ changed' = (changed \/ differs # {})
       /\ lit' = IF m.polarity = "dark" THEN lit ELSE lit \cup differs
       /\ ended' = FALSE
       /\ UNCHANGED <<ui, screen>>

WriteByte == \E a \in Addresses, v \in Values : CpuWrites(Write8(m, a, v))

WriteLong == \E a \in Addresses, v \in Longs : CpuWrites(Write32(m, a, v))

SetOpr == \E v \in OprValues : CpuWrites(Write8(m, 8650753, v))

(* The picture is sent to the window.                                      *)
Refresh ==
    LET drawn == IF FASTER_VIDEO THEN m ELSE UpdateFramebuffer(m)
    IN /\ m.v_blank = 0 /\ m.vram_touched
       /\ screen' = drawn.framebuffer
       /\ m' = [drawn EXCEPT !.vram_touched = FALSE]
       /\ changed' = FALSE

(* XClearWindow empties the window.  SDL_RenderClear empties what the      *)
(* renderer draws on, which no SDL_RenderPresent brings to the window and  *)
(* the next picture covers: the window keeps what it had.                  *)
AfterClearPresented == Cleared

AfterClear == IF ui = "xlib" THEN Cleared ELSE screen

BlankCounting ==
    /\ m.v_blank \in 1..3
    /\ screen' = AfterClear
    /\ m' = [m EXCEPT !.v_blank = @ + 1]
    /\ UNCHANGED changed

(* The clear is done once.                                                 *)
Blank ==
    /\ m.v_blank = 1
    /\ screen' = AfterClear
    /\ m' = [m EXCEPT !.v_blank = @ + 1]
    /\ UNCHANGED changed

NothingToShow ==
    /\ m.v_blank = 2 \/ (m.v_blank = 0 /\ ~m.vram_touched)
    /\ UNCHANGED <<m, screen, changed>>

SliceEnd ==
    /\ ended' = TRUE
    /\ Refresh \/ Blank \/ NothingToShow
    /\ UNCHANGED <<ui, lit>>

Next == WriteByte \/ WriteLong \/ SetOpr \/ SliceEnd

Spec == Init /\ [][Next]_vars

-----------------------------------------------------------------------------
(* v_blank is a counter in a byte that must stop at 2: beyond it would     *)
(* come back to 0, which shows the display.                                *)
TypeOK ==
    /\ m.v_blank \in 0..2
    /\ m.polarity \in Polarities
    /\ {m.vram_touched, ended, changed} \subseteq BOOLEAN
    /\ DOMAIN screen \in {Pixels, {}} /\ lit \subseteq Pixels

(* When a slice has ended with the display on, a picture on the screen has *)
(* every byte that the cat has in the ram, and there is a picture if one   *)
(* of them changed since the last one, changes made while the display was  *)
(* off included.  (Of the colours this is not true: see the README.)       *)
ScreenShowsRam ==
    ended /\ m.v_blank = 0 =>
        IF screen = Cleared THEN ~changed
                            ELSE \A i \in Pixels : screen[i].byte = m.ram[i]

(* With Xlib the window is empty when a slice has ended while the display  *)
(* is off, however often opr is written and whatever the window showed     *)
(* before.  (With SDL this is not true: see AfterClear.)                   *)
BlankStaysDark == ui = "xlib" /\ ended /\ m.v_blank # 0 => screen = Cleared

(* With SDL, what the cat has changed since opr first set the colours is   *)
(* to be seen whenever a slice has ended with the display on, switched off *)
(* and on again or not: vram_touched outlives the time when it is off, and *)
(* the clear between is not shown.  (With Xlib this is not true: a window  *)
(* that was cleared stays empty until something is written.)               *)
WrittenIsVisible ==
    ui = "sdl" /\ ended /\ m.v_blank = 0 =>
        \A i \in lit : /\ screen # Cleared
                       /\ screen[i].byte = m.ram[i] /\ screen[i].polarity # "dark"
=============================================================================
