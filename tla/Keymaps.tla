------------------------------ MODULE Keymaps ------------------------------
(***************************************************************************)
(* The keyboard matrix of the Canon Cat and what each user interface of    *)
(* kyacopycat puts on it (sdlkeymess.h, xkeymess.h).  A matrix is written  *)
(* as it is wired: element y+1 is the row kb_rd[y], element x+1 of it the  *)
(* set of the host keys that change bit x.  SDL names a key by where it is *)
(* on an American keyboard, X by a number.                                 *)
(***************************************************************************)
EXTENDS Naturals, Sequences

Cells == (0..7) \X (0..7)

Letters == {"A", "B", "C", "D", "E", "F", "G", "H", "I", "J", "K", "L", "M",
            "N", "O", "P", "Q", "R", "S", "T", "U", "V", "W", "X", "Y", "Z"}

SdlMatrix == <<
  << {"N"}, {"M"}, {"K"}, {"J"}, {"Y"}, {"T"}, {"6", "KP_6"}, {"5", "KP_5"} >>,
  << {"B"}, {"COMMA"}, {"L"}, {"H"}, {"U"}, {"R"}, {"7", "KP_7"}, {"4", "KP_4"} >>,
  << {"V"}, {"PERIOD", "KP_PERIOD"}, {"APOSTROPHE"}, {"G"}, {"I"}, {}, {"8", "KP_8"}, {"3", "KP_3"} >>,
  << {"C"}, {"LALT"}, {"BACKSLASH"}, {"F"}, {"O"}, {"E"}, {"9", "KP_9"}, {} >>,
  << {"X"}, {"RALT"}, {}, {"D"}, {"P"}, {"W"}, {"0", "KP_0"}, {"2", "KP_2"} >>,
  << {"Z"}, {"SPACE"}, {"RETURN"}, {"S"}, {"LEFTBRACKET", "PAGEUP"}, {"Q"}, {"MINUS", "KP_MINUS"}, {"1", "KP_1"} >>,
  << {}, {"LCTRL"}, {"SLASH", "KP_DIVIDE"}, {"A"}, {"RIGHTBRACKET"}, {"TAB"}, {"EQUALS"}, {} >>,
  << {"LSHIFT", "RSHIFT"}, {"RCTRL"}, {"END", "RGUI"}, {"CAPSLOCK"}, {"BACKSPACE"}, {}, {"HOME"}, {"GRAVE"} >> >>

XK_Tab == 65289   \* a keysym, where every other number is a keycode

XlibMatrix == <<
  << {57}, {58}, {45}, {44}, {29}, {28}, {15, 85}, {14, 84} >>,
  << {56}, {59}, {46}, {43}, {30}, {27}, {16, 79}, {13, 83} >>,
  << {55}, {60, 91}, {48}, {42}, {31}, {}, {17, 80}, {12, 89} >>,
  << {54}, {64}, {51}, {41}, {32}, {26}, {18, 81}, {} >>,
  << {53}, {108, 113}, {}, {40}, {33}, {25}, {19, 90}, {11, 88} >>,
  << {52}, {65}, {36}, {39}, {34, 99}, {24}, {20, 82}, {10, 87} >>,
  << {}, {37}, {61, 112}, {38}, {35}, {XK_Tab}, {21}, {} >>,
  << {50, 62}, {105}, {115}, {66}, {22}, {}, {110}, {49} >> >>

(* No host key is at two places of a matrix.                               *)
Apart(matrix) ==
    \A c, d \in Cells :
        c # d => matrix[c[1] + 1][c[2] + 1] \cap matrix[d[1] + 1][d[2] + 1] = {}

ASSUME OnePlace == Apart(SdlMatrix) /\ Apart(XlibMatrix)

(* The cells that a host key changes: one, or none if it is not handled.   *)
CellsOf(matrix, code) == {c \in Cells : code \in matrix[c[1] + 1][c[2] + 1]}

(* handle_sdl_sym and handle_xlib_char: a letter by the layout of the host *)
(* changes the cell of the letter, wherever its key is.                    *)
SymCells(letter) == CellsOf(SdlMatrix, letter)
=============================================================================
