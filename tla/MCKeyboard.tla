----------------------------- MODULE MCKeyboard -----------------------------
(* Small keyboards for Keyboard: a French layout, where the keys at Q and  *)
(* A bear each other's letters, with a control key, by SDL's names and by  *)
(* X's numbers; and keys that share a cell of the matrix, not remapped.    *)
EXTENDS Keyboard

Key(code, char) == [code |-> code, char |-> char]

FrenchSdl ==
    [ui |-> "sdl", remap |-> TRUE, controls |-> {"RCTRL"},
     keys |-> {Key("Q", "A"), Key("A", "Q"), Key("RCTRL", NoText)}]

SharedXlib ==
    [ui |-> "xlib", remap |-> FALSE, controls |-> {37},
     keys |-> {Key(50, NoText), Key(62, NoText), Key(10, "symbol"), Key(87, "symbol")}]

SharedSdl ==
    [ui |-> "sdl", remap |-> FALSE, controls |-> {"RCTRL"},
     keys |-> {Key("LSHIFT", NoText), Key("RSHIFT", NoText), Key("6", "symbol")}]

FrenchXlib ==
    [ui |-> "xlib", remap |-> TRUE, controls |-> {37},
     keys |-> {Key(24, "A"), Key(38, "Q"), Key(37, NoText)}]

MCHosts       == <<FrenchSdl, SharedSdl, SharedXlib>>
MCFrenchHosts == <<FrenchXlib>>
=============================================================================
