------------------------------- MODULE MCVideo -------------------------------
(* Small instances of Video: the first byte on display, the last one, and  *)
(* the one after it.                                                       *)
EXTENDS Video

MCRamCells == {0, 28895, 28896}

(* The first byte, the last one (0x4070df), a long that has this one and    *)
(* goes on beyond it, and the byte beyond.                                 *)
MCAddresses == {4194304, 4223197, 4223199, 4223200}

(* The last byte of a long at 4223197 is the first one beyond the display. *)
MCLongs == {<<a, a, a, b>> : a, b \in {0, 1}}

(* Off, on, inverted, and off with the inversion left on.                  *)
MCOprValues == {0, 4, 20, 16}

MCImages == [MCRamCells -> {0, 1}]
=============================================================================
