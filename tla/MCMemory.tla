------------------------------ MODULE MCMemory ------------------------------
(* Small instances of Memory: addresses at the edges of the regions.       *)
EXTENDS Memory

MCRamCells   == {RamIndex(a) : a \in RamAt}
MCSvramCells == {SvramIndex(a) : a \in {b \in Touched : InSvram(b)}}

(* Two longs across the ends of the main ram, with RAM_SIZE = 0x40000, and *)
(* the one at its start.                                                   *)
MCRamEdges == {4194302, 4194304, 4456445}

(* The start of the svram, its middle, and the end of it with the start of *)
(* its mirror 0x4000 above.                                                *)
MCSvram == {262144, 270336, 278525}

(* A word with the status register, a long with the transmit buffer and    *)
(* a register after it, and one with two registers.                        *)
MCDuart == {8454146, 8454150, 8454152}

MCAll == MCRamEdges \cup MCSvram \cup MCDuart
=============================================================================
