------------------------------- MODULE Duart -------------------------------
(***************************************************************************)
(* The MC68681 DUART as kyacopycat emulates it: four byte registers that   *)
(* the 68000 reads over the bus (kyacopycat.c, m68k_read_memory_8) and     *)
(* that the main loop fills between two CPU slices.  A register is the set *)
(* of the numbers of its bits that are 1, the receive buffer holds a byte. *)
(*                                                                         *)
(* The registers are read-to-clear: every bus read is a state change, and  *)
(* the module states what each of them leaves behind.                      *)
(*                                                                         *)
(* A definition that stands just before another and bears a longer form of *)
(* its name is a mutant of it: a mistake the code could have contained.    *)
(***************************************************************************)
EXTENDS Naturals

CONSTANTS Bytes,    \* what a serial byte can be
          NoByte,   \* the 0x00 that the receive buffer holds at power on
          TrgRange  \* trg is a uint16_t: 65536 in the code

ASSUME NoByteAssumption == NoByte \notin Bytes
ASSUME TrgRangeAssumption == TrgRange \in Nat \ {0} /\ TrgRange % 2 = 0

VARIABLES duart_ipcr, \* 0x810009, input port change register
          duart_isr,  \* 0x81000b, interrupt status register
          duart_sra,  \* 0x810003, status register of channel A
          duart_rba,  \* 0x810007, receive buffer of channel A
          trg         \* ticks of the 6.5ms timer, modulo TrgRange

duartVars == <<duart_ipcr, duart_isr, duart_sra, duart_rba, trg>>

Bits == 0..7

TxRDY      == 2   \* 0x04 of the status register
RxRDY      == 0   \* 0x01 of the status register
IsrRxRDY   == 1   \* 0x02 of the interrupt status register
IsrTimer   == 7   \* 0x80 of the interrupt status register

DuartTypeOK ==
    /\ duart_ipcr \subseteq Bits
    /\ duart_isr \subseteq Bits
    /\ duart_sra \subseteq Bits
    /\ duart_rba \in Bytes \cup {NoByte}
    /\ trg \in 0..(TrgRange - 1)

(* The transmitter and the counter are permanently ready: isr = 0x19.      *)
DuartInit ==
    /\ duart_ipcr = {}
    /\ duart_isr = {0, 3, 4}
    /\ duart_sra = {TxRDY}
    /\ duart_rba = NoByte
    /\ trg = 0

(* What a bus read of each register leaves in it.                          *)
ReadSraKeepsRxRDY == UNCHANGED duartVars

ReadSra ==
    /\ duart_sra' = duart_sra \cap {TxRDY}
    /\ UNCHANGED <<duart_ipcr, duart_isr, duart_rba, trg>>

ReadIpcr ==
    /\ duart_ipcr' = {}
    /\ UNCHANGED <<duart_isr, duart_sra, duart_rba, trg>>

IsrKeptWithoutRxRDY == {0, 3, 4, 5}

IsrKept == {0, 1, 3, 4, 5}   \* 0x3B

ReadIsr ==
    /\ duart_isr' = duart_isr \cap IsrKept
    /\ UNCHANGED <<duart_ipcr, duart_sra, duart_rba, trg>>

ReadRba == UNCHANGED duartVars

(* The 6.5ms timer interrupt condition raised after each slice: a timer    *)
(* bit, and an input port level that alternates from one tick to the next. *)
TickedIsr(isr) == isr \cup {IsrTimer}

TimerTick ==
    /\ trg' = (trg + 1) % TrgRange
    /\ duart_ipcr' = {6} \cup (IF trg' % 2 = 1 THEN {2} ELSE {})

(* A byte is put in the receive buffer, first the flag of the channel, then *)
(* the flag of the interrupt status register.                              *)
ReceiveByte(b) ==
    /\ duart_rba' = b
    /\ duart_sra' = duart_sra \cup {RxRDY}
    /\ duart_isr' = TickedIsr(duart_isr) \cup {IsrRxRDY}

ReceiveNothing ==
    /\ duart_isr' = TickedIsr(duart_isr)
    /\ UNCHANGED <<duart_sra, duart_rba>>
=============================================================================
