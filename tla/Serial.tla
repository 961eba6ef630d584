------------------------------- MODULE Serial -------------------------------
(***************************************************************************)
(* The receive path of the serial port: a host program writes bytes to the *)
(* file named by -i, the main loop moves at most one of them per slice to  *)
(* the DUART (kyacopycat.c 664-682), and the driver in the ROM takes it    *)
(* from there with three bus reads.                                        *)
(*                                                                         *)
(* The main loop and the 68000 share one thread: m68k_execute returns when *)
(* its cycles run out, after any instruction.  The end of a slice is thus  *)
(* the only point at which the main loop runs, and it can fall between any *)
(* two reads of the driver.                                                *)
(***************************************************************************)
EXTENDS Duart, Sequences

CONSTANTS Input,         \* the bytes the host writes
          LF, CR,        \* '\n' and '\r'
          translate,     \* option -t
          Stream,        \* "file" (regular file) or "pipe" (FIFO, terminal)
          SplitDriver,   \* a slice may end between status and data read
          StatusPolled   \* other ROM code reads the status register too

ASSUME InputAssumption ==
    /\ Input \in Seq(Bytes)
    /\ {LF, CR} \subseteq Bytes
    /\ translate \in BOOLEAN
    /\ Stream \in {"file", "pipe"}
    /\ SplitDriver \in BOOLEAN
    /\ StatusPolled \in BOOLEAN

VARIABLES written,     \* bytes of Input the host has written so far
          taken,       \* bytes read(2) has taken off the file
          fetched,     \* bytes fgetc has handed out
          serial_fr,   \* "open", or "closed" (NULL) after the end of file
          driver,      \* the next bus read of the ROM's receive driver
          received     \* the bytes the driver has got

hostVars   == <<written, taken, fetched, serial_fr>>
driverVars == <<driver, received>>
vars       == <<duartVars, hostVars, driverVars>>

(* -t: the LF of the serial input becomes a CR.                            *)
Translated(c) == IF translate /\ c = LF THEN CR ELSE c

TypeOK ==
    /\ DuartTypeOK
    /\ written \in 0..Len(Input)
    /\ taken \in 0..written
    /\ fetched \in 0..taken
    /\ serial_fr \in {"open", "closed"}
    /\ driver \in {"isr", "sra", "rba"}
    /\ received \in Seq(Bytes \cup {NoByte})

Init ==
    /\ DuartInit
    /\ written \in 0..Len(Input)
    /\ taken = 0
    /\ fetched = 0
    /\ serial_fr = "open"
    /\ driver = "isr"
    /\ received = <<>>

-----------------------------------------------------------------------------
(* The host program.                                                       *)
HostWrite ==
    /\ written < Len(Input)
    /\ written' = written + 1
    /\ UNCHANGED <<duartVars, taken, fetched, serial_fr, driverVars>>

(* poll(2): a regular file is always ready, a FIFO when it holds bytes.    *)
PollIn == Stream = "file" \/ taken < written

(* How many bytes a fgetc on an empty stdio buffer takes off the file:     *)
(* setvbuf(_IONBF) makes it one.                                           *)
FillSizeBuffered == written - taken

FillSize == 1

(* fgetc hands out the next byte, after filling the stdio buffer if that   *)
(* is empty, or reports the end of the file.                               *)
FgetcByte ==
    /\ fetched < taken \/ taken < written
    /\ taken' = IF fetched < taken THEN taken ELSE taken + FillSize
    /\ fetched' = fetched + 1
    /\ UNCHANGED serial_fr
    /\ ReceiveByte(Translated(Input[fetched + 1]))

FgetcEof ==
    /\ fetched = taken /\ taken = written
    /\ serial_fr' = "closed"
    /\ UNCHANGED <<taken, fetched>>
    /\ ReceiveNothing

(* The byte is fetched only once the status register says that the last    *)
(* one was seen.                                                           *)
WantsByteAlways == serial_fr = "open"

WantsByte == serial_fr = "open" /\ RxRDY \notin duart_sra

SerialPoll ==
    \/ /\ WantsByte /\ PollIn
       /\ FgetcByte \/ FgetcEof
    \/ /\ ~(WantsByte /\ PollIn)
       /\ UNCHANGED <<taken, fetched, serial_fr>>
       /\ ReceiveNothing

(* The end of a slice: timer tick, then the serial poll.                   *)
SliceEnd ==
    /\ SplitDriver \/ driver # "rba"
    /\ TimerTick
    /\ SerialPoll
    /\ UNCHANGED <<written, driverVars>>

-----------------------------------------------------------------------------
(* The ROM, external: the comment at kyacopycat.c 82-86 describes what its *)
(* receive driver reads: the interrupt status register, then the status    *)
(* register, then the data.                                                *)
DriverReadsIsr ==
    /\ driver = "isr"
    /\ ReadIsr
    /\ driver' = IF IsrRxRDY \in duart_isr THEN "sra" ELSE "isr"
    /\ UNCHANGED <<hostVars, received>>

DriverReadsSra ==
    /\ driver = "sra"
    /\ ReadSra
    /\ driver' = IF RxRDY \in duart_sra THEN "rba" ELSE "isr"
    /\ UNCHANGED <<hostVars, received>>

DriverReadsRba ==
    /\ driver = "rba"
    /\ ReadRba
    /\ driver' = "isr"
    /\ received' = Append(received, duart_rba)
    /\ UNCHANGED hostVars

(* The timer interrupt handler, which looks at the two other registers.    *)
HandlerReadsIsr  == ReadIsr  /\ UNCHANGED <<hostVars, driverVars>>
HandlerReadsIpcr == ReadIpcr /\ UNCHANGED <<hostVars, driverVars>>

(* Code that looks at the status register for another reason (TxRDY).      *)
TransmitterReadsSra ==
    /\ StatusPolled
    /\ ReadSra
    /\ UNCHANGED <<hostVars, driverVars>>

DriverStep == DriverReadsIsr \/ DriverReadsSra \/ DriverReadsRba

Next ==
    \/ HostWrite
    \/ SliceEnd
    \/ DriverStep
    \/ HandlerReadsIsr
    \/ HandlerReadsIpcr
    \/ TransmitterReadsSra

(* The main loop goes round as long as run is set, and the CPU executes    *)
(* the driver in its slices: both are scheduled forever.                   *)
Fairness == WF_vars(SliceEnd) /\ WF_vars(DriverStep)

Spec == Init /\ [][Next]_vars /\ Fairness

-----------------------------------------------------------------------------
(* A byte that waits in the receive buffer is announced in the interrupt   *)
(* status register: no read of that register by the timer handler may hide *)
(* it from the driver, which looks there first.                            *)
PendingByteAnnounced == RxRDY \in duart_sra => IsrRxRDY \in duart_isr

(* The driver has the first bytes the host wrote, translated, in order,    *)
(* none missing and none twice.                                            *)
ReceivedInOrder ==
    /\ Len(received) <= written
    /\ \A i \in 1..Len(received) : received[i] = Translated(Input[i])

(* Where the bytes are: each one fetched from the host is with the cat, or *)
(* it is the one that waits in the receive buffer, announced by the status *)
(* register or already promised to the driver by it, never both.           *)
InFlight == RxRDY \in duart_sra \/ driver = "rba"

Conservation ==
    /\ fetched = taken /\ taken <= written
    /\ fetched = Len(received) + (IF InFlight THEN 1 ELSE 0)
    /\ InFlight => duart_rba = Translated(Input[fetched])
    /\ ~(RxRDY \in duart_sra /\ driver = "rba")

(* Whatever the ROM does between two reads, the port never jams: every byte *)
(* that is written while the input is open is eventually handed out,       *)
(* because the interrupt status register keeps announcing the one that     *)
(* waits until the driver has looked at it.  The end of a regular file     *)
(* closes the input, but never before all that the file has was taken.     *)
InputKeepsFlowing ==
    \A k \in 1..Len(Input) :
        (serial_fr = "open" /\ written >= k) ~> (fetched >= k)

(* The serial port implements the channel it promises.  Its safety alone   *)
(* is the part for the proofs.                                             *)
Channel == INSTANCE SerialChannel WITH Received <- Translated

ImplementsChannel == Channel!Spec
ImplementsSafeChannel == Channel!SafeSpec
=============================================================================
