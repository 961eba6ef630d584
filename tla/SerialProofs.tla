---------------------------- MODULE SerialProofs ----------------------------
(***************************************************************************)
(* Theorems about the receive path, for every input, every kind of stream  *)
(* and both settings of -t.                                                *)
(***************************************************************************)
EXTENDS Serial, TLAPS

(* The registers, the host file and the driver keep their types whatever   *)
(* the interleaving of slices and bus reads.                               *)
LEMMA TypeStep == TypeOK /\ [Next]_vars => TypeOK'
<1> SUFFICES ASSUME TypeOK, [Next]_vars PROVE TypeOK'
    OBVIOUS
<1> USE InputAssumption, NoByteAssumption, TrgRangeAssumption
    DEF TypeOK, DuartTypeOK, Bits, TxRDY, RxRDY, IsrRxRDY, IsrTimer
<1>1. CASE HostWrite
    BY <1>1 DEF HostWrite, duartVars, driverVars
<1>2. CASE SliceEnd
    <2>1. trg' \in 0..(TrgRange - 1) /\ duart_ipcr' \subseteq Bits
        BY <1>2 DEF SliceEnd, TimerTick
    <2>2. CASE WantsByte /\ PollIn /\ FgetcByte
        <3>1. written' = written /\ taken' \in 0..written /\ fetched' \in 0..taken'
            BY <1>2, <2>2 DEF SliceEnd, FgetcByte, FillSize
        <3>2. Translated(Input[fetched + 1]) \in Bytes
            BY <2>2 DEF FgetcByte, Translated
        <3> QED
            BY <1>2, <2>1, <2>2, <3>1, <3>2 DEF SliceEnd, FgetcByte, ReceiveByte, TickedIsr, driverVars
    <2>3. CASE WantsByte /\ PollIn /\ FgetcEof
        BY <1>2, <2>1, <2>3 DEF SliceEnd, FgetcEof, ReceiveNothing, TickedIsr, driverVars
    <2>4. CASE UNCHANGED <<taken, fetched, serial_fr>> /\ ReceiveNothing
        BY <1>2, <2>1, <2>4 DEF SliceEnd, ReceiveNothing, TickedIsr, driverVars
    <2> QED
        BY <1>2, <2>2, <2>3, <2>4 DEF SliceEnd, SerialPoll
<1>3. CASE DriverReadsIsr
    BY <1>3 DEF DriverReadsIsr, ReadIsr, hostVars, IsrKept
<1>4. CASE DriverReadsSra
    BY <1>4 DEF DriverReadsSra, ReadSra, hostVars
<1>5. CASE DriverReadsRba
    BY <1>5 DEF DriverReadsRba, ReadRba, duartVars, hostVars
<1>6. CASE HandlerReadsIsr
    BY <1>6 DEF HandlerReadsIsr, ReadIsr, hostVars, driverVars, IsrKept
<1>7. CASE HandlerReadsIpcr
    BY <1>7 DEF HandlerReadsIpcr, ReadIpcr, hostVars, driverVars
<1>8. CASE TransmitterReadsSra
    BY <1>8 DEF TransmitterReadsSra, ReadSra, hostVars, driverVars
<1>9. CASE UNCHANGED vars
    BY <1>9 DEF vars, duartVars, hostVars, driverVars
<1> QED
    BY <1>1, <1>2, <1>3, <1>4, <1>5, <1>6, <1>7, <1>8, <1>9 DEF Next, DriverStep

(* Spec keeps every variable of the serial path in its type.               *)
THEOREM TypeCorrect == Spec => []TypeOK
<1>1. Init => TypeOK
    BY InputAssumption, TrgRangeAssumption
       DEF Init, DuartInit, TypeOK, DuartTypeOK, Bits, TxRDY
<1> QED
    BY <1>1, TypeStep, PTL DEF Spec

(* A pending byte stays announced: the mask of the read-to-clear interrupt *)
(* status register spares its receive bit, whoever reads it and when.      *)
THEOREM AlwaysAnnounced == Spec => []PendingByteAnnounced
<1> USE DEF PendingByteAnnounced
<1>1. Init => PendingByteAnnounced
    BY DEF Init, DuartInit, RxRDY, TxRDY
<1>2. TypeOK /\ PendingByteAnnounced /\ [Next]_vars => PendingByteAnnounced'
    <2> SUFFICES ASSUME PendingByteAnnounced, [Next]_vars
                 PROVE  PendingByteAnnounced'
        OBVIOUS
    <2> USE DEF RxRDY, TxRDY, IsrRxRDY
    <2>1. CASE SliceEnd
        <3>1. ReceiveNothing \/ \E b : ReceiveByte(b)
            BY <2>1 DEF SliceEnd, SerialPoll, FgetcByte, FgetcEof
        <3> QED
            BY <3>1 DEF ReceiveNothing, ReceiveByte, TickedIsr
    <2>2. CASE DriverReadsIsr \/ HandlerReadsIsr
        BY <2>2 DEF DriverReadsIsr, HandlerReadsIsr, ReadIsr, IsrKept
    <2>3. CASE DriverReadsSra \/ TransmitterReadsSra
        BY <2>3 DEF DriverReadsSra, TransmitterReadsSra, ReadSra
    <2>4. CASE UNCHANGED <<duart_sra, duart_isr>>
        BY <2>4
    <2>5. HostWrite \/ DriverReadsRba \/ HandlerReadsIpcr \/ UNCHANGED vars
             => UNCHANGED <<duart_sra, duart_isr>>
        BY DEF HostWrite, DriverReadsRba, HandlerReadsIpcr, ReadRba, ReadIpcr, duartVars, vars
    <2> QED
        BY <2>1, <2>2, <2>3, <2>4, <2>5 DEF Next, DriverStep
<1> QED
    BY <1>1, <1>2, TypeCorrect, PTL DEF Spec

-----------------------------------------------------------------------------
(* The two things the program on the 68000 has to respect, and that the    *)
(* emulator does not enforce: the driver's status and data read fall in    *)
(* one slice, and nobody else reads the status register.                   *)
PoliteRom == ~SplitDriver /\ ~StatusPolled

IInv == TypeOK /\ Conservation /\ ReceivedInOrder

LEMMA ConservationStep ==
    PoliteRom /\ TypeOK /\ Conservation /\ [Next]_vars => Conservation'
<1> SUFFICES ASSUME PoliteRom, TypeOK, Conservation, [Next]_vars PROVE Conservation'
    OBVIOUS
<1>0. /\ Len(received) \in Nat /\ received \in Seq(Bytes \cup {NoByte})
      /\ written \in Nat /\ taken \in Nat /\ fetched \in Nat
    BY InputAssumption DEF TypeOK
<1>1. CASE HostWrite
    <2>1. /\ UNCHANGED <<duart_sra, duart_rba, taken, fetched, driver, received>>
          /\ written' = written + 1
        BY <1>1 DEF HostWrite, duartVars, driverVars
    <2>2. taken' <= written'
        <3>1. taken <= written /\ taken \in Nat /\ written \in Nat
            BY <1>0 DEF Conservation
        <3> QED
            BY <2>1, <3>1
    <2>3. (InFlight' <=> InFlight) /\ fetched' = taken'
        BY <2>1 DEF Conservation, InFlight
    <2>4. fetched' = Len(received') + (IF InFlight' THEN 1 ELSE 0)
        BY <2>1, <2>3 DEF Conservation
    <2> QED
        BY <2>1, <2>2, <2>3, <2>4 DEF Conservation, InFlight
<1>2. CASE SliceEnd
    <2>1. driver # "rba" /\ UNCHANGED <<driver, received, written>>
        BY <1>2 DEF SliceEnd, PoliteRom, driverVars
    <2>2. CASE WantsByte /\ PollIn /\ FgetcByte
        <3>1. RxRDY \notin duart_sra /\ fetched = Len(received) /\ fetched = taken
            BY <2>1, <2>2 DEF WantsByte, Conservation, InFlight
        <3>2. fetched' = fetched + 1 /\ taken' = taken + 1 /\ taken' <= written
            BY <1>0, <2>2, <3>1 DEF FgetcByte, FillSize
        <3>3. RxRDY \in duart_sra' /\ duart_rba' = Translated(Input[fetched'])
            BY <2>2, <3>2 DEF FgetcByte, ReceiveByte
        <3> QED
            BY <1>0, <2>1, <3>1, <3>2, <3>3 DEF Conservation, InFlight
    <2>3. CASE UNCHANGED <<taken, fetched, duart_sra, duart_rba>>
        BY <2>1, <2>3 DEF Conservation, InFlight
    <2> QED
        BY <1>2, <2>2, <2>3 DEF SliceEnd, SerialPoll, FgetcEof, ReceiveNothing
<1>3. CASE DriverReadsIsr \/ HandlerReadsIsr \/ HandlerReadsIpcr
    <2>1. /\ UNCHANGED <<duart_sra, duart_rba, hostVars, received>>
          /\ driver' = "rba" <=> driver = "rba"
        BY <1>3 DEF DriverReadsIsr, HandlerReadsIsr, HandlerReadsIpcr, ReadIsr, ReadIpcr, driverVars
    <2> QED
        BY <2>1 DEF hostVars, Conservation, InFlight
<1>4. CASE DriverReadsSra
    <2>1. RxRDY \notin duart_sra' /\ UNCHANGED <<duart_rba, hostVars, received>>
        BY <1>4 DEF DriverReadsSra, ReadSra, RxRDY, TxRDY
    <2>2. driver # "rba" /\ (driver' = "rba" <=> RxRDY \in duart_sra)
        BY <1>4 DEF DriverReadsSra
    <2> QED
        BY <2>1, <2>2 DEF hostVars, Conservation, InFlight
<1>5. CASE DriverReadsRba
    <2>1. Len(received') = Len(received) + 1 /\ driver' = "isr"
        BY <1>0, <1>5 DEF DriverReadsRba, TypeOK, DuartTypeOK
    <2>2. UNCHANGED <<duart_sra, duart_rba, hostVars>>
        BY <1>5 DEF DriverReadsRba, ReadRba, duartVars
    <2>3. fetched = Len(received) + 1 /\ RxRDY \notin duart_sra
        BY <1>5 DEF DriverReadsRba, Conservation, InFlight
    <2>4. ~InFlight'
        BY <2>1, <2>2, <2>3 DEF InFlight
    <2>5. fetched' = Len(received')
        BY <2>1, <2>2, <2>3 DEF hostVars
    <2>6. fetched' = taken' /\ taken' <= written'
        BY <2>2 DEF hostVars, Conservation
    <2>7. fetched' = Len(received') + (IF InFlight' THEN 1 ELSE 0)
        BY <1>0, <2>2, <2>4, <2>5 DEF hostVars
    <2> QED
        BY <2>1, <2>2, <2>3, <2>4, <2>6, <2>7 DEF Conservation
<1>6. CASE TransmitterReadsSra
    BY <1>6 DEF TransmitterReadsSra, PoliteRom
<1>7. CASE UNCHANGED vars
    BY <1>7 DEF vars, duartVars, hostVars, driverVars, Conservation, InFlight
<1> QED
    BY <1>1, <1>2, <1>3, <1>4, <1>5, <1>6, <1>7 DEF Next, DriverStep

(* What the driver's data read appends is the next byte of the input.      *)
LEMMA DataReadStep ==
    TypeOK /\ Conservation /\ DriverReadsRba =>
        /\ Len(received) < written
        /\ received' = Append(received, Translated(Input[Len(received) + 1]))
        /\ UNCHANGED written
<1> SUFFICES ASSUME TypeOK, Conservation, DriverReadsRba
             PROVE  /\ Len(received) < written
                    /\ received' = Append(received, Translated(Input[Len(received) + 1]))
                    /\ UNCHANGED written
    OBVIOUS
<1>1. Len(received) \in Nat /\ written \in Nat /\ fetched \in Nat
    BY InputAssumption DEF TypeOK
<1>2. fetched = Len(received) + 1 /\ fetched <= written
      /\ duart_rba = Translated(Input[fetched])
    BY <1>1 DEF DriverReadsRba, Conservation, InFlight
<1> QED
    BY <1>1, <1>2 DEF DriverReadsRba, hostVars

LEMMA ReceivedStep ==
    TypeOK /\ Conservation /\ ReceivedInOrder /\ [Next]_vars => ReceivedInOrder'
<1> SUFFICES ASSUME TypeOK, Conservation, ReceivedInOrder, [Next]_vars
             PROVE  ReceivedInOrder'
    OBVIOUS
<1>0. /\ Len(received) \in Nat /\ written \in Nat
      /\ received \in Seq(Bytes \cup {NoByte}) /\ duart_rba \in Bytes \cup {NoByte}
    BY InputAssumption DEF TypeOK, DuartTypeOK
<1>1. CASE DriverReadsRba
    <2> DEFINE b == Translated(Input[Len(received) + 1])
    <2>1. Len(received) < written /\ received' = Append(received, b) /\ written' = written
        BY <1>1, DataReadStep
    <2>2. b \in Bytes \cup {NoByte}
        <3>1. duart_rba = b
            BY <1>0, <1>1 DEF DriverReadsRba, Conservation, InFlight
        <3> QED
            BY <1>0, <3>1
    <2> HIDE DEF b
    <2>3. Len(received') = Len(received) + 1
        BY <1>0, <2>1, <2>2
    <2>4. \A i \in 1..Len(received') : received'[i] = Translated(Input[i])
        <3> SUFFICES ASSUME NEW i \in 1..Len(received')
                     PROVE  received'[i] = Translated(Input[i])
            OBVIOUS
        <3>1. CASE i = Len(received) + 1
            BY <1>0, <2>1, <2>2, <3>1 DEF b
        <3>2. CASE i \in 1..Len(received)
            BY <1>0, <2>1, <2>2, <3>2 DEF ReceivedInOrder
        <3> QED
            BY <1>0, <2>3, <3>1, <3>2
    <2> QED
        BY <1>0, <2>1, <2>3, <2>4 DEF ReceivedInOrder
<1>2. CASE HostWrite
    BY <1>0, <1>2 DEF HostWrite, driverVars, ReceivedInOrder
<1>3. CASE UNCHANGED <<written, received>>
    BY <1>3 DEF ReceivedInOrder
<1> QED
    BY <1>1, <1>2, <1>3
       DEF Next, DriverStep, SliceEnd, DriverReadsIsr, DriverReadsSra, HandlerReadsIsr,
           HandlerReadsIpcr, TransmitterReadsSra, vars, hostVars, driverVars

LEMMA InvariantStep == PoliteRom /\ IInv /\ [Next]_vars => IInv'
    BY TypeStep, ConservationStep, ReceivedStep DEF IInv

LEMMA InvariantInit == Init => IInv
<1> SUFFICES ASSUME Init PROVE IInv
    OBVIOUS
<1>1. TypeOK
    BY InputAssumption, TrgRangeAssumption
       DEF Init, DuartInit, TypeOK, DuartTypeOK, Bits, TxRDY
<1>2. Len(received) = 0 /\ written \in Nat
    BY InputAssumption DEF Init
<1> QED
    BY <1>1, <1>2 DEF Init, DuartInit, IInv, TxRDY, RxRDY, Conservation, InFlight, ReceivedInOrder

(* Under a polite ROM no byte is lost, doubled or reordered between the    *)
(* host and the cat, for every input and every interleaving.               *)
THEOREM InOrderDelivery == PoliteRom /\ Spec => [](Conservation /\ ReceivedInOrder)
<1> SUFFICES ASSUME PoliteRom PROVE Spec => [](Conservation /\ ReceivedInOrder)
    OBVIOUS
<1>1. IInv /\ [Next]_vars => IInv'
    BY InvariantStep
<1>2. IInv => Conservation /\ ReceivedInOrder
    BY DEF IInv
<1> QED
    BY InvariantInit, <1>1, <1>2, PTL DEF Spec

(* The serial path implements the in-order channel: every step of it is a  *)
(* step of the channel or leaves the channel alone.                        *)
THEOREM RefinesChannel == PoliteRom /\ Spec => ImplementsSafeChannel
<1> SUFFICES ASSUME PoliteRom PROVE Spec => ImplementsSafeChannel
    OBVIOUS
<1>1. Init => Channel!Init
    BY DEF Init, Channel!Init
<1>2. IInv /\ [Next]_vars => [Channel!Next]_(Channel!vars)
    <2> SUFFICES ASSUME IInv, [Next]_vars
                 PROVE  [Channel!Next]_(Channel!vars)
        OBVIOUS
    <2>1. CASE HostWrite
        BY <2>1 DEF HostWrite, driverVars, Channel!Next, Channel!Write
    <2>2. CASE DriverReadsRba
        BY <2>2, DataReadStep DEF IInv, Channel!Next, Channel!Deliver
    <2>3. CASE UNCHANGED <<written, received>>
        BY <2>3 DEF Channel!vars
    <2> QED
        BY <2>1, <2>2, <2>3
           DEF Next, DriverStep, SliceEnd, DriverReadsIsr, DriverReadsSra, HandlerReadsIsr,
               HandlerReadsIpcr, TransmitterReadsSra, vars, hostVars, driverVars
<1>3. IInv /\ [Next]_vars => IInv'
    BY InvariantStep
<1> QED
    BY <1>1, <1>2, <1>3, InvariantInit, PTL
       DEF Spec, ImplementsSafeChannel, Channel!SafeSpec
=============================================================================
