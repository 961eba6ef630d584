---------------------------- MODULE StorageProofs ----------------------------
(***************************************************************************)
(* Theorems about the memory images, for every number of blocks, every set *)
(* of options, and with kills and write errors.                            *)
(***************************************************************************)
EXTENDS Storage, SequenceTheorems, TLAPS

(* What a file can hold, how the stream that is being written relates to   *)
(* the memory behind it, and the invariant itself.                         *)
FilesWellFormed ==
    /\ disk \in [Files -> {NoFile} \cup Seq(Nat)]
    /\ \A f \in Files : disk[f] # NoFile => Len(disk[f]) <= Blocks
    /\ mem \in [Files -> [1..Blocks -> Nat]]
    /\ pos \in [Files -> Nat]
    /\ opts \subseteq Files
    /\ turn \in 1..2
    /\ out \in 0..Blocks
    /\ cut \subseteq Files
    /\ saved \in [Files -> {NoFile} \cup [1..Blocks -> Nat]]
    /\ version \in Nat

OpenFilesExist ==
    phase \in {"load_svram", "load_ram", "window", "run", "save"} =>
        \A f \in opts : disk[f] # NoFile

OutIsZero == phase \notin {"save", "off"} => out = 0 /\ turn = 1

(* The write of the current file has got as far as "out" says.             *)
WriteProgress ==
    phase = "save" /\ out > 0 =>
        LET f == SaveOrder[turn]
        IN /\ f \in opts
           /\ f \in cut
           /\ pos[f] = out
           /\ out <= Len(disk[f])
           /\ \A b \in 1..out : disk[f][b] = mem[f][b]

IInv ==
    /\ FilesWellFormed
    /\ OpenFilesExist
    /\ OutIsZero
    /\ WriteProgress
    /\ IntactUnlessCut

LEMMA InvariantInit == Init => IInv
<1> SUFFICES ASSUME Init PROVE IInv
    OBVIOUS
<1> USE StorageAssumption DEF Init, Files
<1>1. FilesWellFormed
    BY DEF FilesWellFormed, Zeros
<1>2. OpenFilesExist /\ OutIsZero /\ WriteProgress
    BY DEF OpenFilesExist, OutIsZero, WriteProgress
<1>3. IntactUnlessCut
    BY DEF IntactUnlessCut
<1> QED
    BY <1>1, <1>2, <1>3 DEF IInv

(* The step in which one block goes to the disk: the file stays a sequence *)
(* of at most Blocks blocks and never gets shorter.                        *)
LEMMA OverwrittenFacts ==
    ASSUME NEW c \in Seq(Nat), NEW p \in Nat, NEW v \in Nat,
           p <= Len(c), Len(c) <= Blocks, p < Blocks
    PROVE  /\ Overwritten(c, p, v) \in Seq(Nat)
           /\ Len(Overwritten(c, p, v)) <= Blocks
           /\ Len(Overwritten(c, p, v)) >= Len(c)
           /\ Len(Overwritten(c, p, v)) >= p + 1
           /\ Overwritten(c, p, v)[p + 1] = v
           /\ \A b \in 1..p : Overwritten(c, p, v)[b] = c[b]
<1> USE StorageAssumption
<1>1. CASE p < Len(c)
    <2>1. Overwritten(c, p, v) = [c EXCEPT ![p + 1] = v]
        BY <1>1 DEF Overwritten
    <2>2. p + 1 \in 1..Len(c)
        BY <1>1
    <2> QED
        BY <2>1, <2>2, ExceptSeq
<1>2. CASE p = Len(c)
    <2>1. Overwritten(c, p, v) = Append(c, v)
        BY <1>2 DEF Overwritten
    <2> QED
        BY <1>2, <2>1
<1> QED
    BY <1>1, <1>2

LEMMA WriteBlockStep ==
    ASSUME IInv, phase = "save", Save, WriteBlock(SaveOrder[turn])
    PROVE  /\ IInv'
           /\ \A f \in Files : IsFull(disk[f]) => IsFull(disk'[f])
<1> DEFINE f == SaveOrder[turn]
<1> USE StorageAssumption
<1>1. f \in Files /\ f \in opts /\ out < Blocks /\ out \in Nat /\ Blocks \in Nat
    BY DEF IInv, FilesWellFormed, SaveOrder, Files, WriteBlock
<1>2. disk[f] \in Seq(Nat) /\ Len(disk[f]) <= Blocks /\ Len(disk[f]) \in Nat
    BY <1>1 DEF IInv, FilesWellFormed, OpenFilesExist
<1>3. StartOfWrite(f) = out
    BY <1>1 DEF StartOfWrite, IInv, WriteProgress
<1>4. out <= Len(disk[f]) /\ \A b \in 1..out : disk[f][b] = mem[f][b]
    BY <1>1, <1>2 DEF IInv, WriteProgress
<1> DEFINE v == mem[f][out + 1]
           new == Overwritten(disk[f], out, v)
<1>5. v \in Nat
    BY <1>1 DEF IInv, FilesWellFormed
<1>6. /\ new \in Seq(Nat)
      /\ Len(new) <= Blocks /\ Len(new) >= Len(disk[f]) /\ Len(new) >= out + 1
      /\ new[out + 1] = v
      /\ \A b \in 1..out : new[b] = disk[f][b]
    <2> HIDE DEF f, v
    <2>1. out <= Len(disk[f])
        BY <1>4
    <2> HIDE DEF new
    <2>2. \A c \in Seq(Nat) : Len(c) <= Blocks /\ out <= Len(c) =>
             /\ Overwritten(c, out, v) \in Seq(Nat)
             /\ Len(Overwritten(c, out, v)) <= Blocks
             /\ Len(Overwritten(c, out, v)) >= Len(c)
             /\ Len(Overwritten(c, out, v)) >= out + 1
             /\ Overwritten(c, out, v)[out + 1] = v
             /\ \A b \in 1..out : Overwritten(c, out, v)[b] = c[b]
        BY <1>1, <1>5, OverwrittenFacts
    <2> QED
        BY <1>1, <1>2, <2>1, <2>2 DEF new
<1>7. /\ disk' = [disk EXCEPT ![f] = new]
      /\ pos' = [pos EXCEPT ![f] = out + 1]
      /\ out' = out + 1
      /\ cut' = cut \cup {f}
      /\ UNCHANGED <<phase, turn, saved, mem, opts, version>>
    BY <1>3 DEF WriteBlock, Save
<1> HIDE DEF new, v
<1>8. /\ disk[f] # NoFile /\ disk'[f] = new
      /\ disk' \in [Files -> {NoFile} \cup Seq(Nat)]
    <2>1. disk \in [Files -> {NoFile} \cup Seq(Nat)]
        BY DEF IInv, FilesWellFormed
    <2>2. disk[f] # NoFile
        BY <1>1 DEF IInv, OpenFilesExist
    <2> HIDE DEF f
    <2> QED
        BY <1>1, <1>6, <1>7, <2>1, <2>2
<1>9. \A g \in Files \ {f} : disk'[g] = disk[g]
    BY <1>1, <1>7 DEF IInv, FilesWellFormed
<1> HIDE DEF f
<1>10. FilesWellFormed'
    <2>1. \A g \in Files : disk'[g] # NoFile => Len(disk'[g]) <= Blocks
        BY <1>6, <1>8, <1>9 DEF IInv, FilesWellFormed
    <2>2. pos' \in [Files -> Nat] /\ out' \in 0..Blocks /\ cut' \subseteq Files
        BY <1>1, <1>7 DEF IInv, FilesWellFormed
    <2> QED
        BY <1>7, <1>8, <2>1, <2>2 DEF IInv, FilesWellFormed
<1>11. OpenFilesExist'
    <2>1. new # NoFile
        BY <1>6 
    <2> QED
        BY <1>1, <1>7, <1>8, <1>9, <2>1 DEF IInv, OpenFilesExist, FilesWellFormed
<1>12. OutIsZero'
    BY <1>7 DEF IInv, OutIsZero
<1>13. WriteProgress'
    <2>1. pos'[f] = out + 1
        BY <1>1, <1>7 DEF IInv, FilesWellFormed
    <2>2. \A b \in 1..(out + 1) : new[b] = mem[f][b]
        BY <1>1, <1>4, <1>6 DEF v
    <2> QED
        BY <1>1, <1>6, <1>7, <1>8, <2>1, <2>2 DEF WriteProgress, f
<1>14. IntactUnlessCut'
    BY <1>7, <1>9 DEF IInv, IntactUnlessCut
<1>15. \A g \in Files : IsFull(disk[g]) => IsFull(disk'[g])
    <2>1. IsFull(disk[f]) => IsFull(disk'[f])
        BY <1>2, <1>6, <1>8 DEF IsFull
    <2> QED
        BY <1>9, <2>1
<1> QED
    BY <1>10, <1>11, <1>12, <1>13, <1>14, <1>15 DEF IInv

(* The last step of a save: all blocks are out, and the file is the image. *)
LEMMA CloseFileStep ==
    ASSUME IInv, phase = "save", Save, CloseFile(SaveOrder[turn])
    PROVE  IInv'
<1> DEFINE f == SaveOrder[turn]
<1> USE StorageAssumption
<1>1. f \in Files
    BY DEF IInv, FilesWellFormed, SaveOrder, Files
<1>2. /\ UNCHANGED <<disk, pos, mem, opts, version>>
      /\ out' = 0 /\ turn' \in 1..2 /\ phase' \in {"save", "off"}
    BY DEF CloseFile, NextFile, Save, IInv, FilesWellFormed
<1>3. CASE f \in opts
    <2>1. out = Blocks /\ saved' = [saved EXCEPT ![f] = mem[f]] /\ cut' = cut \ {f}
        BY <1>3 DEF CloseFile
    <2>2. mem[f] \in [1..Blocks -> Nat] /\ saved' \in [Files -> {NoFile} \cup [1..Blocks -> Nat]]
        BY <1>1, <2>1 DEF IInv, FilesWellFormed
    <2>3. disk[f] = mem[f]
        <3>1. phase = "save" /\ out > 0
            BY <2>1
        <3>2. Blocks <= Len(disk[f]) /\ \A b \in 1..Blocks : disk[f][b] = mem[f][b]
            BY <2>1, <3>1 DEF IInv, WriteProgress
        <3>3. disk[f] \in Seq(Nat) /\ Len(disk[f]) <= Blocks
            BY <1>1, <1>3 DEF IInv, FilesWellFormed, OpenFilesExist
        <3> HIDE DEF f
        <3>4. Len(disk[f]) = Blocks
            BY <3>2, <3>3
        <3> QED
            BY <2>2, <3>2, <3>3, <3>4
    <2>4. saved'[f] = mem[f] /\ \A g \in Files \ {f} : saved'[g] = saved[g]
        BY <1>1, <2>1 DEF IInv, FilesWellFormed
    <2> HIDE DEF f
    <2>5. FilesWellFormed'
        BY <1>2, <2>1, <2>2 DEF IInv, FilesWellFormed
    <2>6. IntactUnlessCut'
        BY <1>1, <1>2, <2>1, <2>3, <2>4 DEF IInv, IntactUnlessCut
    <2> QED
        BY <1>2, <2>5, <2>6 DEF IInv, OpenFilesExist, OutIsZero, WriteProgress
<1>4. CASE f \notin opts
    <2>1. UNCHANGED <<saved, cut>>
        BY <1>4 DEF CloseFile
    <2> QED
        BY <1>2, <2>1 DEF IInv, FilesWellFormed, OpenFilesExist, OutIsZero, WriteProgress, IntactUnlessCut
<1> QED
    BY <1>3, <1>4

(* Opening any of the files creates the missing ones and changes no other. *)
LEMMA OpenStep ==
    ASSUME IInv, NEW fs \in SUBSET Files, Open(fs), UNCHANGED <<saved, cut>>
    PROVE  /\ disk' \in [Files -> {NoFile} \cup Seq(Nat)]
           /\ \A f \in Files : disk'[f] # NoFile => Len(disk'[f]) <= Blocks
           /\ \A f \in fs : disk'[f] # NoFile
           /\ \A f \in Files : IsFull(disk[f]) => IsFull(disk'[f])
           /\ IntactUnlessCut'
<1> USE StorageAssumption
<1>0. <<>> \in Seq(Nat) /\ <<>> # NoFile
    BY NoFile \notin Seq(Nat), <<>> \in Seq(Nat)
<1>1. disk' = [f \in Files |-> IF f \in fs THEN Opened(disk[f]) ELSE disk[f]]
    BY DEF Open
<1>2. \A f \in Files : disk'[f] = disk[f] \/ (disk[f] = NoFile /\ disk'[f] = <<>>)
    BY <1>1 DEF Opened
<1>3. \A f \in fs : disk'[f] # NoFile
    BY <1>0, <1>1 DEF Opened
<1>4. /\ disk' \in [Files -> {NoFile} \cup Seq(Nat)]
      /\ \A f \in Files : disk'[f] # NoFile => Len(disk'[f]) <= Blocks
    <2>1. \A f \in Files : disk[f] \in {NoFile} \cup Seq(Nat)
        BY DEF IInv, FilesWellFormed
    <2>2. \A f \in Files : disk'[f] \in {NoFile} \cup Seq(Nat)
        BY <1>0, <1>2, <2>1
    <2>3. disk' \in [Files -> {NoFile} \cup Seq(Nat)]
        BY <1>1, <2>2
    <2>4. Len(<<>>) <= Blocks
        OBVIOUS
    <2> QED
        BY <1>2, <2>3, <2>4 DEF IInv, FilesWellFormed
<1>5. \A f \in Files : IsFull(disk[f]) => IsFull(disk'[f])
    BY <1>2 DEF IsFull
<1>6. IntactUnlessCut'
    BY <1>2 DEF IInv, IntactUnlessCut, FilesWellFormed
<1> QED
    BY <1>3, <1>4, <1>5, <1>6

(* fread leaves numbers in the memory it fills.                            *)
LEMMA LoadStep ==
    ASSUME IInv, phase \in {"load_svram", "load_ram"}, NEW f \in Files, Load(f)
    PROVE  mem' \in [Files -> [1..Blocks -> Nat]] /\ pos' \in [Files -> Nat]
<1> USE StorageAssumption
<1>1. CASE f \in opts
    <2>1. mem' = [mem EXCEPT ![f] = Read(f)] /\ pos' = [pos EXCEPT ![f] = Len(disk[f])]
        BY <1>1 DEF Load
    <2>2. disk[f] \in Seq(Nat)
        BY <1>1 DEF IInv, FilesWellFormed, OpenFilesExist
    <2>3. Read(f) \in [1..Blocks -> Nat] /\ Len(disk[f]) \in Nat
        BY <2>2 DEF Read, IInv, FilesWellFormed
    <2> QED
        BY <2>1, <2>3 DEF IInv, FilesWellFormed
<1>2. CASE f \notin opts
    BY <1>2 DEF Load, IInv, FilesWellFormed
<1> QED
    BY <1>1, <1>2

LEMMA InvariantStep ==
    ASSUME IInv, [Next]_vars
    PROVE  /\ IInv'
           /\ \A f \in Files : IsFull(disk[f]) => IsFull(disk'[f])
<1> USE StorageAssumption
<1> DEFINE Goal == /\ IInv'
                   /\ \A f \in Files : IsFull(disk[f]) => IsFull(disk'[f])
<1>1. CASE Start
    <2>1. FilesWellFormed'
        BY <1>1 DEF Start, IInv, FilesWellFormed, history, Zeros
    <2> QED
        BY <1>1, <2>1 DEF Start, history, IInv, OpenFilesExist, OutIsZero, WriteProgress, IntactUnlessCut
<1>2. CASE OpenFiles
    <2>1. /\ Open(opts) /\ phase = "open" /\ phase' = "load_svram"
          /\ UNCHANGED <<pos, mem, opts, turn, out, warm, history>>
        BY <1>2 DEF OpenFiles
    <2>2. opts \in SUBSET Files /\ UNCHANGED <<saved, cut, version>>
        BY <2>1 DEF IInv, FilesWellFormed, history
    <2>3. FilesWellFormed' /\ IntactUnlessCut' /\ \A f \in Files : IsFull(disk[f]) => IsFull(disk'[f])
        BY <2>1, <2>2, OpenStep DEF IInv, FilesWellFormed
    <2>4. OpenFilesExist'
        BY <2>1, <2>2, OpenStep DEF OpenFilesExist
    <2> QED
        BY <2>1, <2>3, <2>4 DEF IInv, OutIsZero, WriteProgress
<1>3. CASE GiveUp
    <2>1. phase' = "off" /\ UNCHANGED <<pos, mem, opts, turn, out, saved, cut, version>>
        BY <1>3 DEF GiveUp, history
    <2>2. CASE UNCHANGED disk
        BY <2>1, <2>2 DEF IInv, FilesWellFormed, OpenFilesExist, OutIsZero, WriteProgress, IntactUnlessCut
    <2>3. ASSUME NEW fs \in SUBSET opts, Open(fs) PROVE Goal
        <3>1. fs \in SUBSET Files
            BY DEF IInv, FilesWellFormed
        <3>2. FilesWellFormed' /\ IntactUnlessCut' /\ \A f \in Files : IsFull(disk[f]) => IsFull(disk'[f])
            BY <2>1, <2>3, <3>1, OpenStep DEF IInv, FilesWellFormed
        <3> QED
            BY <2>1, <3>2 DEF IInv, OpenFilesExist, OutIsZero, WriteProgress
    <2> QED
        BY <1>3, <2>2, <2>3 DEF GiveUp
<1>4. CASE LoadSvram \/ LoadRam
    <2>1. /\ phase \in {"load_svram", "load_ram"} /\ phase' \in {"load_ram", "window"}
          /\ \E f \in Files : Load(f)
          /\ UNCHANGED <<disk, opts, turn, out, saved, cut, version>>
        BY <1>4 DEF LoadSvram, LoadRam, Files, history
    <2>2. mem' \in [Files -> [1..Blocks -> Nat]] /\ pos' \in [Files -> Nat]
        BY <2>1, LoadStep
    <2>3. FilesWellFormed'
        BY <2>1, <2>2 DEF IInv, FilesWellFormed
    <2> QED
        BY <2>1, <2>3 DEF IInv, OpenFilesExist, OutIsZero, WriteProgress, IntactUnlessCut
<1>5. CASE Work
    <2>1. /\ phase = "run" /\ version' = version + 1
          /\ mem' = [f \in Files |-> [b \in 1..Blocks |-> version + 1]]
          /\ UNCHANGED <<disk, pos, opts, phase, turn, out, saved, cut>>
        BY <1>5 DEF Work
    <2>2. FilesWellFormed'
        BY <2>1 DEF IInv, FilesWellFormed
    <2> QED
        BY <2>1, <2>2 DEF IInv, OpenFilesExist, OutIsZero, WriteProgress, IntactUnlessCut
<1>6. CASE OpenWindow \/ EndLoop
    <2>1. /\ phase \in {"window", "run"} /\ phase' \in {"run", "save"}
          /\ UNCHANGED <<disk, pos, mem, opts, turn, out, saved, cut, version>>
        BY <1>6 DEF OpenWindow, EndLoop, history
    <2>2. out = 0
        BY <2>1 DEF IInv, OutIsZero
    <2> QED
        BY <2>1, <2>2 DEF IInv, FilesWellFormed, OpenFilesExist, OutIsZero, WriteProgress, IntactUnlessCut
<1>7. CASE Save
    <2>1. CASE WriteBlock(SaveOrder[turn])
        BY <1>7, <2>1, WriteBlockStep DEF Save
    <2>2. CASE CloseFile(SaveOrder[turn])
        <3>1. IInv' /\ UNCHANGED disk
            BY <1>7, <2>2, CloseFileStep DEF Save, CloseFile
        <3> QED
            BY <3>1
    <2>3. CASE WriteFails(SaveOrder[turn])
        <3>1. /\ out' = 0 /\ turn' \in 1..2 /\ phase = "save" /\ phase' \in {"save", "off"}
              /\ UNCHANGED <<disk, pos, mem, opts, saved, cut, version>>
            BY <1>7, <2>3 DEF Save, WriteFails, NextFile, IInv, FilesWellFormed
        <3> QED
            BY <3>1 DEF IInv, FilesWellFormed, OpenFilesExist, OutIsZero, WriteProgress, IntactUnlessCut
    <2> QED
        BY <1>7, <2>1, <2>2, <2>3 DEF Save
<1>8. CASE Kill
    BY <1>8 DEF Kill, history, IInv, FilesWellFormed, OpenFilesExist, OutIsZero, WriteProgress, IntactUnlessCut
<1>9. CASE UNCHANGED vars
    BY <1>9 DEF vars, history, IInv, FilesWellFormed, OpenFilesExist, OutIsZero, WriteProgress, IntactUnlessCut
<1> QED
    BY <1>1, <1>2, <1>3, <1>4, <1>5, <1>6, <1>7, <1>8, <1>9 DEF Next

(* An image is lost only in a save that is cut short, whatever kills,      *)
(* write errors and options a history of runs consists of.                 *)
THEOREM ImagesIntact == Spec => []IntactUnlessCut
<1>1. IInv /\ [Next]_vars => IInv'
    BY InvariantStep
<1>2. IInv => IntactUnlessCut
    BY DEF IInv
<1> QED
    BY InvariantInit, <1>1, <1>2, PTL DEF Spec

(* Once an image is full it stays full: every later boot with it is warm.  *)
THEOREM FullImagesStayFull == Spec => FullStaysFull
<1>1. IInv /\ [Next]_vars => IInv'
    BY InvariantStep
<1>2. IInv /\ [Next]_vars =>
         [\A f \in Files : IsFull(disk[f]) => IsFull(disk'[f])]_vars
    BY InvariantStep
<1> QED
    BY InvariantInit, <1>1, <1>2, PTL DEF Spec, FullStaysFull

-----------------------------------------------------------------------------
(* A full image that is read is the memory, and it is the saved one unless *)
(* a save has been cut short.                                              *)
LEMMA WarmBootStep == IInv /\ WarmBootRestores /\ [Next]_vars => WarmBootRestores'
<1> SUFFICES ASSUME IInv, WarmBootRestores, [Next]_vars,
                    phase' = "window", warm', "ram" \notin cut'
             PROVE  mem'["ram"] = saved'["ram"]
    BY DEF WarmBootRestores
<1> USE StorageAssumption DEF Files
<1>1. CASE LoadRam
  <2>1. /\ "ram" \in opts /\ disk["ram"] # NoFile /\ Len(disk["ram"]) = Blocks
        /\ mem' = [mem EXCEPT !["ram"] = Read("ram")]
        /\ UNCHANGED <<disk, saved, cut>>
      BY <1>1 DEF LoadRam, AsksForNmi, IsFull, Load, history
  <2>2. disk["ram"] \in Seq(Nat) /\ mem \in [Files -> [1..Blocks -> Nat]]
      BY <2>1 DEF IInv, FilesWellFormed
  <2>3. disk["ram"] # <<>>
      BY <2>1
  <2>4. disk["ram"] = saved["ram"]
      BY <2>1, <2>3 DEF IInv, IntactUnlessCut
  <2>5. DOMAIN disk["ram"] = 1..Blocks
      BY <2>1, <2>2
  <2>6. Read("ram") = disk["ram"]
      BY <2>2, <2>5 DEF Read
  <2> QED
      BY <2>1, <2>2, <2>4, <2>6
<1>2. CASE UNCHANGED vars
    BY <1>2 DEF vars, history, WarmBootRestores
<1>3. CASE Start \/ OpenFiles \/ GiveUp \/ LoadSvram \/ OpenWindow \/ Work \/ EndLoop \/ Kill
    BY <1>3 DEF Start, OpenFiles, GiveUp, LoadSvram, OpenWindow, Work, EndLoop, Kill
<1>4. CASE Save
    BY <1>4 DEF Save, WriteBlock, CloseFile, WriteFails, NextFile
<1> QED
    BY <1>1, <1>2, <1>3, <1>4 DEF Next

(* A warm boot starts from the saved main ram, unless a later save of it   *)
(* has been cut short (kyacopycat.c 443-447), for every number of blocks   *)
(* and whatever the options of the runs between were.                      *)
THEOREM WarmBootFromSaved == Spec => []WarmBootRestores
<1>1. Init => WarmBootRestores
    BY DEF Init, WarmBootRestores
<1>2. IInv /\ [Next]_vars => IInv'
    BY InvariantStep
<1> QED
    BY InvariantInit, WarmBootStep, <1>1, <1>2, PTL DEF Spec

-----------------------------------------------------------------------------
(* The order of the two images.  Nothing is newer than the machine; once   *)
(* the svram is loaded no block of the ram image is newer than what a save *)
(* would put in the svram image; and when the ram's turn comes the svram   *)
(* image is all there.                                                     *)
NotFromFuture ==
    /\ \A f \in Files, b \in 1..Blocks : mem[f][b] <= version
    /\ \A f \in Files : disk[f] # NoFile =>
          \A b \in DOMAIN disk[f] : disk[f][b] <= version

BothFiles == together /\ phase # "off" => opts = Files

SvramCovers ==
    /\ together /\ phase \in {"load_ram", "window", "run", "save"} =>
          \A b \in DOMAIN disk["ram"], c \in 1..Blocks : disk["ram"][b] <= mem["svram"][c]
    /\ together /\ phase \in {"window", "run", "save"} =>
          \A b, c \in 1..Blocks : mem["ram"][b] <= mem["svram"][c]

NoRamAlone == together /\ disk["ram"] \notin {NoFile, <<>>} => disk["svram"] # NoFile

RamStillZero == phase \in {"open", "load_svram", "load_ram"} => mem["ram"] = Zeros

SvramIsOut ==
    together /\ phase = "save" /\ turn = 2 =>
        \A c \in 1..Blocks : c \in DOMAIN disk["svram"] /\ disk["svram"][c] = mem["svram"][c]

OrderInv ==
    /\ NotFromFuture
    /\ BothFiles
    /\ NoRamAlone
    /\ RamStillZero
    /\ SvramCovers
    /\ SvramIsOut
    /\ RamNotNewer

LEMMA OrderInit == Init => OrderInv
    BY StorageAssumption DEF Init, OrderInv, NotFromFuture, BothFiles, NoRamAlone, RamStillZero, SvramCovers, SvramIsOut,
                             RamNotNewer, Zeros, Files

(* A block that is written is the only one that changes.                   *)
LEMMA OverwrittenOthers ==
    ASSUME NEW c \in Seq(Nat), NEW p \in Nat, NEW v \in Nat, p <= Len(c)
    PROVE  /\ \A b \in DOMAIN Overwritten(c, p, v) :
                 (b = p + 1 /\ Overwritten(c, p, v)[b] = v)
                 \/ (b \in DOMAIN c /\ Overwritten(c, p, v)[b] = c[b])
           /\ DOMAIN c \subseteq DOMAIN Overwritten(c, p, v)
<1>1. CASE p < Len(c)
  <2>1. Overwritten(c, p, v) = [c EXCEPT ![p + 1] = v]
      BY <1>1 DEF Overwritten
  <2> QED
      BY <2>1
<1>2. CASE p = Len(c)
  <2>1. Overwritten(c, p, v) = Append(c, v)
      BY <1>2 DEF Overwritten
  <2>2. /\ DOMAIN Append(c, v) = 1..(Len(c) + 1) /\ DOMAIN c = 1..Len(c)
        /\ Append(c, v)[Len(c) + 1] = v
        /\ \A b \in 1..Len(c) : Append(c, v)[b] = c[b]
      OBVIOUS
  <2> QED
      BY <1>2, <2>1, <2>2
<1> QED
    BY <1>1, <1>2

(* What the step that writes a block does to the images.                   *)
LEMMA BlockOut ==
    ASSUME IInv, Save, WriteBlock(SaveOrder[turn])
    PROVE  LET f == SaveOrder[turn]
           IN /\ f \in Files /\ out + 1 \in 1..Blocks
              /\ disk[f] \in Seq(Nat) /\ disk[f] # NoFile /\ disk'[f] # NoFile
              /\ \A g \in Files \ {f} : disk'[g] = disk[g]
              /\ DOMAIN disk[f] \subseteq DOMAIN disk'[f]
              /\ \A b \in DOMAIN disk'[f] :
                    (b = out + 1 /\ disk'[f][b] = mem[f][b])
                    \/ (b \in DOMAIN disk[f] /\ disk'[f][b] = disk[f][b])
              /\ UNCHANGED <<phase, turn, mem, opts, version, together>>
<1> DEFINE f == SaveOrder[turn]
<1> USE StorageAssumption
<1>1. f \in Files /\ f \in opts /\ out < Blocks /\ out \in Nat /\ Blocks \in Nat
    BY DEF IInv, FilesWellFormed, SaveOrder, Files, WriteBlock
<1>2. disk[f] \in Seq(Nat) /\ disk[f] # NoFile /\ phase = "save"
    BY <1>1 DEF IInv, FilesWellFormed, OpenFilesExist, Save
<1>3. StartOfWrite(f) = out /\ out <= Len(disk[f])
    BY <1>1, <1>2 DEF StartOfWrite, IInv, WriteProgress
<1>4. /\ disk' = [disk EXCEPT ![f] = Overwritten(disk[f], out, mem[f][out + 1])]
      /\ UNCHANGED <<phase, turn, mem, opts, version, together>>
    BY <1>3 DEF WriteBlock, Save
<1>5. mem[f][out + 1] \in Nat
    BY <1>1 DEF IInv, FilesWellFormed
<1> DEFINE new == Overwritten(disk[f], out, mem[f][out + 1])
<1>6. disk'[f] = new /\ \A g \in Files \ {f} : disk'[g] = disk[g]
    BY <1>1, <1>4 DEF IInv, FilesWellFormed
<1>7. disk'[f] # NoFile
    BY <1>1, <1>2, WriteBlockStep DEF IInv, OpenFilesExist, Save, WriteBlock
<1>8. /\ \A b \in DOMAIN new : (b = out + 1 /\ new[b] = mem[f][out + 1])
                               \/ (b \in DOMAIN disk[f] /\ new[b] = disk[f][b])
      /\ DOMAIN disk[f] \subseteq DOMAIN new
  <2> HIDE DEF f
  <2> QED
      BY <1>1, <1>2, <1>3, <1>5, OverwrittenOthers
<1> HIDE DEF new, f
<1>9. \A b \in DOMAIN disk'[f] :
         (b = out + 1 /\ disk'[f][b] = mem[f][b]) \/ (b \in DOMAIN disk[f] /\ disk'[f][b] = disk[f][b])
    BY <1>6, <1>8
<1> QED
    BY <1>1, <1>2, <1>4, <1>6, <1>7, <1>8, <1>9 DEF f

LEMMA OrderWrite ==
    ASSUME IInv, OrderInv, phase = "save", Save, WriteBlock(SaveOrder[turn])
    PROVE  OrderInv'
<1> DEFINE f == SaveOrder[turn]
<1> USE StorageAssumption
<1>0. turn \in 1..2 /\ version \in Nat /\ mem \in [Files -> [1..Blocks -> Nat]]
      /\ out \in 0..Blocks
    BY DEF IInv, FilesWellFormed
<1>1. /\ f \in Files /\ out + 1 \in 1..Blocks
      /\ disk[f] \in Seq(Nat) /\ disk[f] # NoFile /\ disk'[f] # NoFile
      /\ \A g \in Files \ {f} : disk'[g] = disk[g]
      /\ DOMAIN disk[f] \subseteq DOMAIN disk'[f]
      /\ \A b \in DOMAIN disk'[f] :
            (b = out + 1 /\ disk'[f][b] = mem[f][b])
            \/ (b \in DOMAIN disk[f] /\ disk'[f][b] = disk[f][b])
      /\ UNCHANGED <<phase, turn, mem, opts, version, together>>
    BY BlockOut
<1>2. NotFromFuture'
    BY <1>0, <1>1 DEF OrderInv, NotFromFuture
<1>3. BothFiles' /\ RamStillZero'
    BY <1>1 DEF OrderInv, BothFiles, RamStillZero
<1>3a. NoRamAlone'
    BY <1>1 DEF IInv, OpenFilesExist, OrderInv, BothFiles, NoRamAlone, Files
<1>4. CASE turn = 1
  <2>1. f = "svram" /\ disk'["ram"] = disk["ram"]
      BY <1>1, <1>4 DEF SaveOrder, Files
  <2> HIDE DEF f
  <2>2. SvramCovers' /\ SvramIsOut'
      BY <1>1, <1>4, <2>1 DEF OrderInv, SvramCovers, SvramIsOut
  <2>3. RamNotNewer'
      BY <1>1, <2>1 DEF OrderInv, SvramCovers, RamNotNewer
  <2> QED
      BY <1>2, <1>3, <1>3a, <2>2, <2>3 DEF OrderInv
<1>5. CASE turn = 2
  <2>1. f = "ram" /\ disk'["svram"] = disk["svram"]
      BY <1>1, <1>5 DEF SaveOrder, Files
  <2> HIDE DEF f
  <2>2. SvramIsOut'
      BY <1>1, <2>1 DEF OrderInv, SvramIsOut
  <2>3. SvramCovers'
      BY <1>1, <2>1 DEF OrderInv, SvramCovers
  <2>4. RamNotNewer'
      BY <1>1, <1>5, <2>1, <2>2, <2>3 DEF SvramCovers, SvramIsOut, RamNotNewer
  <2> QED
      BY <1>2, <1>3, <1>3a, <2>2, <2>3, <2>4 DEF OrderInv
<1> QED
    BY <1>0, <1>4, <1>5

(* The last block of the svram is out: its image is its memory.            *)
LEMMA OrderClose ==
    ASSUME IInv, OrderInv, phase = "save", Save, CloseFile(SaveOrder[turn])
    PROVE  OrderInv'
<1> USE StorageAssumption
<1>1. UNCHANGED <<disk, mem, opts, version, together>> /\ phase' \in {"save", "off"}
    BY DEF CloseFile, NextFile, Save
<1>2. SvramIsOut'
  <2> SUFFICES ASSUME together', phase' = "save", turn' = 2, NEW c \in 1..Blocks
               PROVE  c \in DOMAIN disk'["svram"] /\ disk'["svram"][c] = mem'["svram"][c]
      BY DEF SvramIsOut
  <2>1. turn = 1 /\ together /\ "svram" \in opts
      BY <1>1 DEF CloseFile, NextFile, IInv, FilesWellFormed, OrderInv, BothFiles, Files
  <2>2. SaveOrder[turn] = "svram" /\ out = Blocks
      BY <2>1 DEF CloseFile, SaveOrder
  <2>3. Blocks <= Len(disk["svram"]) /\ disk["svram"][c] = mem["svram"][c]
      BY <2>2 DEF IInv, WriteProgress
  <2>4. disk["svram"] \in Seq(Nat) /\ Len(disk["svram"]) <= Blocks
      BY <2>1 DEF IInv, FilesWellFormed, OpenFilesExist, Files
  <2> QED
      BY <1>1, <2>3, <2>4
<1> QED
    BY <1>1, <1>2 DEF OrderInv, NotFromFuture, BothFiles, NoRamAlone, RamStillZero, SvramCovers, RamNotNewer

(* What is read is in the file, or was zero before.                        *)
LEMMA OrderLoad ==
    ASSUME IInv, OrderInv, LoadSvram \/ LoadRam
    PROVE  OrderInv'
<1> USE StorageAssumption DEF Files
<1>0. /\ mem \in [Files -> [1..Blocks -> Nat]] /\ version \in Nat
      /\ UNCHANGED <<disk, opts, version, together>>
      /\ phase' # "save" /\ phase # "off"
    BY DEF IInv, FilesWellFormed, LoadSvram, LoadRam, history
<1>1. ASSUME NEW f \in Files, f \in opts
      PROVE  /\ disk[f] \in Seq(Nat) /\ disk[f] # NoFile
             /\ \A b \in 1..Blocks : Read(f)[b] = IF b \in DOMAIN disk[f] THEN disk[f][b] ELSE mem[f][b]
             /\ \A b \in 1..Blocks : Read(f)[b] <= version
  <2>1. disk[f] \in Seq(Nat) /\ disk[f] # NoFile
      BY <1>0, <1>1 DEF LoadSvram, LoadRam, IInv, FilesWellFormed, OpenFilesExist
  <2>2. \A b \in 1..Blocks : Read(f)[b] = IF b \in DOMAIN disk[f] THEN disk[f][b] ELSE mem[f][b]
      BY DEF Read
  <2> QED
      BY <1>0, <2>1, <2>2 DEF OrderInv, NotFromFuture
<1>2. BothFiles' /\ NoRamAlone' /\ RamNotNewer' /\ SvramIsOut'
    BY <1>0 DEF OrderInv, BothFiles, NoRamAlone, RamNotNewer, SvramIsOut
<1>3. CASE LoadSvram
  <2>1. phase' = "load_ram" /\ phase = "load_svram" /\ mem'["ram"] = mem["ram"]
      BY <1>0, <1>3 DEF LoadSvram, Load
  <2>2. "svram" \in opts => mem'["svram"] = Read("svram")
      BY <1>0, <1>3 DEF LoadSvram, Load
  <2>3. "svram" \notin opts => mem' = mem
      BY <1>3 DEF LoadSvram, Load
  <2>4. NotFromFuture'
      BY <1>0, <1>1, <2>1, <2>2, <2>3 DEF OrderInv, NotFromFuture
  <2>5. SvramCovers'
    <3> SUFFICES ASSUME together, NEW b \in DOMAIN disk["ram"], NEW c \in 1..Blocks
                 PROVE  disk["ram"][b] <= mem'["svram"][c]
        BY <1>0, <2>1 DEF SvramCovers
    <3>1. opts = Files
        BY <1>0 DEF OrderInv, BothFiles
    <3>2. c \in DOMAIN disk["svram"] /\ disk["ram"][b] <= disk["svram"][c]
        BY <1>1, <3>1 DEF OrderInv, RamNotNewer
    <3> QED
        BY <1>1, <2>2, <3>1, <3>2
  <2>6. RamStillZero'
      BY <2>1 DEF OrderInv, RamStillZero, Zeros
  <2> QED
      BY <1>2, <2>4, <2>5, <2>6 DEF OrderInv
<1>4. CASE LoadRam
  <2>1. phase' = "window" /\ phase = "load_ram" /\ mem'["svram"] = mem["svram"]
      BY <1>0, <1>4 DEF LoadRam, Load
  <2>2. "ram" \in opts => mem'["ram"] = Read("ram")
      BY <1>0, <1>4 DEF LoadRam, Load
  <2>3. "ram" \notin opts => mem' = mem
      BY <1>4 DEF LoadRam, Load
  <2>4. NotFromFuture'
      BY <1>0, <1>1, <2>1, <2>2, <2>3 DEF OrderInv, NotFromFuture
  <2>5. \A b \in 1..Blocks : mem["ram"][b] = 0
      BY <2>1 DEF OrderInv, RamStillZero, Zeros
  <2>6. ASSUME together, NEW b \in 1..Blocks, NEW c \in 1..Blocks
        PROVE  mem'["ram"][b] <= mem'["svram"][c]
    <3>1. opts = Files
        BY <1>0, <2>6 DEF OrderInv, BothFiles
    <3>2. CASE b \in DOMAIN disk["ram"]
        BY <1>1, <2>1, <2>2, <2>6, <3>1, <3>2 DEF OrderInv, SvramCovers
    <3>3. CASE b \notin DOMAIN disk["ram"]
      <4>1. mem'["ram"][b] = 0
          BY <1>1, <2>2, <2>5, <3>1, <3>3
      <4>2. mem["svram"][c] \in Nat
          BY <1>0
      <4> QED
          BY <2>1, <4>1, <4>2
    <3> QED
        BY <3>2, <3>3
  <2>7. SvramCovers'
      BY <1>0, <2>1, <2>6 DEF OrderInv, SvramCovers
  <2>8. RamStillZero'
      BY <2>1 DEF RamStillZero
  <2> QED
      BY <1>2, <2>4, <2>7, <2>8 DEF OrderInv
<1> QED
    BY <1>3, <1>4

(* A file that fopen makes is empty.                                       *)
LEMMA OrderOpen ==
    ASSUME IInv, OrderInv, NEW fs \in SUBSET opts, Open(fs), phase = "open",
           phase' \in {"load_svram", "off"},
           UNCHANGED <<mem, opts, version, together>>
    PROVE  OrderInv'
<1> USE StorageAssumption DEF Files
<1>0. opts \subseteq Files
    BY DEF IInv, FilesWellFormed
<1>1. \A f \in Files : disk'[f] = disk[f] \/ (disk'[f] = <<>> /\ disk[f] = NoFile)
    BY DEF Open, Opened
<1>2. NotFromFuture'
    BY <1>1 DEF OrderInv, NotFromFuture
<1>3. RamNotNewer' /\ NoRamAlone'
  <2> SUFFICES ASSUME together, disk'["ram"] # NoFile, disk'["ram"] # <<>>
               PROVE  /\ disk'["svram"] # NoFile
                      /\ \A b \in DOMAIN disk'["ram"], c \in 1..Blocks :
                            c \in DOMAIN disk'["svram"] /\ disk'["ram"][b] <= disk'["svram"][c]
    <3>1. DOMAIN <<>> = {}
        OBVIOUS
    <3> QED
        BY <3>1 DEF RamNotNewer, NoRamAlone
  <2>1. disk'["ram"] = disk["ram"]
      BY <1>1
  <2>2. disk["svram"] # NoFile
      BY <2>1 DEF OrderInv, NoRamAlone
  <2>3. disk'["svram"] = disk["svram"]
      BY <1>1, <2>2
  <2> QED
      BY <2>1, <2>2, <2>3 DEF OrderInv, RamNotNewer
<1> QED
    BY <1>2, <1>3 DEF OrderInv, BothFiles, NoRamAlone, RamStillZero, SvramCovers, SvramIsOut

LEMMA OrderStep == IInv /\ OrderInv /\ [Next]_vars => OrderInv'
<1> SUFFICES ASSUME IInv, OrderInv, [Next]_vars PROVE OrderInv'
    OBVIOUS
<1> USE StorageAssumption DEF Files
<1>0. opts \subseteq Files /\ version \in Nat
    BY DEF IInv, FilesWellFormed
<1>1. CASE Start
  <2>1. /\ mem' = [f \in Files |-> Zeros] /\ phase' = "open"
        /\ together' = (together /\ opts' = Files)
        /\ UNCHANGED <<disk, version>> /\ phase = "off"
      BY <1>1 DEF Start
  <2>2. \A f \in Files : mem'[f] = Zeros /\ \A b \in 1..Blocks : mem'[f][b] = 0
      BY <2>1 DEF Zeros
  <2>3. NotFromFuture'
      BY <1>0, <2>1, <2>2 DEF OrderInv, NotFromFuture
  <2>4. RamStillZero'
      BY <2>2 DEF RamStillZero
  <2> QED
      BY <2>1, <2>3, <2>4 DEF OrderInv, BothFiles, NoRamAlone, SvramCovers, SvramIsOut, RamNotNewer
<1>2. CASE OpenFiles
    BY <1>2, OrderOpen DEF OpenFiles, history
<1>3. CASE GiveUp
  <2>1. phase' = "off" /\ UNCHANGED <<mem, opts, version, together>>
      BY <1>3 DEF GiveUp, history
  <2>2. CASE UNCHANGED disk
      BY <2>1, <2>2 DEF OrderInv, NotFromFuture, BothFiles, NoRamAlone, RamStillZero, SvramCovers, SvramIsOut,
                        RamNotNewer
  <2> QED
      BY <1>3, <2>1, <2>2, OrderOpen DEF GiveUp
<1>4. CASE LoadSvram \/ LoadRam
    BY <1>4, OrderLoad
<1>5. CASE Work
  <2>1. /\ phase = "run" /\ version' = version + 1
        /\ \A f \in Files, b \in 1..Blocks : mem'[f][b] = version + 1
        /\ UNCHANGED <<disk, opts, phase, turn, together>>
      BY <1>5 DEF Work
  <2>2. ASSUME NEW f \in Files, disk[f] # NoFile, NEW b \in DOMAIN disk[f]
        PROVE  disk[f][b] <= version /\ disk[f][b] \in Nat
      BY <2>2 DEF OrderInv, NotFromFuture, IInv, FilesWellFormed
  <2>3. NotFromFuture'
      BY <1>0, <2>1, <2>2 DEF NotFromFuture
  <2>4. SvramCovers'
    <3>1. together => disk["ram"] # NoFile
        BY <2>1 DEF IInv, OpenFilesExist, OrderInv, BothFiles
    <3> QED
        BY <1>0, <2>1, <2>2, <3>1 DEF SvramCovers
  <2> QED
      BY <2>1, <2>3, <2>4 DEF OrderInv, BothFiles, NoRamAlone, RamStillZero, SvramIsOut, RamNotNewer
<1>6. CASE OpenWindow
    BY <1>6 DEF OpenWindow, history, OrderInv, NotFromFuture, BothFiles, NoRamAlone, RamStillZero, SvramCovers,
                SvramIsOut, RamNotNewer
<1>7. CASE EndLoop
    BY <1>7 DEF EndLoop, history, IInv, OutIsZero, OrderInv, NotFromFuture, BothFiles, NoRamAlone, RamStillZero,
                SvramCovers, SvramIsOut, RamNotNewer
<1>8. CASE Save
  <2>1. CASE WriteFails(SaveOrder[turn])
    <3>1. /\ ~together' /\ phase' \in {"save", "off"}
          /\ UNCHANGED <<disk, mem, opts, version>>
        BY <1>8, <2>1 DEF Save, WriteFails, NextFile
    <3> QED
        BY <3>1 DEF OrderInv, NotFromFuture, BothFiles, NoRamAlone, RamStillZero, SvramCovers, SvramIsOut,
                    RamNotNewer
  <2> QED
      BY <1>8, <2>1, OrderWrite, OrderClose DEF Save
<1>9. CASE Kill
    BY <1>9 DEF Kill, history, OrderInv, NotFromFuture, BothFiles, NoRamAlone, RamStillZero, SvramCovers,
                SvramIsOut, RamNotNewer
<1>10. CASE UNCHANGED vars
    BY <1>10 DEF vars, history, OrderInv, NotFromFuture, BothFiles, NoRamAlone, RamStillZero, SvramCovers,
                 SvramIsOut, RamNotNewer
<1> QED
    BY <1>1, <1>2, <1>3, <1>4, <1>5, <1>6, <1>7, <1>8, <1>9, <1>10 DEF Next

(* The svram is saved before the main ram (kyacopycat.c 696-711): wherever *)
(* a kill strikes, no block of the main ram image is newer than any block  *)
(* of the svram image, as long as both files are used and can be written.  *)
THEOREM RamImageNotNewer == Spec => []RamNotNewer
<1>1. IInv /\ [Next]_vars => IInv'
    BY InvariantStep
<1>2. OrderInv => RamNotNewer
    BY DEF OrderInv
<1> QED
    BY InvariantInit, OrderInit, OrderStep, <1>1, <1>2, PTL DEF Spec
=============================================================================
