------------------------------ MODULE Storage ------------------------------
(***************************************************************************)
(* The two memory images that outlive a run of kyacopycat: the svram file  *)
(* of -n and the main ram file of -b (kyacopycat.c 389-418, 437-447 and    *)
(* 696-711).  They are opened while the command line is read, loaded       *)
(* before the cpu is reset, and written over in place after the main loop  *)
(* has ended.  The process can be killed between any two of these steps.   *)
(*                                                                         *)
(* A memory is a sequence of Blocks blocks; the content of a block is the  *)
(* version of the machine's state it belongs to, 0 in a new memory.        *)
(*                                                                         *)
(* A definition that stands just before another and bears a longer form of *)
(* its name is a mutant of it: a mistake the code could have contained.    *)
(***************************************************************************)
EXTENDS Naturals, Sequences

CONSTANTS Blocks,       \* blocks of an image that reach the disk apart
          OptionSets,   \* which of -n and -b a run may be given
          Kills,        \* the process may be killed
          WriteErrors,  \* fwrite may fail
          MaxVersion,   \* bound: versions of the machine's state
          NoFile        \* the file does not exist

Files == {"svram", "ram"}

ASSUME StorageAssumption ==
    /\ Blocks \in Nat \ {0}
    /\ OptionSets \subseteq SUBSET Files
    /\ Kills \in BOOLEAN /\ WriteErrors \in BOOLEAN
    /\ MaxVersion \in Nat
    /\ NoFile \notin Seq(Nat)

VARIABLES disk,      \* the content of the two files
          pos,       \* the position of the two streams
          mem,       \* svram[] and main_ram[]
          opts,      \* the options of this run
          phase,     \* where main is; "off" when nothing runs
          turn,      \* the file that is being saved, by its place in SaveOrder
          out,       \* blocks this fwrite has put in the file
          warm,      \* m68k_set_irq(7) was called
          version,   \* history: the last version of the machine's state
          saved,     \* history: what the last complete save put in the file
          cut,       \* history: files with a save begun and not completed since
          states,    \* history: what the main ram has been
          together   \* history: each run so far had both files and could write

history == <<version, saved, cut, states, together>>
vars == <<disk, pos, mem, opts, phase, turn, out, warm, history>>

Zeros == [b \in 1..Blocks |-> 0]

Init ==
    /\ disk = [f \in Files |-> NoFile]
    /\ pos = [f \in Files |-> 0]
    /\ mem = [f \in Files |-> Zeros]
    /\ opts = {}
    /\ phase = "off"
    /\ turn = 1
    /\ out = 0
    /\ warm = FALSE
    /\ version = 0
    /\ saved = [f \in Files |-> NoFile]
    /\ cut = {}
    /\ states = {Zeros}
    /\ together = TRUE

IsFull(c) == c # NoFile /\ Len(c) = Blocks

-----------------------------------------------------------------------------
(* A new process: its globals are zero.                                    *)
Start ==
    /\ phase = "off"
    /\ opts' \in OptionSets
    /\ mem' = [f \in Files |-> Zeros]
    /\ pos' = [f \in Files |-> 0]
    /\ turn' = 1 /\ out' = 0
    /\ warm' = FALSE
    /\ phase' = "open"
    /\ together' = (together /\ opts' = Files)
    /\ UNCHANGED <<disk, version, saved, cut, states>>

(* fopen for update, and if there is no such file, for a new one.          *)
OpenedTruncated(c) == <<>>

Opened(c) == IF c = NoFile THEN <<>> ELSE c

Open(fs) == disk' = [f \in Files |-> IF f \in fs THEN Opened(disk[f]) ELSE disk[f]]

OpenFiles ==
    /\ phase = "open"
    /\ Open(opts)
    /\ phase' = "load_svram"
    /\ UNCHANGED <<pos, mem, opts, turn, out, warm, history>>

(* Another option, the main rom or the window is no good: the program      *)
(* returns, with the files it has opened left as they are.                 *)
GiveUp ==
    /\ \/ phase = "open" /\ \E fs \in SUBSET opts : Open(fs)
       \/ phase \in {"load_svram", "window"} /\ UNCHANGED disk
    /\ phase' = "off"
    /\ UNCHANGED <<pos, mem, opts, turn, out, warm, history>>

(* fread into the memory: what the file has is read even if it is short.   *)
Read(f) ==
    [b \in 1..Blocks |-> IF b \in DOMAIN disk[f] THEN disk[f][b] ELSE mem[f][b]]

Load(f) ==
    IF f \in opts
    THEN /\ mem' = [mem EXCEPT ![f] = Read(f)]
         /\ pos' = [pos EXCEPT ![f] = Len(disk[f])]
    ELSE UNCHANGED <<mem, pos>>

LoadSvram ==
    /\ phase = "load_svram"
    /\ Load("svram")
    /\ phase' = "load_ram"
    /\ UNCHANGED <<disk, opts, turn, out, warm, history>>

(* Only a full image of the main ram makes this a warm boot.               *)
AsksForNmiAnyway == "ram" \in opts

AsksForNmi == "ram" \in opts /\ IsFull(disk["ram"])

LoadRam ==
    /\ phase = "load_ram"
    /\ Load("ram")
    /\ warm' = AsksForNmi
    /\ phase' = "window"
    /\ UNCHANGED <<disk, opts, turn, out, history>>

OpenWindow ==
    /\ phase = "window"
    /\ phase' = "run"
    /\ UNCHANGED <<disk, pos, mem, opts, turn, out, warm, history>>

(* The cat works: its state, which is in both memories, moves on.          *)
Work ==
    /\ phase = "run"
    /\ version < MaxVersion
    /\ version' = version + 1
    /\ mem' = [f \in Files |-> [b \in 1..Blocks |-> version + 1]]
    /\ states' = states \cup {mem'["ram"]}
    /\ UNCHANGED <<disk, pos, opts, phase, turn, out, warm, saved, cut, together>>

(* The main loop ends, by the window or by the watchdog.                   *)
EndLoop ==
    /\ phase = "run"
    /\ phase' = "save"
    /\ UNCHANGED <<disk, pos, mem, opts, turn, out, warm, history>>

SaveOrderSwapped == <<"ram", "svram">>

SaveOrder == <<"svram", "ram">>

(* rewind before fwrite: the image is written over in place.               *)
StartOfWriteUnrewound(f) == pos[f]

StartOfWrite(f) == IF out = 0 THEN 0 ELSE pos[f]

Overwritten(c, p, v) ==
    IF p < Len(c) THEN [c EXCEPT ![p + 1] = v] ELSE Append(c, v)

WriteBlock(f) ==
    /\ f \in opts /\ out < Blocks
    /\ disk' = [disk EXCEPT ![f] = Overwritten(@, StartOfWrite(f), mem[f][out + 1])]
    /\ pos' = [pos EXCEPT ![f] = StartOfWrite(f) + 1]
    /\ out' = out + 1
    /\ cut' = cut \cup {f}
    /\ UNCHANGED <<phase, turn, saved, together>>

(* On to the other file, or to the end of main.                            *)
NextFile ==
    /\ out' = 0
    /\ IF turn = 1 THEN turn' = 2 /\ UNCHANGED phase
                   ELSE phase' = "off" /\ UNCHANGED turn

CloseFile(f) ==
    /\ IF f \in opts
       THEN /\ out = Blocks
            /\ saved' = [saved EXCEPT ![f] = mem[f]]
            /\ cut' = cut \ {f}
       ELSE UNCHANGED <<saved, cut>>
    /\ NextFile
    /\ UNCHANGED <<disk, pos, together>>

(* "couldn't write": the program says so and goes on.                      *)
WriteFails(f) ==
    /\ WriteErrors
    /\ f \in opts /\ out < Blocks
    /\ NextFile
    /\ together' = FALSE
    /\ UNCHANGED <<disk, pos, saved, cut>>

Save ==
    /\ phase = "save"
    /\ LET f == SaveOrder[turn]
       IN WriteBlock(f) \/ CloseFile(f) \/ WriteFails(f)
    /\ UNCHANGED <<mem, opts, warm, version, states>>

Kill ==
    /\ Kills
    /\ phase # "off"
    /\ phase' = "off"
    /\ UNCHANGED <<disk, pos, mem, opts, turn, out, warm, history>>

Next ==
    \/ Start \/ OpenFiles \/ GiveUp \/ LoadSvram \/ LoadRam \/ OpenWindow
    \/ Work \/ EndLoop \/ Save
    \/ Kill

Spec == Init /\ [][Next]_vars

-----------------------------------------------------------------------------
(* A file holds what the last complete save put in it, or was never saved  *)
(* to, unless a later save has been cut short: no start-up, run, failed    *)
(* start or kill outside of a save costs the user an image.                *)
IntactUnlessCut ==
    \A f \in Files \ cut :
        disk[f] = saved[f] \/ (saved[f] = NoFile /\ disk[f] = <<>>)

(* A full image never becomes a short one, by a kill or a failed write     *)
(* neither: the boots that follow its first complete save are warm.        *)
FullStaysFull ==
    [][\A f \in Files : IsFull(disk[f]) => IsFull(disk'[f])]_vars

(* A warm boot starts from the saved main ram, unless a later save of it   *)
(* has been cut short, whatever the options of the runs between were.      *)
WarmBootRestores ==
    phase = "window" /\ warm /\ "ram" \notin cut => mem["ram"] = saved["ram"]

(* The svram is saved first: as long as both files are used and can be     *)
(* written, no block of the main ram image is newer than any block of the  *)
(* svram image, or there without it, at any point a kill can strike.       *)
RamNotNewer ==
    together /\ disk["ram"] # NoFile =>
        \A b \in DOMAIN disk["ram"], c \in 1..Blocks :
            c \in DOMAIN disk["svram"] /\ disk["ram"][b] <= disk["svram"][c]

(* Help text, kyacopycat.c 311: "the state of the machine will be saved    *)
(* and restored using the warm boot procedure": what a warm boot starts    *)
(* from is a state that the main ram has been in.                          *)
SavedStateRestored ==
    phase = "window" /\ warm => mem["ram"] \in states
=============================================================================
