------------------------------ MODULE DfuWrite ------------------------------
(***************************************************************************)
(* One board from its firmware to its bootloader and back: the magic word    *)
(* that the dfu command leaves in the backup register and the boot that      *)
(* consumes it, and dfu.js writing an image through the ROM bootloader, one  *)
(* transfer at a time, while the cable may be pulled and the bootloader may   *)
(* refuse.  Flash is counted in units; a block carries BlockUnits of them.    *)
(***************************************************************************)
EXTENDS Integers, Sequences, FiniteSets

CONSTANTS
  SectorSizes,      \* the flash map, in units
  BlockUnits,       \* TRANSFER_SIZE
  ImageLengths,     \* lengths of the images that may be written
  MaxFaults         \* transfers and operations that may go wrong

Size == LET end[i \in 0 .. Len(SectorSizes)] ==
              IF i = 0 THEN 0 ELSE end[i - 1] + SectorSizes[i]
        IN  end[Len(SectorSizes)]

ASSUME DfuWriteAssumption ==
  /\ SectorSizes \in Seq(Nat \ {0}) /\ BlockUnits \in Nat \ {0} /\ MaxFaults \in Nat
  /\ ImageLengths \subseteq 1 .. Size

(* What a unit of flash holds: a unit of the image, or one of these.        *)
Old == -1
Blank == -2
Spoilt == -3        \* programmed without having been erased

Units == 0 .. Size - 1

VARIABLES
  board,            \* off, reset, app, crashed, or rom
  magic,            \* whether BKP0R holds kDfuMagic
  owed,             \* history: a dfu command was accepted and not yet served
  flash,            \* unit -> what it holds
  rom,              \* the bootloader: [state, command, address]
  host,             \* dfu.js: [step, waiting, at], at a sector or a block
  length,           \* the image's length
  result,           \* none, done or failed
  faults

vars == <<board, magic, owed, flash, rom, host, length, result, faults>>

Idle == [step |-> "idle", waiting |-> FALSE, at |-> 0]

(* A bootloader that has just been entered reports an error, and its address *)
(* pointer is at the flash's origin or anywhere else.                       *)
Elsewhere == 1

Entered == [state : {"error"}, command : {"none"}, address : {0, Elsewhere}]

Init ==
  /\ board \in {"off", "app", "rom"}
  /\ magic = FALSE /\ owed = FALSE
  /\ flash = [u \in Units |-> Old]
  /\ rom \in Entered
  /\ host = Idle
  /\ length \in ImageLengths
  /\ result = "none"
  /\ faults = 0
-----------------------------------------------------------------------------
(* buildLayout and sectorsFor.                                              *)
SectorStart(i) == LET start[j \in 1 .. Len(SectorSizes)] ==
                        IF j = 1 THEN 0 ELSE start[j - 1] + SectorSizes[j - 1]
                  IN  start[i]

Sector(i) == SectorStart(i) .. SectorStart(i) + SectorSizes[i] - 1

(* Slip: a sector the image only begins to fill is not erased.              *)
SectorsFor_WholeOnly(n) ==
  {i \in 1 .. Len(SectorSizes) : SectorStart(i) + SectorSizes[i] <= n}

(* Slip: an image that ends with a sector costs the one after it.            *)
SectorsFor_OneMore(n) == {i \in 1 .. Len(SectorSizes) : SectorStart(i) <= n}

SectorsFor(n) == {i \in 1 .. Len(SectorSizes) : SectorStart(i) < n}

Blocks(n) == (n + BlockUnits - 1) \div BlockUnits
-----------------------------------------------------------------------------
(* The firmware: the command arms, the answer is flushed, then the reset.    *)
DfuCommand ==
  /\ board = "app"
  /\ magic' = TRUE
  /\ owed' = TRUE
  /\ board' = "reset"
  /\ UNCHANGED <<flash, rom, host, length, result, faults>>

(* Slip: the word stays until the bootloader has been left.                 *)
MagicAfterBoot_Kept == magic

MagicAfterBoot == FALSE

(* dfuJumpOnBoot, before anything else runs.                                *)
JumpOnBoot ==
  /\ board = "reset"
  /\ IF magic
     THEN /\ board' = "rom"
          /\ magic' = MagicAfterBoot
          /\ owed' = FALSE
          /\ rom' \in Entered
     ELSE /\ board' = IF flash[0] \in {Blank, Spoilt} THEN "crashed" ELSE "app"
          /\ UNCHANGED <<magic, owed, rom>>
  /\ UNCHANGED <<flash, host, length, result, faults>>

PressReset ==
  /\ board \notin {"off", "reset"}
  /\ board' = "reset"
  /\ UNCHANGED <<magic, owed, flash, rom, host, length, result, faults>>

PullCable ==
  /\ board # "off"
  /\ board' = "off"
  /\ magic' \in {magic, FALSE}
  /\ UNCHANGED <<owed, flash, rom, host, length, result, faults>>

PowerOn ==
  /\ board = "off"
  /\ board' = "reset"
  /\ UNCHANGED <<magic, owed, flash, rom, host, length, result, faults>>

HoldBoot0 ==
  /\ board \in {"off", "crashed", "app"}
  /\ board' = "rom"
  /\ rom' \in Entered
  /\ UNCHANGED <<magic, owed, flash, host, length, result, faults>>
-----------------------------------------------------------------------------
(* The bootloader: a command is queued by its transfer, taken up by the      *)
(* first status read, and finished in its own time.                         *)
Programmed(block) ==
  LET first == rom.address + block * BlockUnits
      data  == {u \in Units : u >= first /\ u < first + BlockUnits /\ u < rom.address + length}
  IN  [u \in Units |-> CASE u \notin data -> flash[u]
                         [] u \in data /\ flash[u] = Blank -> u - rom.address
                         [] OTHER -> Spoilt]

Erased(i) == [u \in Units |-> IF u \in Sector(i) THEN Blank ELSE flash[u]]

RomFinishes ==
  /\ board = "rom"
  /\ rom.state = "busy"
  /\ rom' = [rom EXCEPT !.state = "idle",
                        !.address = IF rom.command = "address" THEN 0 ELSE @]
  /\ flash' = CASE rom.command = "erase" -> Erased(host.at)
                [] rom.command = "block" -> Programmed(host.at)
                [] OTHER -> flash
  /\ UNCHANGED <<board, magic, owed, host, length, result, faults>>

RomFails ==
  /\ board = "rom"
  /\ rom.state = "busy"
  /\ faults < MaxFaults
  /\ faults' = faults + 1
  /\ rom' = [rom EXCEPT !.state = "error"]
  /\ UNCHANGED <<board, magic, owed, flash, host, length, result>>
-----------------------------------------------------------------------------
(* dfu.js.  open() and the interface; a flash that is over may be repeated.  *)
Start ==
  /\ host.step = "idle"
  /\ board = "rom"
  /\ host' = [Idle EXCEPT !.step = "clear"]
  /\ length' \in ImageLengths
  /\ result' = "none"
  /\ UNCHANGED <<board, magic, owed, flash, rom, faults>>

Answers == board = "rom" /\ UNCHANGED <<board, magic, owed, flash, length, faults>>

(* clearErrorState: what the bootloader answers to it is not looked at.      *)
ClearErrorState ==
  /\ host.step = "clear"
  /\ Answers
  /\ rom' = [rom EXCEPT !.state = "idle"]
  /\ host' = [step |-> "erase", waiting |-> FALSE, at |-> 1]
  /\ UNCHANGED result

Send ==
  /\ host.step \in {"erase", "address", "block"}
  /\ ~host.waiting
  /\ Answers
  /\ rom.state = "idle"
  /\ rom' = [rom EXCEPT !.state = "queued", !.command = host.step]
  /\ host' = [host EXCEPT !.waiting = TRUE]
  /\ UNCHANGED result

(* The first status read of pollUntilIdle sets the bootloader to work.       *)
PollBusy ==
  /\ host.waiting
  /\ Answers
  /\ rom.state = "queued"
  /\ rom' = [rom EXCEPT !.state = "busy"]
  /\ UNCHANGED <<host, result>>

(* Slip: a last block that is not full is left out.                         *)
AfterBlock_WholeBlocks(b) ==
  IF (b + 2) * BlockUnits <= length THEN [host EXCEPT !.waiting = FALSE, !.at = b + 1]
  ELSE [step |-> "leave", waiting |-> FALSE, at |-> 0]

AfterBlock(b) ==
  IF b + 1 < Blocks(length) THEN [host EXCEPT !.waiting = FALSE, !.at = b + 1]
  ELSE [step |-> "leave", waiting |-> FALSE, at |-> 0]

(* Slip: the address pointer is not set, and the first block goes wherever   *)
(* it was.                                                                  *)
AfterErase_NoAddress(i) ==
  IF i + 1 \in SectorsFor(length) THEN [host EXCEPT !.waiting = FALSE, !.at = i + 1]
  ELSE [step |-> "block", waiting |-> FALSE, at |-> 0]

AfterErase(i) ==
  IF i + 1 \in SectorsFor(length) THEN [host EXCEPT !.waiting = FALSE, !.at = i + 1]
  ELSE [step |-> "address", waiting |-> FALSE, at |-> 0]

PollIdle ==
  /\ host.waiting
  /\ Answers
  /\ rom.state = "idle"
  /\ host' = CASE host.step = "erase"   -> AfterErase(host.at)
               [] host.step = "address" -> [step |-> "block", waiting |-> FALSE, at |-> 0]
               [] host.step = "block"   -> AfterBlock(host.at)
  /\ UNCHANGED <<rom, result>>

(* Slip: an error ends the polling like any other idle state.               *)
Rejected_Unseen == board # "rom"

(* A transfer that is not answered, or a status that is an error, throws.    *)
Rejected == board # "rom" \/ (host.waiting /\ rom.state = "error")

Close(outcome) ==
  /\ host' = Idle
  /\ result' = outcome

Throw ==
  /\ host.step \in {"clear", "erase", "address", "block"}
  /\ Rejected
  /\ Close("failed")
  /\ UNCHANGED <<board, magic, owed, flash, rom, length, faults>>

(* A download whose status is not ok: the bootloader is not ready for it.    *)
Stall ==
  /\ host.step \in {"erase", "address", "block"}
  /\ ~host.waiting
  /\ board = "rom" /\ rom.state # "idle"
  /\ Close("failed")
  /\ UNCHANGED <<board, magic, owed, flash, rom, length, faults>>

(* Manifest and leave: answered or not, the flash is done.                   *)
Leave ==
  /\ host.step = "leave"
  /\ Close("done")
  /\ board' = IF board = "rom" THEN "reset" ELSE board
  /\ UNCHANGED <<magic, owed, flash, rom, length, faults>>

Rom == RomFinishes \/ RomFails

Host == \/ ClearErrorState \/ Send \/ PollBusy \/ PollIdle \/ Throw \/ Stall \/ Leave

Next == \/ DfuCommand \/ JumpOnBoot \/ PressReset \/ PullCable \/ PowerOn \/ HoldBoot0
        \/ Start \/ Rom \/ Host

(* The bootloader finishes what it took up, and transfers end.               *)
Fairness == WF_vars(Rom) /\ WF_vars(Host)

Spec == Init /\ [][Next]_vars /\ Fairness
-----------------------------------------------------------------------------
TypeOK ==
  /\ board \in {"off", "reset", "app", "crashed", "rom"}
  /\ flash \in [Units -> Units \cup {Old, Blank, Spoilt}]
  /\ rom.state \in {"idle", "queued", "busy", "error"}
  /\ host.step = "erase" => host.at \in SectorsFor(length)
  /\ host.step = "block" => host.at \in 0 .. Blocks(length) - 1
  /\ faults \in 0 .. MaxFaults

(* "flash complete": every unit of the image is where it belongs.            *)
DoneIsWholeImage ==
  result = "done" => \A u \in 0 .. length - 1 : flash[u] = u

(* Nothing is ever programmed that was not erased first.                    *)
NothingSpoilt == \A u \in Units : flash[u] # Spoilt

(* sectorsFor: a sector in which no unit of the image belongs keeps what it  *)
(* holds through every step of a write, however it ends.                    *)
OnlyItsSectors ==
  [][\A i \in 1 .. Len(SectorSizes) :
       Sector(i) \cap (0 .. length - 1) = {} =>
         \A u \in Sector(i) : flash'[u] = flash[u]]_vars

(* dfu.cpp: a board that was asked once enters the bootloader once; the next *)
(* reset is the application's.                                              *)
MagicIsAsked == magic => owed

(* A flash ends, in success or in failure.                                  *)
FlashEnds == host.step # "idle" ~> host.step = "idle"
=============================================================================
