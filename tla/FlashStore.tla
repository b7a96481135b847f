------------------------------ MODULE FlashStore ------------------------------
(***************************************************************************)
(* Settings on the device: core::Params in RAM, the dispatcher's set, save, *)
(* defaults and revert, FlashStore's image in emulated EEPROM, and boot.    *)
(* A save erases the page and then programs it cell by cell, header first;  *)
(* power may go at any point, and a new build may be flashed while it is    *)
(* off.  The CRC is taken to tell any two payloads apart, so the header     *)
(* carries the payload it was computed from.                               *)
(***************************************************************************)
EXTENDS Sequences, Naturals

CONSTANTS
  Builds,           \* firmware builds: their parameter tables differ
  Layout,           \* build -> sequence of parameter keys
  Accepts,            \* build -> key -> values its descriptor accepts
  Default,          \* build -> key -> its default
  AnyValue,         \* what a client may send
  MaxCells,         \* cells of the EEPROM page after the header
  Blank,            \* an erased cell
  Nothing,
  Faults            \* whether a cell may fail to program

Keys(b) == {Layout[b][i] : i \in 1 .. Len(Layout[b])}

SettingsOf == [b \in Builds |->
  {s \in [Keys(b) -> AnyValue] : \A k \in Keys(b) : s[k] \in Accepts[b][k]}]

(* Registry::fingerprint hashes keys, types and bounds, in order.           *)
PrintOf == [b \in Builds |->
  [i \in 1 .. Len(Layout[b]) |-> <<Layout[b][i], Accepts[b][Layout[b][i]]>>]]

Payload(b, settings) == [i \in 1 .. Len(Layout[b]) |-> settings[Layout[b][i]]]

ASSUME FlashStoreAssumption ==
  /\ MaxCells \in Nat
  /\ \A b \in Builds : /\ Layout[b] \in Seq(STRING)
                        /\ Len(Layout[b]) <= MaxCells
                        /\ Default[b] \in SettingsOf[b]
  /\ \A b \in Builds : \A s \in SettingsOf[b] :
       /\ [print |-> PrintOf[b], crc |-> Payload(b, s)] # Blank
       /\ [print |-> PrintOf[b], settings |-> s] # Nothing
  /\ Blank \notin AnyValue
  /\ Faults \in BOOLEAN

VARIABLES
  build,            \* the firmware on the board
  power,            \* off, up, or inside a save: programming, verifying
  ram,              \* Params::v_
  header,           \* Blank, or [print, crc]
  cells,            \* the payload of the page
  programmed,       \* cells of the page written by the save under way
  acked             \* history: what the last answered save stored

vars == <<build, power, ram, header, cells, programmed, acked>>

ErasedPage == [i \in 1 .. MaxCells |-> Blank]

Init ==
  /\ build \in Builds
  /\ power = "off"
  /\ ram = Default[build]
  /\ header = Blank
  /\ cells = ErasedPage
  /\ programmed = 0
  /\ acked = Nothing
-----------------------------------------------------------------------------
(* FlashStore::load: print, then CRC, then the payload as it lies.          *)
StoredPayload(b) == [i \in 1 .. Len(Layout[b]) |-> cells[i]]

(* Slip: the payload is taken on the strength of the header alone.          *)
Loadable_NoCrc(b) ==
  /\ header # Blank
  /\ header.print = PrintOf[b]

Loadable(b) ==
  /\ header # Blank
  /\ header.print = PrintOf[b]
  /\ header.crc = StoredPayload(b)

Load(b) == [k \in Keys(b) |->
  StoredPayload(b)[CHOOSE i \in 1 .. Len(Layout[b]) : Layout[b][i] = k]]

LoadOrDefaults(b) == IF Loadable(b) THEN Load(b) ELSE Default[b]

(* Slip: the value is stored unchecked.                                     *)
SetNum_Unchecked(k, v) == [ram EXCEPT ![k] = v]

(* Params::setNum and setStr: refused, never truncated.                     *)
SetNum(k, v) == IF v \in Accepts[build][k] THEN [ram EXCEPT ![k] = v] ELSE ram
-----------------------------------------------------------------------------
Boot ==
  /\ power = "off"
  /\ ram' = LoadOrDefaults(build)
  /\ power' = "up"
  /\ UNCHANGED <<build, header, cells, programmed, acked>>

Set ==
  /\ power = "up"
  /\ \E k \in Keys(build), v \in AnyValue : ram' = SetNum(k, v)
  /\ UNCHANGED <<build, power, header, cells, programmed, acked>>

Defaults ==
  /\ power = "up"
  /\ ram' = Default[build]
  /\ UNCHANGED <<build, power, header, cells, programmed, acked>>

Revert ==
  /\ power = "up"
  /\ ram' = LoadOrDefaults(build)
  /\ UNCHANGED <<build, power, header, cells, programmed, acked>>

(* Save: the page is erased, programmed from its start, and its header read *)
(* back.  The client hears ok when the header is the one just written.      *)
NewHeader == [print |-> PrintOf[build], crc |-> Payload(build, ram)]

Erase ==
  /\ power = "up"
  /\ power' = "programming"
  /\ header' = Blank
  /\ cells' = ErasedPage
  /\ programmed' = 0
  /\ acked' = Nothing
  /\ UNCHANGED <<build, ram>>

ProgramHeader ==
  /\ power = "programming"
  /\ programmed = 0
  /\ header' \in {NewHeader} \cup (IF Faults THEN {Blank} ELSE {})
  /\ programmed' = 1
  /\ UNCHANGED <<build, power, ram, cells, acked>>

ProgramCell ==
  /\ power = "programming"
  /\ programmed \in 1 .. Len(Layout[build])
  /\ \E written \in {Payload(build, ram)[programmed]} \cup (IF Faults THEN {Blank} ELSE {}) :
       cells' = [cells EXCEPT ![programmed] = written]
  /\ programmed' = programmed + 1
  /\ UNCHANGED <<build, power, ram, header, acked>>

Verify ==
  /\ power = "programming"
  /\ programmed = Len(Layout[build]) + 1
  /\ acked' = IF header = NewHeader
              THEN [print |-> PrintOf[build], settings |-> ram] ELSE Nothing
  /\ power' = "up"
  /\ programmed' = 0
  /\ UNCHANGED <<build, ram, header, cells>>

PowerCut ==
  /\ power # "off"
  /\ power' = "off"
  /\ programmed' = 0
  /\ UNCHANGED <<build, ram, header, cells, acked>>

(* The page lies outside the image a new build is flashed into.             *)
Reflash ==
  /\ power = "off"
  /\ build' \in Builds
  /\ ram' = Default[build']
  /\ UNCHANGED <<power, header, cells, programmed, acked>>

Next == \/ Boot \/ Set \/ Defaults \/ Revert
        \/ Erase \/ ProgramHeader \/ ProgramCell \/ Verify
        \/ PowerCut \/ Reflash

Spec == Init /\ [][Next]_vars
-----------------------------------------------------------------------------
(* Nothing reaches RAM that this build's descriptors would refuse, whatever  *)
(* build wrote the page and wherever its save was cut.                     *)
TypeOK ==
  /\ build \in Builds
  /\ power \in {"off", "up", "programming"}
  /\ ram \in SettingsOf[build]
  /\ programmed \in 0 .. MaxCells + 1
  /\ cells \in [1 .. MaxCells -> AnyValue \cup {Blank}]

(* The image in the page, for the build whose layout it carries.            *)
StoredImage ==
  LET readers == {b \in Builds : Loadable(b)}
  IN  IF readers = {} THEN Nothing
      ELSE LET b == CHOOSE b \in readers : TRUE
           IN  [print |-> PrintOf[b], settings |-> Load(b)]

Promise ==
  INSTANCE SettingsStore WITH
    stored  <- StoredImage,
    Factory <- Default,
    ram     <- IF power = "off" THEN LoadOrDefaults(build) ELSE ram

(* A save is all or nothing and an acknowledged one is there, whatever cut   *)
(* or flashed in between: what SettingsStore promises.                     *)
ImplementsSettingsStore == Promise!Spec

(* docs/development/protocol.md: `flash` answers a save whose read-back did  *)
(* not match, so ok means the settings are in flash.                       *)
AckedIsStored == acked # Nothing => StoredImage = acked
=============================================================================
