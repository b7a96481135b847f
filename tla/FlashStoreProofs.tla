--------------------------- MODULE FlashStoreProofs ---------------------------
(***************************************************************************)
(* FlashStore implements SettingsStore for every set of builds, whatever    *)
(* their layouts, as long as every cell of a save programs.  The inductive  *)
(* invariant says where a header comes from, and how far the page agrees    *)
(* with the RAM while a save is under way.                                  *)
(*                                                                         *)
(* The second part is the other thing a boot fills: the registry whose       *)
(* layout a save follows.  Its tables are shared out without a gap or an     *)
(* overlap, and a module that found no room is told in the boot log.         *)
(***************************************************************************)
EXTENDS FlashStore, Registry, TLAPS

USE DEF Loadable, Load, StoredPayload

-----------------------------------------------------------------------------
(* Two builds with one fingerprint have one layout.                         *)
LEMMA SamePrint ==
  ASSUME NEW b \in Builds, NEW c \in Builds, PrintOf[b] = PrintOf[c]
  PROVE  /\ Layout[b] = Layout[c]
         /\ Keys(b) = Keys(c)
         /\ SettingsOf[b] = SettingsOf[c]
<1>1. /\ Layout[b] \in Seq(STRING) /\ Layout[c] \in Seq(STRING)
      /\ Len(Layout[b]) \in Nat /\ Len(Layout[c]) \in Nat
  BY FlashStoreAssumption
<1> DEFINE P(x) == [i \in 1 .. Len(Layout[x]) |-> <<Layout[x][i], Accepts[x][Layout[x][i]]>>]
<1>2. P(b) = P(c)
  BY DEF PrintOf
<1>3. 1 .. Len(Layout[b]) = 1 .. Len(Layout[c])
  BY <1>2
<1>4. Len(Layout[b]) = Len(Layout[c])
  BY <1>1, <1>3
<1>5. \A i \in 1 .. Len(Layout[b]) : /\ Layout[b][i] = Layout[c][i]
                                    /\ Accepts[b][Layout[b][i]] = Accepts[c][Layout[b][i]]
  <2> SUFFICES ASSUME NEW i \in 1 .. Len(Layout[b])
               PROVE  /\ Layout[b][i] = Layout[c][i]
                      /\ Accepts[b][Layout[b][i]] = Accepts[c][Layout[b][i]]
    OBVIOUS
  <2>1. P(b)[i] = P(c)[i]
    BY <1>2
  <2>2. P(b)[i] = <<Layout[b][i], Accepts[b][Layout[b][i]]>>
    OBVIOUS
  <2>3. P(c)[i] = <<Layout[c][i], Accepts[c][Layout[c][i]]>>
    BY <1>3
  <2>4. <<Layout[b][i], Accepts[b][Layout[b][i]]>> = <<Layout[c][i], Accepts[c][Layout[c][i]]>>
    BY <2>1, <2>2, <2>3
  <2>5. Layout[b][i] = Layout[c][i] /\ Accepts[b][Layout[b][i]] = Accepts[c][Layout[c][i]]
    BY <2>4
  <2> QED BY <2>5
<1>6. Layout[b] = Layout[c]
  BY <1>1, <1>4, <1>5
<1>7. Keys(b) = Keys(c)
  BY <1>6 DEF Keys
<1>8. \A k \in Keys(b) : Accepts[b][k] = Accepts[c][k]
  BY <1>5 DEF Keys
<1>9. SettingsOf[b] = SettingsOf[c]
  BY <1>7, <1>8 DEF SettingsOf
<1> QED BY <1>6, <1>7, <1>9

(* The page read back under the layout it was written with gives the        *)
(* settings it was written from.                                           *)
LEMMA PayloadReadsBack ==
  ASSUME NEW b \in Builds, NEW s \in SettingsOf[b], StoredPayload(b) = Payload(b, s)
  PROVE  Load(b) = s
<1>1. \A k \in Keys(b) : Load(b)[k] = s[k]
  <2> SUFFICES ASSUME NEW k \in Keys(b) PROVE Load(b)[k] = s[k]
    OBVIOUS
  <2> DEFINE at == CHOOSE i \in 1 .. Len(Layout[b]) : Layout[b][i] = k
  <2>1. at \in 1 .. Len(Layout[b]) /\ Layout[b][at] = k
    <3>1. \E i \in 1 .. Len(Layout[b]) : Layout[b][i] = k
      BY DEF Keys
    <3> QED BY <3>1
  <2>2. Load(b)[k] = StoredPayload(b)[at]
    OBVIOUS
  <2> HIDE DEF at
  <2>3. Payload(b, s)[at] = s[k]
    BY <2>1 DEF Payload
  <2> QED BY <2>2, <2>3
<1>2. s = [k \in Keys(b) |-> s[k]]
  BY DEF SettingsOf
<1>3. Load(b) = [k \in Keys(b) |-> Load(b)[k]]
  OBVIOUS
<1> HIDE DEF Load
<1> QED BY <1>1, <1>2, <1>3
-----------------------------------------------------------------------------
(* Every header in the page was written by some build for settings it       *)
(* accepts, its payload's CRC among them.                                  *)
HeaderHonest ==
  header # Blank =>
    \E b \in Builds : \E s \in SettingsOf[b] :
      header = [print |-> PrintOf[b], crc |-> Payload(b, s)]

(* While a save is under way its client has no answer yet, and the part of  *)
(* the page already programmed is the RAM's.                               *)
SaveInOrder ==
  power = "programming" =>
    /\ acked = Nothing
    /\ programmed <= Len(Layout[build]) + 1
    /\ programmed = 0 => header = Blank
    /\ programmed # 0 =>
         /\ header = NewHeader
         /\ \A i \in 1 .. programmed - 1 : cells[i] = Payload(build, ram)[i]

TypeInv == TypeOK /\ HeaderHonest

StoreInv == TypeInv /\ SaveInOrder

(* What a readable page holds, by the build that reads it.                  *)
LEMMA LoadableHolds ==
  ASSUME HeaderHonest, NEW b \in Builds, Loadable(b)
  PROVE  Load(b) \in SettingsOf[b]
<1>0. PICK c \in Builds :
        \E s \in SettingsOf[c] : header = [print |-> PrintOf[c], crc |-> Payload(c, s)]
  BY DEF HeaderHonest
<1>1. PICK s \in SettingsOf[c] : header = [print |-> PrintOf[c], crc |-> Payload(c, s)]
  BY <1>0
<1>2. PrintOf[b] = PrintOf[c] /\ StoredPayload(b) = Payload(c, s)
  BY <1>1
<1>3. Layout[b] = Layout[c] /\ SettingsOf[b] = SettingsOf[c]
  BY <1>2, SamePrint
<1>4. StoredPayload(b) = Payload(b, s)
  BY <1>2, <1>3 DEF Payload
<1>5. Load(b) = s
  BY <1>3, <1>4, PayloadReadsBack
<1> QED BY <1>3, <1>5

LEMMA RestoresAccepted ==
  ASSUME HeaderHonest, NEW b \in Builds
  PROVE  LoadOrDefaults(b) \in SettingsOf[b]
<1> HIDE DEF Loadable, Load
<1> QED BY LoadableHolds, FlashStoreAssumption DEF LoadOrDefaults

(* A set leaves settings the build accepts.                                 *)
LEMMA SetNumAccepted ==
  ASSUME NEW b \in Builds, build = b, ram \in SettingsOf[b],
         NEW k \in Keys(b), NEW v \in AnyValue
  PROVE  SetNum(k, v) \in SettingsOf[b]
BY DEF SetNum, SettingsOf
-----------------------------------------------------------------------------
LEMMA InitTypeInv == Init => StoreInv
BY FlashStoreAssumption
   DEF Init, StoreInv, TypeInv, TypeOK, HeaderHonest, SaveInOrder, ErasedPage

(* The two kinds of fact no step but a save's disturbs.                     *)
LEMMA PageKept ==
  ASSUME TypeInv, UNCHANGED <<header, cells, programmed>>,
         build' \in Builds, power' \in {"off", "up", "programming"},
         ram' \in SettingsOf[build']
  PROVE  TypeInv'
BY DEF TypeInv, TypeOK, HeaderHonest

LEMMA NextTypeInv ==
  ASSUME TypeInv, [Next]_vars
  PROVE  TypeInv'
<1> USE DEF TypeInv
<1> HIDE DEF Loadable, Load
<1>0. /\ build \in Builds /\ ram \in SettingsOf[build] /\ HeaderHonest
      /\ programmed \in 0 .. MaxCells + 1 /\ MaxCells \in Nat
      /\ Len(Layout[build]) \in Nat /\ Len(Layout[build]) <= MaxCells
  BY FlashStoreAssumption DEF TypeOK
<1>1. CASE Boot
  BY <1>0, <1>1, RestoresAccepted, PageKept DEF Boot
<1>2. CASE Set
  <2>1. PICK k \in Keys(build), v \in AnyValue : ram' = SetNum(k, v)
    BY <1>2 DEF Set
  <2>2. ram' \in SettingsOf[build]
    BY <1>0, <2>1, SetNumAccepted
  <2> QED BY <1>0, <1>2, <2>2, PageKept DEF Set
<1>3. CASE Defaults
  BY <1>0, <1>3, FlashStoreAssumption, PageKept DEF Defaults
<1>4. CASE Revert
  BY <1>0, <1>4, RestoresAccepted, PageKept DEF Revert
<1>5. CASE Erase
  BY <1>0, <1>5 DEF Erase, TypeOK, HeaderHonest, ErasedPage
<1>6. CASE ProgramHeader
  <2>1. header' \in {NewHeader, Blank}
    BY <1>6 DEF ProgramHeader
  <2>2. HeaderHonest'
    BY <1>0, <2>1 DEF HeaderHonest, NewHeader
  <2>3. TypeOK'
    BY <1>0, <1>6 DEF ProgramHeader, TypeOK
  <2> QED BY <2>2, <2>3
<1>7. CASE ProgramCell
  <2>1. Payload(build, ram)[programmed] \in AnyValue
    BY <1>0, <1>7 DEF ProgramCell, Payload, SettingsOf, Keys
  <2>2. PICK written \in AnyValue \cup {Blank} : cells' = [cells EXCEPT ![programmed] = written]
    BY <1>7, <2>1 DEF ProgramCell
  <2>3. TypeOK'
    BY <1>0, <1>7, <2>2 DEF ProgramCell, TypeOK
  <2>4. HeaderHonest'
    BY <1>0, <1>7 DEF ProgramCell, HeaderHonest
  <2> QED BY <2>3, <2>4
<1>8. CASE Verify
  BY <1>0, <1>8 DEF Verify, TypeOK, HeaderHonest
<1>9. CASE PowerCut
  BY <1>0, <1>9 DEF PowerCut, TypeOK, HeaderHonest
<1>10. CASE Reflash
  BY <1>0, <1>10, FlashStoreAssumption, PageKept DEF Reflash, TypeOK
<1>11. CASE UNCHANGED vars
  BY <1>0, <1>11, PageKept DEF vars, TypeOK
<1> QED BY <1>1, <1>2, <1>3, <1>4, <1>5, <1>6, <1>7, <1>8, <1>9, <1>10, <1>11 DEF Next

(* Whatever build wrote the page and wherever its save was cut, and even if *)
(* cells fail to program, no value reaches RAM that the build on the board  *)
(* would refuse: FlashStore::load and Params::setNum.                      *)
THEOREM SettingsAccepted == Spec => []TypeOK
<1>1. Init => TypeInv
  BY InitTypeInv DEF StoreInv
<1>2. TypeInv /\ [Next]_vars => TypeInv'
  BY NextTypeInv
<1>3. TypeInv => TypeOK
  BY DEF TypeInv
<1> QED BY <1>1, <1>2, <1>3, PTL DEF Spec
-----------------------------------------------------------------------------
(* A save programs in order, so what it has programmed is the RAM's: this   *)
(* is what makes its header true once the last cell is in.                 *)
LEMMA NextSaveInOrder ==
  ASSUME Faults = FALSE, StoreInv, [Next]_vars
  PROVE  SaveInOrder'
<1> HIDE DEF Loadable, Load
<1>0. /\ programmed \in Nat /\ Len(Layout[build]) \in Nat /\ SaveInOrder
      /\ Len(Layout[build]) <= MaxCells /\ cells \in [1 .. MaxCells -> AnyValue \cup {Blank}]
      /\ MaxCells \in Nat
  BY FlashStoreAssumption DEF StoreInv, TypeInv, TypeOK
<1>1. CASE \/ Boot \/ Set \/ Defaults \/ Revert \/ Verify \/ PowerCut \/ Reflash
  <2>1. power' # "programming"
    BY <1>1 DEF Boot, Set, Defaults, Revert, Verify, PowerCut, Reflash
  <2> QED BY <2>1 DEF SaveInOrder
<1>2. CASE Erase
  BY <1>0, <1>2 DEF Erase, SaveInOrder
<1>3. CASE ProgramHeader
  BY <1>0, <1>3 DEF ProgramHeader, SaveInOrder, NewHeader
<1>4. CASE ProgramCell
  <2>1. cells' = [cells EXCEPT ![programmed] = Payload(build, ram)[programmed]]
    BY <1>4 DEF ProgramCell
  <2>2. programmed \in 1 .. MaxCells /\ programmed' = programmed + 1
    BY <1>0, <1>4 DEF ProgramCell
  <2>3. \A i \in 1 .. programmed' - 1 : cells'[i] = Payload(build, ram)[i]
    BY <1>0, <1>4, <2>1, <2>2 DEF ProgramCell, SaveInOrder
  <2>4. UNCHANGED <<build, ram, header, acked, power>> /\ header = NewHeader
    BY <1>0, <1>4, <2>2 DEF ProgramCell, SaveInOrder
  <2> QED BY <1>0, <1>4, <2>2, <2>3, <2>4 DEF ProgramCell, SaveInOrder, NewHeader
<1>5. CASE UNCHANGED vars
  BY <1>0, <1>5 DEF vars, SaveInOrder, NewHeader
<1> QED BY <1>1, <1>2, <1>3, <1>4, <1>5 DEF Next

-----------------------------------------------------------------------------
(* The stored image, without the choice of a reader.                        *)
ImageFacts ==
  /\ (\A b \in Builds : ~Loadable(b)) => StoredImage = Nothing
  /\ \A b \in Builds : Loadable(b) =>
       StoredImage = [print |-> PrintOf[b], settings |-> Load(b)]

LEMMA StoredIs == ImageFacts
<1>1. ASSUME \A b \in Builds : ~Loadable(b) PROVE StoredImage = Nothing
  <2> HIDE DEF Loadable, Load
  <2> QED BY <1>1 DEF StoredImage
<1>2. ASSUME NEW b \in Builds, Loadable(b)
      PROVE  StoredImage = [print |-> PrintOf[b], settings |-> Load(b)]
  <2> DEFINE readers == {x \in Builds : Loadable(x)}
             c == CHOOSE x \in readers : TRUE
  <2>1. c \in readers
    BY <1>2
  <2>2. StoredImage = [print |-> PrintOf[c], settings |-> Load(c)]
    <3> HIDE DEF Loadable, Load
    <3> QED BY <1>2 DEF StoredImage
  <2> HIDE DEF c
  <2>3. PrintOf[c] = PrintOf[b]
    BY <1>2, <2>1
  <2>4. Layout[b] = Layout[c] /\ Keys(b) = Keys(c)
    BY <2>1, <2>3, SamePrint
  <2>5. Load(c) = Load(b)
    BY <2>4
  <2> QED BY <2>2, <2>3, <2>5
<1> HIDE DEF Loadable, Load
<1> QED BY <1>1, <1>2 DEF ImageFacts

(* The page is all the image depends on.                                    *)
LEMMA SameImage ==
  ASSUME UNCHANGED <<header, cells>>
  PROVE  StoredImage' = StoredImage
<1>1. \A b \in Builds : Loadable(b)' = Loadable(b) /\ Load(b)' = Load(b)
  OBVIOUS
<1> HIDE DEF Loadable, Load
<1>2. ImageFacts'
  BY StoredIs, PTL
<1> QED BY <1>1, <1>2, StoredIs DEF ImageFacts

(* A boot and a revert bring back what the abstract store promises.         *)
LEMMA BringsBack ==
  ASSUME HeaderHonest, NEW b \in Builds
  PROVE  LoadOrDefaults(b) = Promise!Restored(b, StoredImage)
<1>1. CASE Loadable(b)
  <2>1. StoredImage = [print |-> PrintOf[b], settings |-> Load(b)]
    BY <1>1, StoredIs DEF ImageFacts
  <2>2. Load(b) \in SettingsOf[b]
    BY <1>1, LoadableHolds
  <2>3. StoredImage # Nothing
    BY <2>1, <2>2, FlashStoreAssumption
  <2> HIDE DEF Loadable, Load
  <2> QED BY <1>1, <2>1, <2>3 DEF LoadOrDefaults, Promise!Restored
<1>2. CASE ~Loadable(b) /\ \A c \in Builds : ~Loadable(c)
  <2> HIDE DEF Loadable, Load
  <2> QED BY <1>2, StoredIs DEF ImageFacts, LoadOrDefaults, Promise!Restored
<1>3. ASSUME ~Loadable(b), NEW c \in Builds, Loadable(c)
      PROVE  LoadOrDefaults(b) = Promise!Restored(b, StoredImage)
  <2>1. StoredImage = [print |-> PrintOf[c], settings |-> Load(c)]
    BY <1>3, StoredIs DEF ImageFacts
  <2>2. PrintOf[c] # PrintOf[b]
    BY <1>3, SamePrint
  <2> HIDE DEF Loadable, Load
  <2> QED BY <1>3, <2>1, <2>2 DEF LoadOrDefaults, Promise!Restored
<1> HIDE DEF Loadable, Load
<1> QED BY <1>1, <1>2, <1>3

(* Inside a save the page holds the RAM's image or none ...                 *)
LEMMA HalfSaved ==
  ASSUME StoreInv, power = "programming"
  PROVE  StoredImage \in {Nothing, Promise!Image(build, ram)}
<1>1. CASE \A c \in Builds : ~Loadable(c)
  <2> HIDE DEF Loadable, Load
  <2> QED BY <1>1, StoredIs DEF ImageFacts
<1>2. ASSUME NEW c \in Builds, Loadable(c)
      PROVE  StoredImage = Promise!Image(build, ram)
  <2>1. build \in Builds /\ ram \in SettingsOf[build]
    BY DEF StoreInv, TypeInv, TypeOK
  <2>2. header = NewHeader
    BY <1>2 DEF StoreInv, SaveInOrder
  <2>3. PrintOf[c] = PrintOf[build] /\ StoredPayload(c) = Payload(build, ram)
    BY <1>2, <2>2 DEF NewHeader
  <2>4. Layout[c] = Layout[build]
    BY <2>1, <2>3, SamePrint
  <2>5. StoredPayload(build) = Payload(build, ram)
    BY <2>3, <2>4
  <2>6. Loadable(build) /\ Load(build) = ram
    BY <1>2, <2>1, <2>2, <2>5, PayloadReadsBack DEF NewHeader
  <2> HIDE DEF Loadable, Load
  <2> QED BY <2>1, <2>6, StoredIs DEF ImageFacts, Promise!Image
<1> HIDE DEF Loadable, Load
<1> QED BY <1>1, <1>2

(* ... and the RAM's once every cell is in.                                 *)
LEMMA WholeSaved ==
  ASSUME StoreInv, power = "programming", programmed = Len(Layout[build]) + 1
  PROVE  header = NewHeader /\ StoredImage = Promise!Image(build, ram)
<1>1. /\ build \in Builds /\ ram \in SettingsOf[build]
      /\ Len(Layout[build]) \in Nat
  BY FlashStoreAssumption DEF StoreInv, TypeInv, TypeOK
<1>2. /\ header = NewHeader
      /\ \A i \in 1 .. Len(Layout[build]) : cells[i] = Payload(build, ram)[i]
  BY <1>1 DEF StoreInv, SaveInOrder
<1>3. StoredPayload(build) = Payload(build, ram)
  BY <1>2 DEF Payload
<1>4. header # Blank
  BY <1>1, <1>2, FlashStoreAssumption DEF NewHeader
<1>5. Loadable(build) /\ Load(build) = ram
  BY <1>1, <1>2, <1>3, <1>4, PayloadReadsBack DEF NewHeader
<1> HIDE DEF Loadable, Load
<1> QED BY <1>1, <1>2, <1>5, StoredIs DEF ImageFacts, Promise!Image

(* Every step of the device is a step of the promise, or none: an erase     *)
(* forgets, the last cell keeps, the answer acknowledges.                  *)
LEMMA StepImplements ==
  ASSUME Faults = FALSE, StoreInv, StoreInv', [Next]_vars
  PROVE  [Promise!Next]_(Promise!vars)
<1> HIDE DEF Loadable, Load
<1>0. /\ build \in Builds /\ build' \in Builds /\ HeaderHonest
      /\ power \in {"off", "up", "programming"}
      /\ ram' \in SettingsOf[build'] /\ SaveInOrder
  BY DEF StoreInv, TypeInv, TypeOK
<1> DEFINE Seen == IF power = "off" THEN LoadOrDefaults(build) ELSE ram
<1>1. CASE Boot
  <2>1. Seen' = Seen /\ UNCHANGED <<build, acked, StoredImage>>
    BY <1>1, SameImage DEF Boot
  <2> QED BY <2>1 DEF Promise!vars
<1>2. CASE Set \/ Defaults
  <2>1. Seen' = ram' /\ UNCHANGED <<build, acked, StoredImage>>
    BY <1>2, SameImage DEF Set, Defaults
  <2> QED BY <1>0, <2>1 DEF Promise!Next, Promise!Edit
<1>3. CASE Revert
  <2>1. Seen' = LoadOrDefaults(build) /\ UNCHANGED <<build, acked, StoredImage>>
    BY <1>3, SameImage DEF Revert
  <2>2. Seen' = Promise!Restored(build', StoredImage)
    BY <1>0, <2>1, BringsBack
  <2> QED BY <1>0, <2>1, <2>2 DEF Promise!Next, Promise!Restart
<1>4. CASE Erase
  <2>1. \A b \in Builds : ~Loadable(b)'
    BY <1>4 DEF Erase, Loadable
  <2>2. ImageFacts'
    BY StoredIs, PTL
  <2>3. StoredImage' = Nothing
    BY <2>1, <2>2 DEF ImageFacts
  <2>4. Seen' = Seen /\ build' = build /\ acked' = Nothing
    BY <1>4 DEF Erase
  <2> QED BY <2>3, <2>4 DEF Promise!Next, Promise!Forget
<1>5. CASE ProgramHeader \/ ProgramCell
  <2>1. /\ power = "programming" /\ power' = "programming"
        /\ UNCHANGED <<build, ram, acked>> /\ acked = Nothing
    BY <1>0, <1>5 DEF ProgramHeader, ProgramCell, SaveInOrder
  <2>2. Seen = ram /\ Seen' = Seen
    BY <2>1
  <2>3. (StoreInv /\ power = "programming"
           => StoredImage \in {Nothing, Promise!Image(build, ram)})'
    BY HalfSaved, PTL
  <2>4. StoredImage' = Nothing \/ StoredImage' = Promise!Image(build, ram)
    BY <2>1, <2>3 DEF Promise!Image
  <2>5. CASE StoredImage' = Nothing
    BY <2>1, <2>2, <2>5 DEF Promise!Next, Promise!Forget
  <2>6. CASE StoredImage' = Promise!Image(build, ram)
    BY <2>1, <2>2, <2>6 DEF Promise!Next, Promise!Keep
  <2> QED BY <2>4, <2>5, <2>6
<1>6. CASE Verify
  <2>1. /\ power = "programming" /\ programmed = Len(Layout[build]) + 1
        /\ UNCHANGED <<build, ram, StoredImage>> /\ Seen = ram /\ Seen' = Seen
    BY <1>6, SameImage DEF Verify
  <2>2. header = NewHeader /\ StoredImage = Promise!Image(build, ram)
    BY <2>1, WholeSaved
  <2>3. acked' = Promise!Image(build, ram)
    BY <1>6, <2>2 DEF Verify, Promise!Image
  <2> QED BY <2>1, <2>2, <2>3 DEF Promise!Next, Promise!Acknowledge
<1>7. CASE PowerCut
  <2>1. Seen' = LoadOrDefaults(build) /\ UNCHANGED <<build, acked, StoredImage>>
    BY <1>7, SameImage DEF PowerCut, LoadOrDefaults, Loadable, Load
  <2>2. Seen' = Promise!Restored(build', StoredImage)
    BY <1>0, <2>1, BringsBack
  <2> QED BY <1>0, <2>1, <2>2 DEF Promise!Next, Promise!Restart
<1>8. CASE Reflash
  <2>1. Seen' = LoadOrDefaults(build') /\ UNCHANGED <<acked, StoredImage>>
    BY <1>8, SameImage DEF Reflash, LoadOrDefaults, Loadable, Load
  <2>2. Seen' = Promise!Restored(build', StoredImage)
    BY <1>0, <2>1, BringsBack
  <2> QED BY <1>0, <2>1, <2>2 DEF Promise!Next, Promise!Restart
<1>9. CASE UNCHANGED vars
  <2>1. Seen' = Seen /\ UNCHANGED <<build, acked, StoredImage>>
    BY <1>9, SameImage DEF vars, LoadOrDefaults, Loadable, Load
  <2> QED BY <2>1 DEF Promise!vars
<1> QED BY <1>1, <1>2, <1>3, <1>4, <1>5, <1>6, <1>7, <1>8, <1>9 DEF Next

LEMMA InitImplements == Init => Promise!Init
<1> HIDE DEF Loadable, Load
<1> SUFFICES ASSUME Init PROVE Promise!Init
  OBVIOUS
<1>1. \A b \in Builds : ~Loadable(b)
  BY DEF Init, Loadable
<1>2. StoredImage = Nothing
  BY <1>1, StoredIs DEF ImageFacts
<1>3. LoadOrDefaults(build) = Default[build]
  BY <1>1 DEF Init, LoadOrDefaults
<1> QED BY <1>2, <1>3 DEF Init, Promise!Init

(* A save is all or nothing, an acknowledged one is there, and a restart or *)
(* a revert brings back exactly what is stored, for every set of builds and *)
(* wherever the power is cut, when the cells of a save program.             *)
THEOREM StoreImplements ==
  ASSUME Faults = FALSE
  PROVE  Spec => ImplementsSettingsStore
<1>1. Init => StoreInv
  BY InitTypeInv
<1>2. StoreInv /\ [Next]_vars => StoreInv'
  BY NextTypeInv, NextSaveInOrder DEF StoreInv
<1>3. StoreInv /\ StoreInv' /\ [Next]_vars => [Promise!Next]_(Promise!vars)
  BY StepImplements
<1> QED BY <1>1, <1>2, <1>3, InitImplements, PTL
        DEF Spec, ImplementsSettingsStore, Promise!Spec
-----------------------------------------------------------------------------
(* The registry: its entries, each index with one owner or none, and nothing *)
(* beyond its tables.                                                       *)
Entries == [desc : Descs, paramBase : Nat, tlmBase : Nat]

Tiled ==
  /\ \A id \in Nat : IF id < registry.params THEN One(Owners(id))
                                             ELSE Owners(id) = {}
  /\ \A id \in Nat : IF id < registry.tlm THEN One(TlmOwners(id))
                                          ELSE TlmOwners(id) = {}

TablesHold ==
  /\ registry \in [mods : Seq(Entries), params : Nat, tlm : Nat]
  /\ registry.params <= MaxParams /\ registry.tlm <= MaxTlm
  /\ Len(registry.mods) <= MaxModules
  /\ Tiled

(* The log: while modules are added nothing else is in it, so the fault       *)
(* always finds room, and is its first line.                                *)
Lines == {"registry", "report"}

FaultFirst ==
  /\ health \in {"none", "registry"} /\ registering \in BOOLEAN
  /\ log \in [lines : Seq(Lines), dropped : BOOLEAN]
  /\ IF health = "registry" THEN Len(log.lines) > 0 /\ log.lines[1] = "registry"
                            ELSE registering => Len(log.lines) = 0
  /\ \A i \in 1 .. Len(log.lines) :
       log.lines[i] = "registry" => i = 1 /\ health = "registry"

CountsMatch ==
  /\ added \in Nat /\ Len(registry.mods) <= added
  /\ health = "registry" <=> Len(registry.mods) < added

BootInv == TablesHold /\ FaultFirst /\ CountsMatch

(* setup() starts with empty tables, no fault and an empty log.               *)
LEMMA BootInit == RegInit => BootInv
<1> SUFFICES ASSUME RegInit PROVE BootInv
  OBVIOUS
<1>1. MaxModules \in Nat /\ MaxParams \in Nat /\ MaxTlm \in Nat BY RegistryAssumption
<1>2. registry = [mods |-> <<>>, params |-> 0, tlm |-> 0] BY DEF RegInit
<1>3. registry.mods = <<>> /\ registry.params = 0 /\ registry.tlm = 0 /\ Len(registry.mods) = 0
      /\ DOMAIN registry.mods = {}
  BY <1>2
<1>4. Tiled BY <1>3 DEF Tiled, Owners, TlmOwners
<1>5. registry \in [mods : Seq(Entries), params : Nat, tlm : Nat] BY <1>2
<1>6. TablesHold BY <1>1, <1>3, <1>4, <1>5 DEF TablesHold
<1>7. log = [lines |-> <<>>, dropped |-> FALSE] BY DEF RegInit
<1>8. FaultFirst BY <1>7 DEF FaultFirst, RegInit
<1>9. CountsMatch BY <1>3 DEF CountsMatch, RegInit
<1> QED BY <1>6, <1>8, <1>9 DEF BootInv

(* One more range of c indices from lo, and its owner n.                     *)
LEMMA NextTile ==
  ASSUME NEW id \in Nat, NEW lo \in Nat, NEW c \in Nat, NEW O, NEW n, NEW P,
         IF id < lo THEN One(O) ELSE O = {},
         P = O \cup (IF id \in lo .. lo + c - 1 THEN {n} ELSE {})
  PROVE  IF id < lo + c THEN One(P) ELSE P = {}
<1>1. CASE id < lo
  <2>1. id \notin lo .. lo + c - 1 /\ id < lo + c BY <1>1
  <2>2. P = O BY <2>1
  <2> QED BY <1>1, <2>1, <2>2
<1>2. CASE ~(id < lo)
  <2>1. O = {} /\ (id \in lo .. lo + c - 1 <=> id < lo + c) BY <1>2
  <2> QED BY <2>1 DEF One
<1> QED BY <1>1, <1>2

(* A module that fits takes the indices that follow.                         *)
LEMMA AcceptTiles ==
  ASSUME TablesHold, NEW desc \in Descs, Fits(desc),
         Accept(desc)
  PROVE  TablesHold' /\ Len(registry.mods)' = Len(registry.mods) + 1
<1> DEFINE m == registry.mods
           e == Entry(desc)
           n == Len(m) + 1
<1>1. /\ m \in Seq(Entries) /\ registry.params \in Nat /\ registry.tlm \in Nat
      /\ desc.params \in Nat /\ desc.tlm \in Nat
  BY RegistryAssumption DEF TablesHold, Descs
<1>2. /\ e \in Entries /\ e.desc = desc /\ e.paramBase = registry.params
      /\ e.tlmBase = registry.tlm
  BY <1>1 DEF Entry, Entries
<1> HIDE DEF e
<1>3. /\ registry'.mods = Append(m, e) /\ registry'.params = registry.params + desc.params
      /\ registry'.tlm = registry.tlm + desc.tlm
      /\ registry' \in [mods : Seq(Entries), params : Nat, tlm : Nat]
  <2> DEFINE w == Append(m, e)
             p == registry.params + desc.params
             t == registry.tlm + desc.tlm
  <2>1. registry' = [mods |-> w, params |-> p, tlm |-> t] BY DEF Accept, e
  <2>2. w \in Seq(Entries) BY <1>1, <1>2
  <2>3. p \in Nat /\ t \in Nat BY <1>1
  <2> HIDE DEF w, p, t
  <2>4. registry'.mods = w /\ registry'.params = p /\ registry'.tlm = t BY <2>1
  <2>5. registry' \in [mods : Seq(Entries), params : Nat, tlm : Nat] BY <2>1, <2>2, <2>3
  <2> QED BY <2>4, <2>5 DEF w, p, t
<1> HIDE DEF m
<1>4. /\ Len(registry'.mods) = n /\ DOMAIN registry'.mods = DOMAIN m \cup {n}
      /\ n \notin DOMAIN m /\ registry'.mods[n] = e
      /\ \A i \in DOMAIN m : registry'.mods[i] = m[i]
  <2>1. /\ m \in Seq(Entries) /\ Len(m) \in Nat /\ DOMAIN m = 1 .. Len(m)
    BY <1>1 DEF m
  <2>2. /\ Append(m, e) \in Seq(Entries) /\ Len(Append(m, e)) = n
        /\ Append(m, e)[n] = e /\ \A i \in 1 .. Len(m) : Append(m, e)[i] = m[i]
    BY <1>2, <2>1
  <2>3. DOMAIN Append(m, e) = 1 .. n BY <2>2
  <2>4. 1 .. n = 1 .. Len(m) \cup {n} /\ n \notin 1 .. Len(m) BY <2>1
  <2>5. registry'.mods = Append(m, e) BY <1>3 DEF m
  <2> QED BY <2>1, <2>2, <2>3, <2>4, <2>5
<1> HIDE DEF n
<1>5. ASSUME NEW id \in Nat
      PROVE  /\ Owners(id)' = Owners(id) \cup
                  (IF id \in registry.params .. registry.params + desc.params - 1
                   THEN {n} ELSE {})
             /\ TlmOwners(id)' = TlmOwners(id) \cup
                  (IF id \in registry.tlm .. registry.tlm + desc.tlm - 1 THEN {n} ELSE {})
  BY <1>2, <1>4 DEF Owners, TlmOwners, m
<1>6. Tiled'
  <2>1. ASSUME NEW id \in Nat
        PROVE  IF id < registry'.params THEN One(Owners(id)')
                                        ELSE Owners(id)' = {}
    <3>1. IF id < registry.params THEN One(Owners(id)) ELSE Owners(id) = {}
      BY DEF TablesHold, Tiled
    <3> DEFINE O == Owners(id)
               P == Owners(id)'
               lo == registry.params
               c == desc.params
    <3>2. /\ P = O \cup (IF id \in lo .. lo + c - 1 THEN {n} ELSE {})
          /\ lo \in Nat /\ c \in Nat /\ registry'.params = lo + c
      BY <1>1, <1>3, <1>5
    <3> HIDE DEF O, P, lo, c
    <3>3. IF id < lo + c THEN One(P) ELSE P = {} BY <3>1, <3>2, NextTile DEF O, lo
    <3> QED BY <3>2, <3>3 DEF P
  <2>2. ASSUME NEW id \in Nat
        PROVE  IF id < registry'.tlm THEN One(TlmOwners(id)')
                                     ELSE TlmOwners(id)' = {}
    <3>1. IF id < registry.tlm THEN One(TlmOwners(id))
                               ELSE TlmOwners(id) = {}
      BY DEF TablesHold, Tiled
    <3> DEFINE O == TlmOwners(id)
               P == TlmOwners(id)'
               lo == registry.tlm
               c == desc.tlm
    <3>2. /\ P = O \cup (IF id \in lo .. lo + c - 1 THEN {n} ELSE {})
          /\ lo \in Nat /\ c \in Nat /\ registry'.tlm = lo + c
      BY <1>1, <1>3, <1>5
    <3> HIDE DEF O, P, lo, c
    <3>3. IF id < lo + c THEN One(P) ELSE P = {} BY <3>1, <3>2, NextTile DEF O, lo
    <3> QED BY <3>2, <3>3 DEF P
  <2> QED BY <2>1, <2>2 DEF Tiled
<1>7. n <= MaxModules /\ registry'.params <= MaxParams /\ registry'.tlm <= MaxTlm
  BY <1>1, <1>3, RegistryAssumption DEF Fits, m, n
<1> QED BY <1>3, <1>4, <1>6, <1>7 DEF TablesHold, m, n

(* add() keeps it whether it takes the module or not, and so does a report.   *)
LEMMA BootStep == BootInv /\ [RegNext]_regVars => BootInv'
<1> SUFFICES ASSUME BootInv, [RegNext]_regVars PROVE BootInv'
  OBVIOUS
<1>1. /\ TablesHold /\ FaultFirst /\ CountsMatch
      /\ log.lines \in Seq(Lines) /\ Len(log.lines) \in Nat /\ Len(registry.mods) \in Nat
      /\ log = [lines |-> log.lines, dropped |-> log.dropped] /\ log.dropped \in BOOLEAN
      /\ MaxLines \in Nat \ {0}
  BY RegistryAssumption DEF BootInv, FaultFirst, TablesHold
<1>2. ASSUME NEW desc \in Descs, Fits(desc), Accept(desc),
             added' = added + 1, registering' = registering
      PROVE  BootInv'
  <2>1. TablesHold' /\ Len(registry.mods)' = Len(registry.mods) + 1
    BY <1>1, <1>2, AcceptTiles
  <2>2. FaultFirst' BY <1>1, <1>2 DEF FaultFirst, Accept
  <2>3. CountsMatch' BY <1>1, <1>2, <2>1 DEF CountsMatch, Accept
  <2> QED BY <2>1, <2>2, <2>3 DEF BootInv
<1>3. ASSUME NEW desc, Refuse(desc), registering, added' = added + 1,
             registering' = registering
      PROVE  BootInv'
  <2>1. TablesHold' BY <1>1, <1>3
    DEF Refuse, TablesHold, Tiled, Owners, TlmOwners
  <2>2. CASE health = "registry"
    <3>1. UNCHANGED <<health, log, registry>> BY <1>3, <2>2 DEF Refuse, Fail
    <3> QED BY <1>1, <1>3, <2>1, <2>2, <3>1 DEF BootInv, FaultFirst, CountsMatch
  <2>3. CASE health # "registry"
    <3>1. health = "none" /\ Len(log.lines) = 0 /\ log.lines = <<>>
      BY <1>1, <1>3, <2>3 DEF FaultFirst
    <3>2. /\ health' = "registry" /\ registry' = registry
          /\ log' = [log EXCEPT !.lines = Append(@, "registry")]
      BY <1>1, <1>3, <3>1 DEF Refuse, Fail, LogLine
    <3>3. log' = [lines |-> <<"registry">>, dropped |-> log.dropped]
      BY <1>1, <3>1, <3>2
    <3>4. FaultFirst' BY <1>1, <1>3, <3>2, <3>3 DEF FaultFirst, Lines
    <3> QED BY <1>1, <1>3, <2>1, <3>1, <3>2, <3>4 DEF BootInv, CountsMatch
  <2> QED BY <2>2, <2>3
<1>4. CASE Report
  <2>1. registering' = FALSE /\ UNCHANGED <<registry, health, added>> BY <1>4 DEF Report
  <2>2. TablesHold' /\ CountsMatch'
    BY <1>1, <2>1 DEF TablesHold, Tiled, Owners, TlmOwners, CountsMatch
  <2>3. CASE Len(log.lines) >= MaxLines
    <3>1. log' = [lines |-> log.lines, dropped |-> TRUE]
      BY <1>1, <1>4, <2>3 DEF Report, LogLine
    <3>2. FaultFirst' BY <1>1, <2>1, <3>1 DEF FaultFirst
    <3> QED BY <2>2, <3>2 DEF BootInv
  <2>4. CASE ~(Len(log.lines) >= MaxLines)
    <3> DEFINE w == Append(log.lines, "report")
    <3>1. log' = [lines |-> w, dropped |-> log.dropped]
      BY <1>1, <1>4, <2>4 DEF Report, LogLine
    <3>2. /\ w \in Seq(Lines) /\ Len(w) = Len(log.lines) + 1 /\ w[Len(log.lines) + 1] = "report"
          /\ \A i \in 1 .. Len(log.lines) : w[i] = log.lines[i]
      BY <1>1 DEF Lines
    <3> HIDE DEF w
    <3>3. FaultFirst'
      <4>1. log' \in [lines : Seq(Lines), dropped : BOOLEAN] /\ log'.lines = w
        BY <1>1, <3>1, <3>2
      <4>2. health = "registry" => Len(w) > 0 /\ w[1] = "registry"
        BY <1>1, <3>2 DEF FaultFirst
      <4>3. ASSUME NEW i \in 1 .. Len(w), w[i] = "registry" PROVE i = 1 /\ health = "registry"
        <5>1. i \in 1 .. Len(log.lines) BY <1>1, <3>2, <4>3
        <5> QED BY <1>1, <3>2, <4>3, <5>1 DEF FaultFirst
      <4> QED BY <1>1, <2>1, <4>1, <4>2, <4>3 DEF FaultFirst
    <3> QED BY <2>2, <3>3 DEF BootInv
  <2> QED BY <2>3, <2>4
<1>5. CASE UNCHANGED regVars
  BY <1>1, <1>5 DEF regVars, BootInv, TablesHold, Tiled, Owners, TlmOwners,
                    FaultFirst, CountsMatch
<1> QED BY <1>2, <1>3, <1>4, <1>5 DEF RegNext, AddModule

(* Registry::add: the tables are shared out without a gap or an overlap.     *)
THEOREM TablesTheorem == RegSpec => []ModulesFit
<1>1. BootInv => ModulesFit
  <2> SUFFICES ASSUME BootInv PROVE ModulesFit
    OBVIOUS
  <2>1. Tiled /\ registry.params <= MaxParams /\ registry.tlm <= MaxTlm
        /\ Len(registry.mods) <= MaxModules
    BY DEF BootInv, TablesHold
  <2>2. \A id \in 0 .. MaxParams : id \in Nat BY RegistryAssumption
  <2>3. \A id \in 0 .. MaxTlm : id \in Nat BY RegistryAssumption
  <2> QED BY <2>1, <2>2, <2>3 DEF ModulesFit, Tiled
<1> QED BY <1>1, BootInit, BootStep, PTL DEF RegSpec

(* Health::fail: a module that was left out is in the log, once, however     *)
(* much is said after it.                                                   *)
THEOREM FaultTheorem == RegSpec => []FaultIsTold
<1>1. BootInv => FaultIsTold
  <2> SUFFICES ASSUME BootInv PROVE FaultIsTold
    OBVIOUS
  <2> DEFINE Told == {i \in DOMAIN log.lines : log.lines[i] = "registry"}
  <2>1. health = "registry" => Told = {1} BY DEF BootInv, FaultFirst
  <2>2. health # "registry" => Told = {} BY DEF BootInv, FaultFirst
  <2>3. health = "registry" <=> Len(registry.mods) < added BY DEF BootInv, CountsMatch
  <2> QED BY <2>1, <2>2, <2>3 DEF FaultIsTold, One
<1> QED BY <1>1, BootInit, BootStep, PTL DEF RegSpec

(* Registry::add and Health::fail together, for tables and logs of any size. *)
THEOREM RegistryTheorem == RegSpec => []RegistryHonest
<1>1. ModulesFit /\ FaultIsTold => RegistryHonest BY DEF RegistryHonest
<1> QED BY <1>1, TablesTheorem, FaultTheorem, PTL
=============================================================================
