--------------------------- MODULE DfuWriteProofs ---------------------------
(***************************************************************************)
(* What a write through the ROM bootloader leaves in flash, for every flash  *)
(* map, block size and image, and any number of faults: a flash that reports *)
(* success wrote the whole image, nothing is programmed over what was not    *)
(* erased, sectors beyond the image are left alone, and the magic word is    *)
(* there only when it was asked for.                                        *)
(*                                                                         *)
(* The layout comes first: the flash map is a recursive function, so what    *)
(* is needed of it is proved by induction over a set of naturals.            *)
(***************************************************************************)
EXTENDS DfuWrite, FunctionTheorems, WellFoundedInduction, TLAPS
(* A set of naturals that is not empty has a least member.                  *)
LEMMA Least ==
  ASSUME NEW T, T \subseteq Nat, T # {}
  PROVE  \E x \in T : \A y \in T : x <= y
<1> DEFINE R == {ss \in Nat \X Nat : ss[1] < ss[2]}
<1>1. IsWellFoundedOn(R, Nat)
  BY NatLessThanWellFounded DEF OpToRel
<1>3. \A x, y \in Nat : x < y => <<x, y>> \in R
  OBVIOUS
<1> HIDE DEF R
<1>2. PICK x \in T : \A y \in T : ~(<<y, x>> \in R)
  BY <1>1, WFMin
<1>4. \A y \in T : ~(y < x)
  BY <1>2, <1>3, Zenon
<1>5. \A y \in T : x <= y
  BY <1>4
<1>6. QED
  BY <1>5

(* Induction up to n, over a set.                                          *)
LEMMA Ascent ==
  ASSUME NEW n \in Nat, NEW T, 0 \in T,
         \A k \in 0 .. n - 1 : k \in T => k + 1 \in T
  PROVE  \A k \in 0 .. n : k \in T
<1> DEFINE U == {k \in 0 .. n : k \notin T}
<1>1. SUFFICES ASSUME U # {} PROVE FALSE
  OBVIOUS
<1>2. U \subseteq Nat
  OBVIOUS
<1>3. PICK x \in U : \A y \in U : x <= y
  <2> HIDE DEF U
  <2> QED BY <1>1, <1>2, Least
<1>4. x \in 0 .. n /\ x \notin T /\ x # 0
  BY <1>3
<1>5. x - 1 \in 0 .. n - 1 /\ x - 1 \notin U
  BY <1>3, <1>4
<1>6. x - 1 \in T
  BY <1>5
<1>7. (x - 1) + 1 \in T
  BY <1>5, <1>6
<1>8. QED
  BY <1>4, <1>7

(* What rounding up to whole blocks gives: at least one, and enough.         *)
LEMMA BlocksCover ==
  ASSUME NEW n \in Nat \ {0}, NEW b \in Nat, NEW B \in Nat \ {0}
  PROVE  /\ (n + B - 1) \div B \in Nat \ {0}
         /\ b + 1 >= (n + B - 1) \div B => (b + 1) * B >= n
<1> DEFINE q == (n + B - 1) \div B
           r == (n + B - 1) % B
<1>1. q \in Int /\ r \in 0 .. B - 1 /\ n + B - 1 = B * q + r
  OBVIOUS
<1> HIDE DEF q, r
<1>2. q >= 1
  <2>1. SUFFICES ASSUME q <= 0 PROVE FALSE
    BY <1>1
  <2>2. B * q <= 0
    BY <2>1, <1>1
  <2>3. QED
    BY <1>1, <2>2
<1>3. ASSUME b + 1 >= q PROVE (b + 1) * B >= n
  <2>1. (b + 1) * B >= q * B
    BY <1>1, <1>3
  <2>2. QED
    BY <1>1, <2>1
<1>4. QED
  BY <1>1, <1>2, <1>3 DEF q

N == Len(SectorSizes)

(* The sizes of the flash map are counts.                                   *)
LEMMA NType == N \in Nat /\ \A i \in 1 .. N : SectorSizes[i] \in Nat \ {0}
BY DfuWriteAssumption DEF N

EndStep(f, i) == IF i = 0 THEN 0 ELSE f[i - 1] + SectorSizes[i]

(* There is a function that runs up the sizes, however many there are.       *)
LEMMA EndExists ==
  \A k \in 0 .. N : \E f \in [0 .. k -> Nat] : \A i \in 0 .. k : f[i] = EndStep(f, i)
<1> DEFINE T == {k \in 0 .. N : \E f \in [0 .. k -> Nat] : \A i \in 0 .. k : f[i] = EndStep(f, i)}
<1>1. 0 \in T
  <2> DEFINE f == [i \in 0 .. 0 |-> 0]
  <2>1. f \in [0 .. 0 -> Nat] /\ \A i \in 0 .. 0 : f[i] = EndStep(f, i)
    BY NType DEF EndStep
  <2>2. QED
    BY <2>1, NType
<1>2. ASSUME NEW k \in 0 .. N - 1, k \in T PROVE k + 1 \in T
  <2>1. PICK f \in [0 .. k -> Nat] : \A i \in 0 .. k : f[i] = EndStep(f, i)
    BY <1>2
  <2> DEFINE g == [i \in 0 .. k + 1 |-> IF i = k + 1 THEN f[k] + SectorSizes[k + 1] ELSE f[i]]
  <2>2. SectorSizes[k + 1] \in Nat /\ k \in 0 .. k /\ f[k] \in Nat /\ N \in Nat
    BY NType
  <2>3. g \in [0 .. k + 1 -> Nat]
    BY <2>2
  <2>4. ASSUME NEW i \in 0 .. k + 1 PROVE g[i] = EndStep(g, i)
    <3>1. CASE i = k + 1
      BY <3>1, <2>2 DEF EndStep
    <3>2. CASE i # k + 1
      <4>1. i \in 0 .. k /\ f[i] = EndStep(f, i)
        BY <3>2, <2>1
      <4>2. i # 0 => i - 1 \in 0 .. k + 1 /\ i - 1 # k + 1
        BY <3>2
      <4>3. QED
        BY <4>1, <4>2, <3>2 DEF EndStep
    <3>3. QED
      BY <3>1, <3>2
  <2>5. k + 1 \in 0 .. N
    BY <2>2
  <2>6. \E h \in [0 .. k + 1 -> Nat] : \A i \in 0 .. k + 1 : h[i] = EndStep(h, i)
    <3> HIDE DEF g
    <3> QED BY <2>3, <2>4
  <2>7. QED
    BY <2>5, <2>6
<1>3. QED
  <2> HIDE DEF T
  <2>1. \A k \in 0 .. N : k \in T
    BY <1>1, <1>2, NType, Ascent
  <2>2. QED
    BY <2>1 DEF T

StartFunction == CHOOSE f : f = [j \in 1 .. Len(SectorSizes) |->
                         IF j = 1 THEN 0 ELSE f[j - 1] + SectorSizes[j - 1]]
EndFunction == CHOOSE f : f = [i \in 0 .. Len(SectorSizes) |->
                         IF i = 0 THEN 0 ELSE f[i - 1] + SectorSizes[i]]

(* The starts and the size are those functions' values.                     *)
LEMMA SectorStartUnfold == \A i : SectorStart(i) = StartFunction[i]
BY DEF SectorStart, StartFunction

(* So is the flash's size.                                                  *)
LEMMA SizeUnfold == Size = EndFunction[N]
BY DEF Size, EndFunction, N

(* What the ends are: naturals, each the one before and its size.            *)
LEMMA EndFacts ==
  /\ EndFunction \in [0 .. N -> Nat]
  /\ \A i \in 0 .. N : EndFunction[i] = EndStep(EndFunction, i)
<1>1. PICK f \in [0 .. N -> Nat] : \A i \in 0 .. N : f[i] = EndStep(f, i)
  <2>1. N \in 0 .. N
    BY NType
  <2>2. QED
    BY <2>1, EndExists, Zenon
<1>2. f = [i \in 0 .. N |-> IF i = 0 THEN 0 ELSE f[i - 1] + SectorSizes[i]]
  BY <1>1 DEF EndStep
<1>3. EndFunction = [i \in 0 .. N |->
                       IF i = 0 THEN 0 ELSE EndFunction[i - 1] + SectorSizes[i]]
  BY <1>2 DEF EndFunction, N
<1>4. \A i \in 0 .. N : EndFunction[i] = EndStep(EndFunction, i)
  BY <1>3 DEF EndStep
<1> DEFINE T == {k \in 0 .. N : EndFunction[k] \in Nat}
<1>5. 0 \in T
  BY <1>4, NType DEF EndStep
<1>6. ASSUME NEW k \in 0 .. N - 1, k \in T PROVE k + 1 \in T
  <2>1. EndFunction[k + 1] = EndFunction[k] + SectorSizes[k + 1]
    BY <1>4, NType DEF EndStep
  <2>2. QED
    BY <2>1, <1>6, NType
<1>7. \A k \in 0 .. N : EndFunction[k] \in Nat
  <2> HIDE DEF T
  <2>1. \A k \in 0 .. N : k \in T
    BY <1>5, <1>6, NType, Ascent
  <2>2. QED
    BY <2>1 DEF T
<1>8. QED
  BY <1>3, <1>4, <1>7

(* A sector starts where the one before it ends.                            *)
LEMMA StartFacts == \A i \in 1 .. N : SectorStart(i) = EndFunction[i - 1]
<1> DEFINE h == [j \in 1 .. N |-> EndFunction[j - 1]]
<1>1. h = [j \in 1 .. N |-> IF j = 1 THEN 0 ELSE h[j - 1] + SectorSizes[j - 1]]
  <2>1. ASSUME NEW j \in 1 .. N
        PROVE h[j] = IF j = 1 THEN 0 ELSE h[j - 1] + SectorSizes[j - 1]
    <3>1. CASE j = 1
      BY <3>1, EndFacts, NType DEF EndStep
    <3>2. CASE j # 1
      <4>1. j - 1 \in 1 .. N /\ j - 1 \in 0 .. N /\ j - 1 # 0 /\ h[j] = EndFunction[j - 1]
        BY <3>2, NType
      <4>2. EndFunction[j - 1] = EndFunction[(j - 1) - 1] + SectorSizes[j - 1]
        BY <4>1, EndFacts DEF EndStep
      <4>3. QED
        BY <4>1, <4>2, <3>2
    <3>3. QED
      BY <3>1, <3>2
  <2>2. QED
    BY <2>1
<1>2. StartFunction = [j \in 1 .. N |->
                         IF j = 1 THEN 0 ELSE StartFunction[j - 1] + SectorSizes[j - 1]]
  <2> HIDE DEF h
  <2> QED BY <1>1 DEF StartFunction, N
<1>7. \A j \in 1 .. N : StartFunction[j] =
                         IF j = 1 THEN 0 ELSE StartFunction[j - 1] + SectorSizes[j - 1]
  BY <1>2, Zenon
<1> DEFINE T == {k \in 0 .. N : \A i \in 1 .. k : StartFunction[i] = EndFunction[i - 1]}
<1>3. 0 \in T
  BY NType
<1>4. ASSUME NEW k \in 0 .. N - 1, k \in T PROVE k + 1 \in T
  <2>1. k + 1 \in 1 .. N /\ k + 1 \in 0 .. N
    BY NType
  <2>2. StartFunction[k + 1] = IF k + 1 = 1 THEN 0 ELSE StartFunction[k] + SectorSizes[k]
    <3>1. (k + 1) - 1 = k
      BY <2>1
    <3>2. QED
      BY <1>7, <2>1, <3>1, Zenon
  <2>3. EndFunction[k] = IF k = 0 THEN 0 ELSE EndFunction[k - 1] + SectorSizes[k]
    BY EndFacts, NType DEF EndStep
  <2>4. StartFunction[k + 1] = EndFunction[k]
    BY <2>2, <2>3, <1>4
  <2>5. QED
    BY <2>1, <2>4, <1>4
<1>5. \A k \in 0 .. N : k \in T
  <2> HIDE DEF T
  <2> QED BY <1>3, <1>4, NType, Ascent
<1>6. QED
  BY <1>5, NType, SectorStartUnfold

(* buildLayout: the sectors follow one another from 0 to the flash's size.   *)
LEMMA Layout ==
  /\ Size \in Nat
  /\ N = 0 => Size = 0
  /\ N > 0 => SectorStart(1) = 0 /\ Size = SectorStart(N) + SectorSizes[N]
  /\ \A i \in 1 .. N : SectorStart(i) \in Nat
  /\ \A i \in 1 .. N : i + 1 \in 1 .. N =>
       SectorStart(i + 1) = SectorStart(i) + SectorSizes[i]
<1>1. /\ EndFunction \in [0 .. N -> Nat]
      /\ \A i \in 0 .. N : EndFunction[i] = EndStep(EndFunction, i)
  BY EndFacts
<1>2. \A i \in 1 .. N : EndFunction[i] = SectorStart(i) + SectorSizes[i]
  BY <1>1, StartFacts, NType DEF EndStep
<1>3. EndFunction[0] = 0
  BY <1>1, NType DEF EndStep
<1>4. \A i \in 1 .. N : i + 1 \in 1 .. N => SectorStart(i + 1) = EndFunction[i]
  BY StartFacts, NType
<1>5. \A i \in 1 .. N : SectorStart(i) \in Nat
  BY <1>1, StartFacts, NType
<1>6. N > 0 => SectorStart(1) = 0
  BY <1>3, StartFacts, NType
<1>7. Size = EndFunction[N]
  BY SizeUnfold
<1>8. Size \in Nat /\ (N = 0 => Size = 0) /\ (N > 0 => Size = SectorStart(N) + SectorSizes[N])
  BY <1>7, <1>1, <1>2, <1>3, NType
<1>9. QED
  BY <1>2, <1>4, <1>5, <1>6, <1>8

(* Two sectors do not overlap.                                              *)
LEMMA SectorsApart ==
  \A i, j \in 1 .. N : i < j => SectorStart(i) + SectorSizes[i] <= SectorStart(j)
<1> DEFINE T == {k \in 0 .. N : \A j \in 1 .. k : \A i \in 1 .. N :
                   i < j => SectorStart(i) + SectorSizes[i] <= SectorStart(j)}
<1>1. 0 \in T
  BY NType
<1>2. ASSUME NEW k \in 0 .. N - 1, k \in T PROVE k + 1 \in T
  <2>1. k + 1 \in 1 .. N /\ k + 1 \in 0 .. N
    BY NType
  <2>2. ASSUME NEW i \in 1 .. N, i < k + 1
        PROVE SectorStart(i) + SectorSizes[i] <= SectorStart(k + 1)
    <3>1. k \in 1 .. N /\ SectorStart(k + 1) = SectorStart(k) + SectorSizes[k]
      BY <2>1, <2>2, Layout, NType
    <3>2. SectorStart(k) \in Nat /\ SectorSizes[k] \in Nat
      BY <3>1, Layout, NType
    <3>3. CASE i = k
      BY <3>1, <3>2, <3>3
    <3>4. CASE i < k
      <4>1. SectorStart(i) + SectorSizes[i] <= SectorStart(k)
        BY <3>1, <3>4, <1>2
      <4>2. SectorStart(i) \in Nat /\ SectorSizes[i] \in Nat
        BY Layout, NType
      <4>3. QED
        BY <3>1, <3>2, <4>1, <4>2
    <3>5. QED
      BY <3>3, <3>4, <2>2
  <2>3. \A j \in 1 .. k + 1 : j = k + 1 \/ j \in 1 .. k
    OBVIOUS
  <2>4. QED
    BY <2>1, <2>2, <2>3, <1>2
<1>3. \A k \in 0 .. N : k \in T
  <2> HIDE DEF T
  <2> QED BY <1>1, <1>2, NType, Ascent
<1>4. QED
  BY <1>3, NType

(* The first sector is one of every image's.                                *)
LEMMA FirstSector ==
  ASSUME NEW n \in 1 .. Size
  PROVE  1 \in SectorsFor(n) /\ SectorStart(1) = 0
<1>1. N > 0
  BY Layout, NType
<1>2. SectorStart(1) = 0 /\ 1 \in 1 .. N
  BY <1>1, Layout, NType
<1>3. QED
  BY <1>2 DEF SectorsFor, N

(* sectorsFor: where the image's sectors end, the image has ended.           *)
LEMMA LastSector ==
  ASSUME NEW n \in 1 .. Size, NEW i \in SectorsFor(n), i + 1 \notin SectorsFor(n)
  PROVE  n <= SectorStart(i) + SectorSizes[i]
<1>1. i \in 1 .. N /\ N \in Nat /\ N > 0
  BY NType DEF SectorsFor, N
<1>2. CASE i = N
  BY <1>1, <1>2, Layout
<1>3. CASE i # N
  <2>1. i + 1 \in 1 .. N
    BY <1>1, <1>3
  <2>2. ~(SectorStart(i + 1) < n)
    BY <2>1 DEF SectorsFor, N
  <2>3. SectorStart(i + 1) = SectorStart(i) + SectorSizes[i] /\ SectorStart(i + 1) \in Nat
    BY <2>1, <1>1, Layout
  <2>4. QED
    BY <2>2, <2>3
<1>4. QED
  BY <1>2, <1>3

(* A sector of the image starts at a natural and has a size.                 *)
LEMMA SectorBounds ==
  ASSUME NEW n, NEW i \in SectorsFor(n)
  PROVE  i \in 1 .. N /\ SectorStart(i) \in Nat /\ SectorSizes[i] \in Nat \ {0}
BY Layout, NType DEF SectorsFor, N
-----------------------------------------------------------------------------
(* What flash holds while an image is written.                              *)
Written(n) == \A u \in Units : u < n /\ u < length => flash[u] = u

BlankBetween(low, high) == \A u \in Units : low <= u /\ u < high => flash[u] = Blank

(* The transfer's work is done and the host has not read the status yet.     *)
Over == host.waiting /\ rom.state = "idle"

ErasedTo == IF Over THEN SectorStart(host.at) + SectorSizes[host.at] ELSE SectorStart(host.at)

WrittenTo == IF Over THEN (host.at + 1) * BlockUnits ELSE host.at * BlockUnits

Shapes ==
  /\ board \in {"off", "reset", "app", "crashed", "rom"}
  /\ flash \in [Units -> Units \cup {Old, Blank, Spoilt}]
  /\ rom \in [state : {"idle", "queued", "busy", "error"},
              command : {"none", "erase", "address", "block"}, address : {0, Elsewhere}]
  /\ host \in [step : {"idle", "clear", "erase", "address", "block", "leave"},
               waiting : BOOLEAN, at : Nat]
  /\ host.step = "erase" => host.at \in SectorsFor(length)
  /\ host.step = "block" => host.at \in 0 .. Blocks(length) - 1
  /\ length \in ImageLengths
  /\ faults \in 0 .. MaxFaults

(* The bootloader works on what the host waits for.                         *)
Paired ==
  /\ board = "rom" /\ rom.state \in {"queued", "busy"} => host.waiting
  /\ host.waiting => host.step \in {"erase", "address", "block"}
  /\ host.waiting /\ rom.state # "error" => rom.command = host.step

(* How far the write has come: erased up to the sector in hand, then written *)
(* up to the block in hand and still blank behind it.                       *)
Progress ==
  /\ rom.state # "error" =>
       /\ host.step = "erase" => BlankBetween(0, ErasedTo)
       /\ host.step = "address" => BlankBetween(0, length) /\ (Over => rom.address = 0)
       /\ host.step = "block" =>
            rom.address = 0 /\ Written(WrittenTo) /\ BlankBetween(WrittenTo, length)
  /\ host.step = "leave" => Written(length)

Reported ==
  /\ result # "none" => host.step = "idle"
  /\ result = "done" => Written(length)

WriteInv == Shapes /\ Paired /\ Progress /\ Reported /\ NothingSpoilt
-----------------------------------------------------------------------------
(* Before anything is written there is nothing to keep.                     *)
LEMMA InitHolds == Init => WriteInv
<1>1. ASSUME Init PROVE WriteInv
  <2>1. Shapes
    BY <1>1, DfuWriteAssumption DEF Init, Shapes, Idle, Entered
  <2>2. Paired /\ Progress /\ Reported /\ NothingSpoilt
    BY <1>1 DEF Init, Idle, Entered, Paired, Progress, Reported, NothingSpoilt, Old, Spoilt
  <2>3. QED
    BY <2>1, <2>2 DEF WriteInv
<1>2. QED
  BY <1>1

(* Steps of the board that leave flash, the image and the host alone: what   *)
(* the bootloader was doing is either kept with the board away from it, or   *)
(* lost to an error.                                                        *)
LEMMA BoardSteps ==
  ASSUME WriteInv, UNCHANGED <<flash, host, length, result, faults>>,
         board' \in {"off", "reset", "app", "crashed", "rom"},
         \/ rom' = rom /\ board' # "rom"
         \/ rom' = rom /\ board' = board
         \/ rom' \in Entered
  PROVE  WriteInv'
<1>1. Shapes'
  BY DEF WriteInv, Shapes, Entered
<1>2. Paired'
  BY DEF WriteInv, Shapes, Paired, Entered
<1>3. Progress'
  BY DEF WriteInv, Shapes, Entered, Progress, BlankBetween, Written, ErasedTo, WrittenTo, Over,
     Units
<1>4. (Reported /\ NothingSpoilt)'
  BY DEF WriteInv, Reported, Written, NothingSpoilt, Units
<1>5. QED
  BY <1>1, <1>2, <1>3, <1>4 DEF WriteInv

(* A host that gives up, for whatever reason.                               *)
LEMMA FailedStep ==
  ASSUME WriteInv, Close("failed"), UNCHANGED <<board, flash, rom, length, faults>>,
         board = "rom" => rom.state \notin {"queued", "busy"}
  PROVE  WriteInv'
<1>1. host' = Idle /\ result' = "failed"
  BY DEF Close
<1>2. Shapes'
  BY <1>1 DEF WriteInv, Shapes, Idle
<1>3. (Paired /\ Progress /\ Reported /\ NothingSpoilt)'
  BY <1>1 DEF WriteInv, Shapes, Idle, Paired, Progress, Reported, NothingSpoilt, Units
<1>4. QED
  BY <1>2, <1>3 DEF WriteInv

(* The bootloader erases the sector in hand or programs the block in hand.   *)
LEMMA FinishStep == ASSUME WriteInv, RomFinishes PROVE WriteInv'
<1>1. /\ board = "rom" /\ rom.state = "busy" /\ host.waiting
      /\ rom.command = host.step /\ host.step \in {"erase", "address", "block"}
      /\ (rom.command = "block" => rom.address = 0) /\ result = "none" /\ ~Over
      /\ rom' = [rom EXCEPT !.state = "idle",
                            !.address = IF rom.command = "address" THEN 0 ELSE @]
      /\ UNCHANGED <<board, magic, owed, host, length, result, faults>>
  BY DEF RomFinishes, WriteInv, Shapes, Paired, Progress, Reported, Over
<1>2. rom' \in [state : {"idle", "queued", "busy", "error"},
                command : {"none", "erase", "address", "block"}, address : {0, Elsewhere}]
      /\ rom'.state = "idle" /\ rom'.command = rom.command /\ Over'
  BY <1>1 DEF WriteInv, Shapes, Over
<1>3. Paired'
  BY <1>1, <1>2 DEF WriteInv, Paired
<1>4. ASSUME flash' \in [Units -> Units \cup {Old, Blank, Spoilt}] PROVE Shapes'
  BY <1>1, <1>2, <1>4 DEF WriteInv, Shapes, SectorsFor, SectorStart, Blocks
<1>5. Reported'
  BY <1>1 DEF WriteInv, Reported
<1>6. CASE rom.command = "erase"
  <2>1. flash' = Erased(host.at) /\ host.at \in SectorsFor(length)
    BY <1>1, <1>6 DEF RomFinishes, WriteInv, Shapes
  <2>2. SectorStart(host.at) \in Nat /\ SectorSizes[host.at] \in Nat \ {0}
    BY <2>1, SectorBounds
  <2>3. \A u \in Units : flash'[u] = IF u \in Sector(host.at) THEN Blank ELSE flash[u]
    BY <2>1 DEF Erased
  <2>4. flash' \in [Units -> Units \cup {Old, Blank, Spoilt}]
    BY <2>1 DEF Erased, WriteInv, Shapes
  <2>5. NothingSpoilt'
    BY <2>3 DEF WriteInv, NothingSpoilt, Blank, Spoilt, Units
  <2>6. BlankBetween(0, SectorStart(host.at))
    BY <1>1, <1>6 DEF WriteInv, Progress, ErasedTo
  <2>7. ASSUME NEW u \in Units, u < SectorStart(host.at) + SectorSizes[host.at]
        PROVE  flash'[u] = Blank
    <3>1. CASE u < SectorStart(host.at)
      <4>1. u \in Int /\ 0 <= u
        BY Layout DEF Units
      <4>2. flash[u] = Blank
        BY <4>1, <3>1, <2>6 DEF BlankBetween
      <4>3. QED
        BY <4>2, <2>3
    <3>2. CASE ~(u < SectorStart(host.at))
      <4>1. u \in Sector(host.at)
        BY <2>2, <2>7, <3>2, Layout DEF Sector, Units
      <4>2. QED
        BY <4>1, <2>3
    <3>3. QED
      BY <3>1, <3>2
  <2>8. ErasedTo' = SectorStart(host.at) + SectorSizes[host.at]
    BY <1>1, <1>2 DEF ErasedTo, SectorStart
  <2>9. Progress'
    BY <1>1, <1>6, <2>7, <2>8 DEF Progress, BlankBetween, Units
  <2>10. QED
    BY <1>3, <1>4, <1>5, <2>4, <2>5, <2>9 DEF WriteInv
<1>7. CASE rom.command = "block"
  <2> DEFINE low == host.at * BlockUnits
             high == (host.at + 1) * BlockUnits
  <2>1. flash' = Programmed(host.at) /\ host.at \in Nat
    BY <1>1, <1>7 DEF RomFinishes, WriteInv, Shapes
  <2>2. low \in Nat /\ high = low + BlockUnits /\ high \in Nat
    BY <2>1, DfuWriteAssumption
  <2>3. Written(low) /\ BlankBetween(low, length)
    BY <1>1, <1>7 DEF WriteInv, Progress, WrittenTo
  <2>4. length \in Nat /\ length <= Size
    BY DfuWriteAssumption, Layout DEF WriteInv, Shapes
  <2> HIDE DEF low, high
  <2>5. ASSUME NEW u \in Units
        PROVE  flash'[u] = IF low <= u /\ u < high /\ u < length THEN u ELSE flash[u]
    <3>1. u \in Int /\ rom.address + host.at * BlockUnits = low
          /\ u - rom.address = u /\ rom.address + length = length
      BY <1>1, <1>7, <2>2, <2>4 DEF Units, low
    <3>2. low <= u /\ u < high /\ u < length => flash[u] = Blank
      BY <2>3 DEF BlankBetween
    <3>3. QED
      BY <2>1, <2>2, <2>4, <3>1, <3>2 DEF Programmed
  <2>6. flash' \in [Units -> Units \cup {Old, Blank, Spoilt}]
    <3>1. flash' = [u \in Units |-> Programmed(host.at)[u]]
      BY <2>1 DEF Programmed
    <3>2. \A u \in Units : flash[u] \in Units \cup {Old, Blank, Spoilt}
      BY DEF WriteInv, Shapes
    <3>3. \A u \in Units : Programmed(host.at)[u] \in Units \cup {Old, Blank, Spoilt}
      BY <2>1, <2>5, <3>2
    <3>4. QED
      BY <3>1, <3>3
  <2>7. NothingSpoilt'
    <3>1. \A u \in Units : u # Spoilt
      BY Layout DEF Units, Spoilt
    <3>2. QED
      BY <2>5, <3>1 DEF WriteInv, NothingSpoilt, Units
  <2>8. WrittenTo' = high
    BY <1>1, <1>2 DEF WrittenTo, high
  <2>9. ASSUME NEW u \in Units, u < high, u < length PROVE flash'[u] = u
    <3>1. u \in Int
      BY DEF Units
    <3>2. u < low => flash[u] = u
      BY <2>3, <2>9 DEF Written
    <3>3. QED
      BY <2>5, <2>9, <2>2, <3>1, <3>2
  <2>10. ASSUME NEW u \in Units, high <= u, u < length PROVE flash'[u] = Blank
    <3>1. u \in Int
      BY DEF Units
    <3>2. low <= u /\ ~(u < high)
      BY <3>1, <2>2, <2>10, DfuWriteAssumption
    <3>3. QED
      BY <2>3, <2>5, <2>10, <3>2 DEF BlankBetween
  <2>11. Progress'
    BY <1>1, <1>7, <2>8, <2>9, <2>10 DEF Progress, Written, BlankBetween, Units
  <2>12. QED
    BY <1>3, <1>4, <1>5, <2>6, <2>7, <2>11 DEF WriteInv
<1>8. CASE rom.command = "address"
  <2>1. flash' = flash
    BY <1>8 DEF RomFinishes
  <2>2. Progress' /\ NothingSpoilt'
    BY <1>1, <1>8, <2>1 DEF WriteInv, Progress, BlankBetween, NothingSpoilt, Units
  <2>3. QED
    BY <1>3, <1>4, <1>5, <2>1, <2>2 DEF WriteInv, Shapes
<1>9. QED
  BY <1>1, <1>6, <1>7, <1>8

(* Steps of the host that only move it or the bootloader's state.            *)
LEMMA ClearStep == ASSUME WriteInv, ClearErrorState PROVE WriteInv'
<1>1. /\ host' = [step |-> "erase", waiting |-> FALSE, at |-> 1]
      /\ rom' = [rom EXCEPT !.state = "idle"] /\ result = "none" /\ result' = "none"
      /\ UNCHANGED <<board, flash, length, faults>>
  BY DEF ClearErrorState, Answers, WriteInv, Reported
<1>2. length \in 1 .. Size
  BY DfuWriteAssumption DEF WriteInv, Shapes
<1>3. 1 \in SectorsFor(length) /\ SectorStart(1) = 0
  BY <1>2, FirstSector
<1>4. Shapes'
  BY <1>1, <1>3 DEF WriteInv, Shapes, SectorsFor, SectorStart
<1>5. Paired'
  BY <1>1 DEF WriteInv, Paired, Shapes
<1>6. ErasedTo' = 0
  BY <1>1, <1>3 DEF ErasedTo, Over, SectorStart
<1>7. (Progress /\ Reported /\ NothingSpoilt)'
  BY <1>1, <1>6 DEF WriteInv, Progress, BlankBetween, Reported, NothingSpoilt, Units
<1>8. QED
  BY <1>4, <1>5, <1>7 DEF WriteInv

(* A transfer is queued: the sector or block in hand stays the same.         *)
LEMMA SendStep == ASSUME WriteInv, Send PROVE WriteInv'
<1>1. /\ host.step \in {"erase", "address", "block"} /\ ~host.waiting /\ rom.state = "idle"
      /\ rom' = [rom EXCEPT !.state = "queued", !.command = host.step]
      /\ host' = [host EXCEPT !.waiting = TRUE]
      /\ UNCHANGED <<board, flash, length, result, faults>>
  BY DEF Send, Answers
<1>2. /\ host'.step = host.step /\ host'.at = host.at /\ host'.waiting
      /\ rom'.state = "queued" /\ rom'.command = host.step /\ ~Over /\ ~Over'
  BY <1>1 DEF WriteInv, Shapes, Over
<1>3. Shapes'
  BY <1>1, <1>2 DEF WriteInv, Shapes, SectorsFor, SectorStart, Blocks
<1>4. Paired'
  BY <1>1, <1>2 DEF Paired
<1>5. ErasedTo' = ErasedTo /\ WrittenTo' = WrittenTo
  BY <1>2 DEF ErasedTo, WrittenTo, SectorStart
<1>6. Progress'
  BY <1>1, <1>2, <1>5 DEF WriteInv, Progress, BlankBetween, Written, Units
<1>7. (Reported /\ NothingSpoilt)'
  BY <1>1, <1>2 DEF WriteInv, Reported, NothingSpoilt, Units
<1>8. QED
  BY <1>3, <1>4, <1>6, <1>7 DEF WriteInv

(* The bootloader takes a command up, or refuses it.                        *)
LEMMA RomStep ==
  ASSUME WriteInv, UNCHANGED <<board, flash, host, length, result>>, faults' \in 0 .. MaxFaults,
         \/ rom.state = "queued" /\ host.waiting /\ rom' = [rom EXCEPT !.state = "busy"]
         \/ rom' = [rom EXCEPT !.state = "error"]
  PROVE  WriteInv'
<1>1. rom' \in [state : {"idle", "queued", "busy", "error"},
                command : {"none", "erase", "address", "block"}, address : {0, Elsewhere}]
      /\ rom'.command = rom.command /\ rom'.address = rom.address
      /\ \/ rom.state = "queued" /\ host.waiting /\ rom'.state = "busy"
         \/ rom'.state = "error"
  BY DEF WriteInv, Shapes
<1>2. Shapes'
  BY <1>1 DEF WriteInv, Shapes, SectorsFor, SectorStart, Blocks
<1>3. Paired'
  BY <1>1 DEF WriteInv, Paired
<1>4. rom'.state # "error" => ErasedTo' = ErasedTo /\ WrittenTo' = WrittenTo
  BY <1>1 DEF ErasedTo, WrittenTo, SectorStart, Over
<1>5. Progress'
  BY <1>1, <1>4 DEF WriteInv, Progress, BlankBetween, Written, Over, Units
<1>6. (Reported /\ NothingSpoilt)'
  BY DEF WriteInv, Reported, Written, NothingSpoilt, Units
<1>7. QED
  BY <1>2, <1>3, <1>5, <1>6 DEF WriteInv

(* The host reads that the bootloader is done, and goes on.                  *)
LEMMA IdleStep == ASSUME WriteInv, PollIdle PROVE WriteInv'
<1>1. /\ host.waiting /\ rom.state = "idle" /\ Over
      /\ host.step \in {"erase", "address", "block"}
      /\ UNCHANGED <<board, flash, rom, length, result, faults>>
      /\ result = "none" /\ (host.step # "erase" => rom.address = 0)
  BY DEF PollIdle, Answers, Over, WriteInv, Paired, Progress, Reported
<1>2. length \in 1 .. Size /\ length \in Nat \ {0} /\ Size \in Nat
  BY DfuWriteAssumption, Layout DEF WriteInv, Shapes
<1>3. Reported' /\ NothingSpoilt'
  BY <1>1 DEF WriteInv, Reported, NothingSpoilt, Units
<1>4. CASE host.step = "erase"
  <2>1. host' = AfterErase(host.at) /\ host.at \in SectorsFor(length)
    BY <1>1, <1>4 DEF PollIdle, WriteInv, Shapes
  <2>2. BlankBetween(0, SectorStart(host.at) + SectorSizes[host.at])
    BY <1>1, <1>4 DEF WriteInv, Progress, ErasedTo
  <2>3. /\ host.at \in 1 .. N /\ SectorStart(host.at) \in Nat /\ SectorSizes[host.at] \in Nat
    BY <2>1, SectorBounds
  <2>4. CASE host.at + 1 \in SectorsFor(length)
    <3>1. host' = [host EXCEPT !.waiting = FALSE, !.at = host.at + 1]
      BY <2>1, <2>4 DEF AfterErase
    <3>2. /\ host' \in [step : {"idle", "clear", "erase", "address", "block", "leave"},
                        waiting : BOOLEAN, at : Nat]
          /\ host'.step = "erase" /\ host'.at = host.at + 1 /\ ~host'.waiting
      <4>1. host \in [step : {"idle", "clear", "erase", "address", "block", "leave"},
                     waiting : BOOLEAN, at : Nat] /\ host.at + 1 \in Nat
        BY <2>3 DEF WriteInv, Shapes
      <4>2. QED
        BY <1>4, <3>1, <4>1
    <3>3. host.at + 1 \in 1 .. N
      BY <2>4 DEF SectorsFor, N
    <3>4. SectorStart(host.at + 1) = SectorStart(host.at) + SectorSizes[host.at]
      BY <2>3, <3>3, Layout
    <3>5. ErasedTo' = SectorStart(host.at) + SectorSizes[host.at]
      BY <3>2, <3>4 DEF ErasedTo, Over, SectorStart
    <3>6. Shapes'
      BY <1>1, <2>4, <3>2 DEF WriteInv, Shapes
    <3>7. Paired' /\ Progress'
      BY <1>1, <2>2, <3>2, <3>5 DEF WriteInv, Paired, Progress, BlankBetween, Units
    <3>8. QED
      BY <1>3, <3>6, <3>7 DEF WriteInv
  <2>5. CASE host.at + 1 \notin SectorsFor(length)
    <3>1. host' = [step |-> "address", waiting |-> FALSE, at |-> 0]
      BY <2>1, <2>5 DEF AfterErase
    <3>2. length <= SectorStart(host.at) + SectorSizes[host.at]
      BY <1>2, <2>1, <2>5, LastSector
    <3>3. BlankBetween(0, length)
      BY <1>2, <2>2, <2>3, <3>2 DEF BlankBetween, Units
    <3>4. Shapes'
      BY <1>1, <3>1 DEF WriteInv, Shapes
    <3>5. Paired' /\ Progress'
      BY <1>1, <3>1, <3>3 DEF WriteInv, Paired, Progress, BlankBetween, Over, Units
    <3>6. QED
      BY <1>3, <3>4, <3>5 DEF WriteInv
  <2>6. QED
    BY <2>4, <2>5
<1>5. CASE host.step = "address"
  <2>1. host' = [step |-> "block", waiting |-> FALSE, at |-> 0]
    BY <1>1, <1>5 DEF PollIdle
  <2>2. BlankBetween(0, length)
    BY <1>1, <1>5 DEF WriteInv, Progress
  <2>3. Blocks(length) \in Nat \ {0}
    BY <1>2, BlocksCover, DfuWriteAssumption DEF Blocks
  <2>4. Shapes'
    BY <1>1, <2>1, <2>3 DEF WriteInv, Shapes, Blocks
  <2>5. WrittenTo' = 0
    BY <2>1, DfuWriteAssumption DEF WrittenTo, Over
  <2>6. Written(0)
    BY Layout DEF Written, Units
  <2>7. Paired' /\ Progress'
    BY <1>1, <1>5, <2>1, <2>2, <2>5, <2>6
       DEF WriteInv, Paired, Progress, BlankBetween, Written, Units
  <2>8. QED
    BY <1>3, <2>4, <2>7 DEF WriteInv
<1>6. CASE host.step = "block"
  <2>1. host' = AfterBlock(host.at) /\ host.at \in Nat
    BY <1>1, <1>6 DEF PollIdle, WriteInv, Shapes
  <2>2. Written((host.at + 1) * BlockUnits) /\ BlankBetween((host.at + 1) * BlockUnits, length)
    BY <1>1, <1>6 DEF WriteInv, Progress, WrittenTo
  <2>3. Blocks(length) \in Nat
    BY <1>2, BlocksCover, DfuWriteAssumption DEF Blocks
  <2>4. CASE host.at + 1 < Blocks(length)
    <3>1. host' = [host EXCEPT !.waiting = FALSE, !.at = host.at + 1]
      BY <2>1, <2>4 DEF AfterBlock
    <3>2. /\ host' \in [step : {"idle", "clear", "erase", "address", "block", "leave"},
                        waiting : BOOLEAN, at : Nat]
          /\ host'.step = "block" /\ host'.at = host.at + 1 /\ ~host'.waiting
      <4>1. host \in [step : {"idle", "clear", "erase", "address", "block", "leave"},
                     waiting : BOOLEAN, at : Nat] /\ host.at + 1 \in Nat
        BY <2>1 DEF WriteInv, Shapes
      <4>2. QED
        BY <1>6, <3>1, <4>1
    <3>3. WrittenTo' = (host.at + 1) * BlockUnits
      BY <3>2 DEF WrittenTo, Over
    <3>4. Shapes'
      BY <1>1, <2>1, <2>3, <2>4, <3>2 DEF WriteInv, Shapes
    <3>5. Paired' /\ Progress'
      BY <1>1, <1>6, <2>2, <3>2, <3>3
         DEF WriteInv, Paired, Progress, BlankBetween, Written, Units
    <3>6. QED
      BY <1>3, <3>4, <3>5 DEF WriteInv
  <2>5. CASE ~(host.at + 1 < Blocks(length))
    <3>1. host' = [step |-> "leave", waiting |-> FALSE, at |-> 0]
      BY <2>1, <2>5 DEF AfterBlock
    <3>2. (host.at + 1) * BlockUnits >= length
      <4>1. host.at + 1 >= Blocks(length)
        BY <2>1, <2>3, <2>5
      <4>2. host.at + 1 >= (length + BlockUnits - 1) \div BlockUnits
        BY <4>1 DEF Blocks
      <4>3. BlockUnits \in Nat \ {0}
        BY DfuWriteAssumption
      <4>4. QED
        BY <1>2, <2>1, <4>2, <4>3, BlocksCover
    <3>3. PICK reach \in Nat : reach = (host.at + 1) * BlockUnits
      BY <2>1, DfuWriteAssumption
    <3>4. Written(length)
      BY <1>2, <2>2, <3>2, <3>3 DEF Written, Units
    <3>5. Shapes'
      BY <1>1, <3>1 DEF WriteInv, Shapes
    <3>6. Paired' /\ Progress'
      BY <1>1, <3>1, <3>4 DEF WriteInv, Paired, Progress, Written, Units
    <3>7. QED
      BY <1>3, <3>5, <3>6 DEF WriteInv
  <2>6. QED
    BY <2>4, <2>5
<1>7. QED
  BY <1>1, <1>4, <1>5, <1>6

(* A new flash has written nothing yet.                                     *)
LEMMA StartStep == ASSUME WriteInv, Start PROVE WriteInv'
<1>1. /\ host.step = "idle" /\ board = "rom" /\ host' = [Idle EXCEPT !.step = "clear"]
      /\ length' \in ImageLengths /\ result' = "none"
      /\ UNCHANGED <<board, flash, rom, faults>>
  BY DEF Start
<1>2. /\ host' = [step |-> "clear", waiting |-> FALSE, at |-> 0]
      /\ host'.step = "clear" /\ ~host'.waiting /\ ~host.waiting
  BY <1>1 DEF Idle, WriteInv, Paired
<1>3. Shapes'
  <2>1. host' \in [step : {"idle", "clear", "erase", "address", "block", "leave"},
                   waiting : BOOLEAN, at : Nat]
    BY <1>2
  <2>2. host'.step # "erase" /\ host'.step # "block"
    BY <1>2
  <2>3. QED
    BY <1>1, <2>1, <2>2 DEF WriteInv, Shapes
<1>4. (Paired /\ Progress /\ Reported /\ NothingSpoilt)'
  BY <1>1, <1>2 DEF WriteInv, Paired, Progress, Reported, NothingSpoilt, Units
<1>5. QED
  BY <1>3, <1>4 DEF WriteInv

(* The flash is over with the whole image written.                          *)
LEMMA LeaveStep == ASSUME WriteInv, Leave PROVE WriteInv'
<1>1. /\ host.step = "leave" /\ host' = Idle /\ result' = "done"
      /\ board' = (IF board = "rom" THEN "reset" ELSE board)
      /\ UNCHANGED <<flash, rom, length, faults>> /\ Written(length)
  BY DEF Leave, Close, WriteInv, Progress
<1>2. Shapes'
  BY <1>1 DEF WriteInv, Shapes, Idle
<1>3. (Paired /\ Progress /\ Reported /\ NothingSpoilt)'
  BY <1>1 DEF WriteInv, Shapes, Idle, Paired, Progress, Reported, Written, NothingSpoilt, Units
<1>4. QED
  BY <1>2, <1>3 DEF WriteInv

(* One case for each action.                                                *)
LEMMA StepHolds == ASSUME WriteInv, [Next]_vars PROVE WriteInv'
<1>1. CASE DfuCommand
  BY <1>1, BoardSteps DEF DfuCommand
<1>2. CASE JumpOnBoot
  BY <1>2, BoardSteps DEF JumpOnBoot
<1>3. CASE PressReset
  BY <1>3, BoardSteps DEF PressReset
<1>4. CASE PullCable
  BY <1>4, BoardSteps DEF PullCable
<1>5. CASE PowerOn
  BY <1>5, BoardSteps DEF PowerOn
<1>6. CASE HoldBoot0
  BY <1>6, BoardSteps DEF HoldBoot0
<1>7. CASE Start
  BY <1>7, StartStep
<1>8. CASE RomFinishes
  BY <1>8, FinishStep
<1>9. CASE RomFails
  <2>1. faults' \in 0 .. MaxFaults
    BY <1>9, DfuWriteAssumption DEF RomFails, WriteInv, Shapes
  <2>2. QED
    BY <1>9, <2>1, RomStep DEF RomFails
<1>10. CASE ClearErrorState
  BY <1>10, ClearStep
<1>11. CASE Send
  BY <1>11, SendStep
<1>12. CASE PollBusy
  <2>1. faults' \in 0 .. MaxFaults
    BY <1>12 DEF PollBusy, Answers, WriteInv, Shapes
  <2>2. QED
    BY <1>12, <2>1, RomStep DEF PollBusy, Answers
<1>13. CASE PollIdle
  BY <1>13, IdleStep
<1>14. CASE Throw
  <2>1. board = "rom" => rom.state \notin {"queued", "busy"}
    BY <1>14 DEF Throw, Rejected, WriteInv, Paired
  <2>2. QED
    BY <1>14, <2>1, FailedStep DEF Throw
<1>15. CASE Stall
  <2>1. board = "rom" => rom.state \notin {"queued", "busy"}
    BY <1>15 DEF Stall, WriteInv, Paired
  <2>2. QED
    BY <1>15, <2>1, FailedStep DEF Stall
<1>16. CASE Leave
  BY <1>16, LeaveStep
<1>17. CASE UNCHANGED vars
  BY <1>17, BoardSteps DEF vars, WriteInv, Shapes
<1>18. QED
  BY <1>1, <1>2, <1>3, <1>4, <1>5, <1>6, <1>7, <1>8, <1>9, <1>10, <1>11, <1>12, <1>13, <1>14,
     <1>15, <1>16, <1>17 DEF Next, Rom, Host

(* The invariant of every behaviour.                                        *)
LEMMA WriteInvHolds == Spec => []WriteInv
<1>1. Init => WriteInv
  BY InitHolds
<1>2. WriteInv /\ [Next]_vars => WriteInv'
  BY StepHolds
<1>3. QED
  BY <1>1, <1>2, PTL DEF Spec
-----------------------------------------------------------------------------
(* dfu.js's types: at a sector of the image while it erases, at a block of   *)
(* the image while it writes.                                               *)
THEOREM DfuTypes == Spec => []TypeOK
<1>1. WriteInv => TypeOK
  BY DEF WriteInv, Shapes, TypeOK
<1>2. QED
  BY <1>1, WriteInvHolds, PTL

(* flashFirmware's "flash complete": the whole image is where it belongs.    *)
THEOREM WholeImageTheorem == Spec => []DoneIsWholeImage
<1>1. ASSUME WriteInv PROVE DoneIsWholeImage
  <2>1. length \in Nat /\ length <= Size /\ Size \in Nat
    BY <1>1, DfuWriteAssumption, Layout DEF WriteInv, Shapes
  <2>2. ASSUME result = "done", NEW u \in 0 .. length - 1 PROVE flash[u] = u
    <3>1. u \in Units /\ u < length
      BY <2>1 DEF Units
    <3>2. QED
      BY <1>1, <2>2, <3>1 DEF WriteInv, Reported, Written
  <2>3. QED
    BY <2>2 DEF DoneIsWholeImage
<1>2. QED
  BY <1>1, WriteInvHolds, PTL

(* Every unit the bootloader programs was erased before.                    *)
THEOREM ErasedFirstTheorem == Spec => []NothingSpoilt
<1>1. WriteInv => NothingSpoilt
  BY DEF WriteInv
<1>2. QED
  BY <1>1, WriteInvHolds, PTL

(* sectorsFor: a sector without a unit of the image is left alone.           *)
THEOREM OnlyItsSectorsTheorem == Spec => OnlyItsSectors
<1>1. ASSUME WriteInv, [Next]_vars
      PROVE  [\A i \in 1 .. Len(SectorSizes) :
                Sector(i) \cap (0 .. length - 1) = {} =>
                  \A u \in Sector(i) : flash'[u] = flash[u]]_vars
  <2>1. CASE flash' = flash
    BY <2>1
  <2>2. CASE RomFinishes /\ flash' # flash
    <3>1. /\ board = "rom" /\ rom.state = "busy" /\ host.waiting
          /\ rom.command = host.step /\ (rom.command = "block" => rom.address = 0)
      BY <1>1, <2>2 DEF RomFinishes, WriteInv, Shapes, Paired, Progress
    <3>2. SUFFICES ASSUME NEW i \in 1 .. N, Sector(i) \cap (0 .. length - 1) = {},
                          NEW u \in Sector(i)
                   PROVE  flash'[u] = flash[u]
      BY DEF N
    <3>3. /\ SectorStart(i) \in Nat /\ SectorSizes[i] \in Nat \ {0}
          /\ length \in Nat /\ ~(SectorStart(i) < length)
      <4>1. SectorStart(i) \in Nat /\ SectorSizes[i] \in Nat \ {0}
            /\ length \in Nat
        BY <1>1, Layout, NType, DfuWriteAssumption DEF WriteInv, Shapes
      <4>2. SectorStart(i) \in Sector(i)
        BY <4>1 DEF Sector
      <4>3. QED
        BY <3>2, <4>1, <4>2
    <3>4. u \in Int /\ u >= SectorStart(i) /\ u < SectorStart(i) + SectorSizes[i]
      BY <3>3 DEF Sector
    <3>5. u \in Units
      <4>1. u < Size
        <5>1. N \in Nat /\ N > 0 /\ N \in 1 .. N
          BY NType
        <5>2. CASE i = N
          BY <3>3, <3>4, <5>1, <5>2, Layout
        <5>3. CASE i < N
          <6>1. SectorStart(i) + SectorSizes[i] <= SectorStart(N)
            BY <5>1, <5>3, SectorsApart
          <6>2. Size = SectorStart(N) + SectorSizes[N]
                /\ SectorStart(N) \in Nat /\ SectorSizes[N] \in Nat
            BY <5>1, Layout, NType
          <6>3. QED
            BY <3>3, <3>4, <6>1, <6>2
        <5>4. QED
          BY <5>1, <5>2, <5>3
      <4>2. QED
        BY <3>3, <3>4, <4>1, Layout DEF Units
    <3>6. CASE rom.command = "erase"
      <4>1. host.at \in SectorsFor(length) /\ flash' = Erased(host.at)
        BY <1>1, <2>2, <3>1, <3>6 DEF RomFinishes, WriteInv, Shapes
      <4>2. /\ host.at \in 1 .. N /\ SectorStart(host.at) < length
            /\ SectorStart(host.at) \in Nat /\ SectorSizes[host.at] \in Nat
        BY <4>1, SectorBounds DEF SectorsFor
      <4>3. host.at < i
        <5>1. i # host.at
          BY <3>3, <4>2
        <5>2. SUFFICES ASSUME i < host.at PROVE FALSE
          BY <4>2, <5>1, NType
        <5>3. SectorStart(i) + SectorSizes[i] <= SectorStart(host.at)
          BY <4>2, <5>2, SectorsApart
        <5>4. QED
          BY <3>3, <4>2, <5>3
      <4>4. SectorStart(host.at) + SectorSizes[host.at] <= SectorStart(i)
        BY <4>2, <4>3, SectorsApart
      <4>5. u \notin Sector(host.at)
        BY <3>3, <3>4, <4>2, <4>4 DEF Sector
      <4>6. QED
        BY <3>5, <4>1, <4>5 DEF Erased
    <3>7. CASE rom.command = "block"
      <4>1. flash' = Programmed(host.at)
        BY <2>2, <3>7 DEF RomFinishes
      <4>2. ~(u < rom.address + length)
        BY <3>1, <3>3, <3>4, <3>7
      <4>3. QED
        BY <3>5, <4>1, <4>2 DEF Programmed
    <3>8. CASE rom.command \notin {"erase", "block"}
      BY <2>2, <3>8 DEF RomFinishes
    <3>9. QED
      BY <3>6, <3>7, <3>8
  <2>3. CASE ~RomFinishes
    BY <1>1, <2>1, <2>3 DEF Next, Rom, Host, vars, DfuCommand, JumpOnBoot, PressReset, PullCable,
       PowerOn, HoldBoot0, Start, RomFails, ClearErrorState, Send, PollBusy, PollIdle, Throw,
       Stall, Leave, Answers
  <2>4. QED
    BY <2>1, <2>2, <2>3
<1>2. QED
  BY <1>1, WriteInvHolds, PTL DEF Spec, OnlyItsSectors

(* dfu.cpp: the word is in the register only while a request is unserved.    *)
THEOREM MagicTheorem == Spec => []MagicIsAsked
<1> DEFINE Asked == (magic \in BOOLEAN) /\ MagicIsAsked
<1>1. Init => Asked
  BY DEF Init, MagicIsAsked
<1>2. ASSUME Asked, [Next]_vars PROVE Asked'
  <2>1. CASE DfuCommand
    BY <2>1 DEF DfuCommand, MagicIsAsked
  <2>2. CASE JumpOnBoot
    <3>1. CASE magic
      <4>1. magic' = FALSE
        BY <2>2, <3>1 DEF JumpOnBoot, MagicAfterBoot
      <4>2. QED
        BY <4>1 DEF MagicIsAsked
    <3>2. CASE ~magic
      <4>1. magic' = magic
        BY <2>2, <3>2 DEF JumpOnBoot
      <4>2. QED
        BY <1>2, <3>2, <4>1 DEF MagicIsAsked
    <3>3. QED
      BY <3>1, <3>2
  <2>3. CASE PullCable
    <3>1. owed' = owed /\ (magic' = magic \/ magic' = FALSE)
      BY <2>3, Zenon DEF PullCable
    <3>2. CASE magic' = magic
      BY <1>2, <3>1, <3>2 DEF MagicIsAsked
    <3>3. CASE magic' = FALSE
      BY <3>3 DEF MagicIsAsked
    <3>4. QED
      BY <3>1, <3>2, <3>3
  <2>4. CASE UNCHANGED <<magic, owed>>
    BY <1>2, <2>4 DEF MagicIsAsked
  <2>5. CASE Rom
    BY <2>4, <2>5 DEF Rom, RomFinishes, RomFails
  <2>6. CASE Host
    BY <2>4, <2>6 DEF Host, ClearErrorState, Send, PollBusy, PollIdle, Throw, Stall, Leave, Answers
  <2>7. CASE PressReset \/ PowerOn \/ HoldBoot0 \/ Start \/ UNCHANGED vars
    BY <2>4, <2>7 DEF PressReset, PowerOn, HoldBoot0, Start, vars
  <2>8. QED
    BY <1>2, <2>1, <2>2, <2>3, <2>5, <2>6, <2>7 DEF Next
<1>3. QED
  BY <1>1, <1>2, PTL DEF Spec
=============================================================================
