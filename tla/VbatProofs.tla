------------------------------ MODULE VbatProofs ------------------------------
(***************************************************************************)
(* The cell count changes only on readings that agreed for kCellConfirmMs,   *)
(* for every modulus of the clock and every length of a pass.  The invariant *)
(* ties the latch's stamp to the history: what the clock says has passed     *)
(* since the stamp never exceeds how long the readings have agreed.         *)
(***************************************************************************)
EXTENDS Vbat, TLAPS

(* Under these settings no pass measures anything.                          *)
Silent ==
  \/ cfg.source = "off"
  \/ cfg.source = "adc" /\ ~wired
  \/ cfg.source = "sim" /\ SimMvs = {}

StampHonest ==
  latch.candidate # Unsettled =>
    /\ ~Silent
    /\ held.n = latch.candidate
    /\ Elapsed(now, latch.since) <= held.ms \/ held.ms = ConfirmMs

VbatInv == TypeOK /\ StampHonest

-----------------------------------------------------------------------------
LEMMA Bounds ==
  /\ ConfirmMs \in Nat /\ MaxPass \in Nat /\ Wrap \in Nat
  /\ ConfirmMs > 0 /\ MaxPass > 0 /\ ConfirmMs + MaxPass < Wrap
BY WrapAssumption, VbatAssumption

(* The constants' values, stated apart from the ranges they bound.            *)
LEMMA Word == U16Max \in Nat /\ U16Max > 0 /\ \A k \in Nat : k <= U16Max => k <= 65535
BY DEF U16Max

LEMMA Scaling == ScaleMin \in Nat /\ ScaleMin > 0 /\ ScaleMax \in Nat
BY DEF ScaleMin, ScaleMax

(* The simulated pack is one that the reading's width holds.                *)
LEMMA SweepFits == \A m \in SweepMv : m \in 0 .. U16Max
<1>1. SimLowMv \in Nat /\ SimHighMv \in Nat /\ SimHighMv <= U16Max
  BY DEF SimLowMv, SimHighMv, U16Max
<1> QED BY <1>1, Word DEF SweepMv

LEMMA Inputs ==
  /\ \A x \in Taps : x \in Nat
  /\ \A m \in SimMvs : m \in 0 .. U16Max
  /\ \A s \in Scales : s \in ScaleMin .. ScaleMax
  /\ \A sel \in Selections : Selected(sel) \in Counts
<1>1. \A x \in Taps : x \in Nat
  BY VbatAssumption
<1>2. \A m \in SimMvs : m \in SweepMv
  BY VbatAssumption
<1>3. \A s \in Scales : s \in ScaleMin .. ScaleMax
  BY VbatAssumption
<1>4. \A sel \in Selections : sel \in 0 .. 5
  BY VbatAssumption
<1>5. \A m \in SimMvs : m \in 0 .. U16Max
  BY <1>2, SweepFits, Zenon
<1>6. \A sel \in Selections : Selected(sel) \in Counts
  BY <1>4 DEF Selected, CellsAuto, Counts
<1> QED BY <1>1, <1>3, <1>5, <1>6

LEMMA LaterInTime ==
  ASSUME NEW t, NEW s, NEW d, t \in Time, s \in Time, d \in 1 .. MaxPass
  PROVE  /\ Later(t, d) \in Time
         /\ Elapsed(t, s) \in Nat
         /\ Elapsed(Later(t, d), s) \in Nat
         /\ Elapsed(Later(t, d), s) <= Elapsed(t, s) + d
         /\ Elapsed(t, t) = 0
<1>1. /\ Wrap \in Nat /\ MaxPass \in Nat /\ MaxPass < Wrap
      /\ t \in Nat /\ t < Wrap /\ s \in Nat /\ s < Wrap /\ d \in Nat /\ d <= MaxPass
  BY Bounds DEF Time
<1> QED BY <1>1 DEF Later, Elapsed, Time

LEMMA ReadingFits ==
  ASSUME NEW x \in Nat, NEW s \in ScaleMin .. ScaleMax
  PROVE  PackMvFromTap(x, s) \in 0 .. U16Max
<1>1. PICK p \in Nat : p = x * s
  BY Scaling
<1>2. PICK q \in Nat : q = p \div 1000
  OBVIOUS
<1>3. PackMvFromTap(x, s) = IF q > U16Max THEN U16Max ELSE q
  <2>1. ~(s <= 0)
    BY Scaling
  <2>2. PackMvFromTap(x, s) = LET v == (x * s) \div 1000
                              IN  IF v > U16Max THEN U16Max ELSE v
    BY <2>1, Zenon DEF PackMvFromTap
  <2> QED BY <1>1, <1>2, <2>2, SMTT(30)
<1>4. U16Max \in Nat
  BY Word
<1>5. PICK v \in Nat : v = (IF q > U16Max THEN U16Max ELSE q) /\ v <= U16Max
  BY <1>4
<1>6. PackMvFromTap(x, s) = v
  BY <1>3, <1>5, Zenon
<1>7. v \in 0 .. U16Max
  BY <1>4, <1>5
<1> QED BY <1>6, <1>7, Zenon

LEMMA CountFits ==
  ASSUME NEW m \in 0 .. U16Max
  PROVE  DetectCells(m) \in Counts /\ DetectCells(m) # Unsettled
<1>0. m \in Nat /\ m <= U16Max
  BY Word
<1>1. m \in Nat /\ m <= 65535
  BY <1>0, Word
<1>2. PICK d \in Nat : d = (m + 4300 - 1) \div 4300
  BY <1>1
<1>3. d <= 16
  BY <1>1, <1>2
<1>4. DetectCells(m) = IF m < 6000 THEN 0 ELSE d
  BY <1>2 DEF DetectCells, MinValidMv, CellDetectMv
<1>5. 0 \in 0 .. 16 /\ 0 # 255 /\ d \in 0 .. 16 /\ d # 255
  BY <1>3
<1>6. DetectCells(m) = 0 \/ DetectCells(m) = d
  BY <1>4
<1> QED BY <1>5, <1>6 DEF Counts, Unsettled

LEMMA PercentFits ==
  ASSUME NEW m \in 0 .. U16Max, NEW n \in Counts
  PROVE  RemainingPct(m, n) \in 0 .. 100
<1>1. CASE n = 0
  BY <1>1 DEF RemainingPct
<1>2. CASE n # 0
  <2>0. m \in Int /\ n \in Int /\ n > 0
    BY <1>2, Word DEF Counts
  <2>1. PICK perCell \in Int : perCell = m \div n
    BY <2>0
  <2>2. RemainingPct(m, n) =
          CASE perCell <= 3300 -> 0
            [] perCell >= 4200 -> 100
            [] OTHER -> ((perCell - 3300) * 100) \div (4200 - 3300)
    BY <1>2, <2>1 DEF RemainingPct, CellEmptyMv, CellFullMv
  <2> QED BY <2>2
<1> QED BY <1>1, <1>2

(* What a pass can measure, and when it measures nothing.                   *)
LEMMA MeasuredFits ==
  ASSUME TypeOK
  PROVE  Measured \subseteq 0 .. U16Max /\ (Measured = {} <=> Silent)
<1>0. cfg.source \in Sources /\ cfg.scale \in Scales /\ tap \in Taps \cup {Floating}
  BY DEF TypeOK
<1>1. CASE cfg.source = "sim"
  <2>1. Measured = SimMvs /\ (Silent <=> SimMvs = {})
    BY <1>1 DEF Measured, Silent
  <2> QED BY <2>1, Inputs
<1>2. CASE cfg.source = "adc" /\ wired
  <2>1. cfg.scale \in ScaleMin .. ScaleMax
    BY <1>0, Inputs
  <2>2. PICK x \in Nat : x = IF tap = Floating THEN FloatingTap ELSE tap
    <3>1. CASE tap = Floating
      BY <3>1 DEF FloatingTap
    <3>2. CASE tap # Floating
      <4>1. tap \in Nat
        BY <1>0, <3>2, Inputs
      <4> QED BY <3>2, <4>1
    <3> QED BY <3>1, <3>2
  <2>3. AdcMv \in 0 .. U16Max
    BY <2>1, <2>2, ReadingFits DEF AdcMv
  <2>4. Measured = {AdcMv} /\ ~Silent
    BY <1>2 DEF Measured, Silent
  <2> QED BY <2>3, <2>4
<1>3. CASE cfg.source = "off" \/ (cfg.source = "adc" /\ ~wired)
  BY <1>3 DEF Measured, Silent
<1> QED BY <1>0, <1>1, <1>2, <1>3 DEF Sources
-----------------------------------------------------------------------------
LEMMA Zeros ==
  /\ 0 \in Time /\ 0 \in 0 .. U16Max /\ 0 \in Counts /\ 0 \in 0 .. 100 /\ 0 \in 0 .. ConfirmMs
BY Bounds, Word DEF Time, Counts

LEMMA InitVbatInv == Init => VbatInv
<1> SUFFICES ASSUME Init PROVE VbatInv
  OBVIOUS
<1>1. cells \in Counts
  BY Inputs DEF Init
<1>2. wired \in BOOLEAN
  BY DEF Init, SenseWired
<1>3. TypeOK
  BY <1>1, <1>2, Zeros DEF Init, TypeOK, NoLatch, NotHeld
<1>4. StampHonest
  BY DEF Init, StampHonest, NoLatch
<1> QED BY <1>3, <1>4 DEF VbatInv

(* One measurement: the latch follows it, and so does the history.          *)
LEMMA PublishInv ==
  ASSUME VbatInv, NEW d \in 1 .. MaxPass, NEW m \in Measured,
         Publish(m, Later(now, d), d), now' = Later(now, d), UNCHANGED <<cfg, wired>>
  PROVE  /\ mv' \in 0 .. U16Max /\ pct' \in 0 .. 100 /\ cells' \in Counts
         /\ latch' \in [candidate : Counts \cup {Unsettled}, since : Time]
         /\ bus' \in [mv : 0 .. U16Max, cells : Counts, pct : 0 .. 100, fresh : Time]
         /\ held' \in [n : Counts \cup {Unsettled}, ms : 0 .. ConfirmMs]
         /\ inherited' \in BOOLEAN
         /\ StampHonest'
         /\ cells' # cells => /\ held'.n = cells' /\ held'.ms = ConfirmMs
                              /\ cells = 0 \/ cells' = 0
<1> DEFINE t == Later(now, d)
           n == DetectCells(m)
<1>1. /\ now \in Time /\ cells \in Counts /\ ConfirmMs \in Nat /\ d \in Nat
      /\ latch \in [candidate : Counts \cup {Unsettled}, since : Time]
      /\ held \in [n : Counts \cup {Unsettled}, ms : 0 .. ConfirmMs]
  BY VbatAssumption DEF VbatInv, TypeOK
<1>2. m \in 0 .. U16Max /\ ~Silent
  BY MeasuredFits DEF VbatInv
<1>3. n \in Counts /\ n # Unsettled
  BY <1>2, CountFits
<1>4. /\ t \in Time
      /\ Elapsed(t, t) = 0
      /\ Elapsed(now, latch.since) \in Nat /\ Elapsed(t, latch.since) \in Nat
      /\ Elapsed(t, latch.since) <= Elapsed(now, latch.since) + d
  BY <1>1, LaterInTime
<1> HIDE DEF n, t
<1>5. latch' = IF n = latch.candidate THEN latch ELSE [candidate |-> n, since |-> t]
  BY DEF Publish, Update, n, t
<1>6. held' = IF n # held.n THEN [n |-> n, ms |-> 0]
              ELSE [held EXCEPT !.ms = IF held.ms + d > ConfirmMs THEN ConfirmMs ELSE held.ms + d]
  BY DEF Publish, Held, n, t
<1>7. held' \in [n : Counts \cup {Unsettled}, ms : 0 .. ConfirmMs] /\ held'.n = n
  BY <1>1, <1>3, <1>6
<1>8. /\ latch' \in [candidate : Counts \cup {Unsettled}, since : Time]
      /\ latch'.candidate = n
  BY <1>1, <1>3, <1>4, <1>5
<1>9. n = latch.candidate =>
        Elapsed(t, latch.since) <= held'.ms \/ held'.ms = ConfirmMs
  BY <1>1, <1>3, <1>4, <1>6 DEF VbatInv, StampHonest
<1>10. now' = t
  BY DEF t
<1>11. StampHonest'
  <2>1. ~Silent'
    BY <1>2 DEF Silent
  <2>2. CASE n = latch.candidate
    <3>1. latch'.since = latch.since
      BY <1>5, <2>2
    <3> QED BY <1>7, <1>8, <1>9, <1>10, <2>1, <2>2, <3>1 DEF StampHonest
  <2>3. CASE n # latch.candidate
    <3>1. latch'.since = t /\ held'.ms \in Nat
      BY <1>1, <1>5, <1>7, <2>3
    <3> QED BY <1>4, <1>7, <1>8, <1>10, <2>1, <3>1 DEF StampHonest
  <2> QED BY <2>2, <2>3
<1>12. cells' = Latched(Settled(m, t))
  BY DEF Publish, t
<1>13. Settled(m, t) \in {n, Unsettled}
  BY DEF Settled, n
<1>14. Settled(m, t) = n => held'.ms = ConfirmMs
  BY <1>1, <1>3, <1>4, <1>7, <1>9 DEF Settled, n
<1>15. /\ cells' \in Counts
       /\ cells' # cells => cells' = n /\ Settled(m, t) = n /\ (cells = 0 \/ n = 0)
  BY <1>1, <1>3, <1>12, <1>13 DEF Latched, Counts, Unsettled
<1>16. mv' = m /\ inherited' \in BOOLEAN /\ pct' = RemainingPct(m, cells')
       /\ bus' = [mv |-> m, cells |-> cells', pct |-> pct', fresh |-> t]
  BY DEF Publish, t
<1>17. pct' \in 0 .. 100
  BY <1>2, <1>15, <1>16, PercentFits
<1> QED BY <1>2, <1>4, <1>7, <1>8, <1>11, <1>14, <1>15, <1>16, <1>17

LEMMA PassInv ==
  ASSUME VbatInv, NEW d \in 1 .. MaxPass, Pass(d)
  PROVE  /\ VbatInv'
         /\ cells' # cells => /\ held'.n = cells' /\ held'.ms = ConfirmMs
                              /\ cells = 0 \/ cells' = 0
<1>1. /\ now' = Later(now, d) /\ UNCHANGED <<tap, cfg, wired>>
      /\ lastBatt' = Later(now, d) \/ UNCHANGED lastBatt
  BY DEF Pass, SendBattery
<1>2. Later(now, d) \in Time
  BY LaterInTime DEF VbatInv, TypeOK
<1>3. CASE \E m \in Measured : Publish(m, Later(now, d), d)
  <2>1. PICK m \in Measured : Publish(m, Later(now, d), d)
    BY <1>3
  <2> QED BY <1>1, <1>2, <2>1, PublishInv DEF VbatInv, TypeOK
<1>4. CASE Measured = {} /\ UNCHANGED <<mv, latch, cells, pct, bus, held, inherited>>
  <2>1. Silent
    BY <1>4, MeasuredFits DEF VbatInv
  <2>2. latch.candidate = Unsettled
    BY <2>1 DEF VbatInv, StampHonest
  <2> QED BY <1>1, <1>2, <1>4, <2>2 DEF VbatInv, TypeOK, StampHonest
<1> QED BY <1>3, <1>4 DEF Pass

(* The commands forget the latch, and leave the history alone.              *)
LEMMA CommandInv ==
  ASSUME VbatInv, Commands \/ Rewire
  PROVE  VbatInv'
<1> USE DEF VbatInv
<1>1. CASE SetSource
  <2>1. cells' \in Counts /\ latch' = NoLatch /\ mv' = 0 /\ pct' = 0
    BY <1>1, Zeros DEF SetSource, ForgetCount, TypeOK
  <2>2. bus' = [bus EXCEPT !.mv = 0, !.cells = cells', !.pct = 0]
    BY <1>1 DEF SetSource, SourceBus
  <2>3. bus' \in [mv : 0 .. U16Max, cells : Counts, pct : 0 .. 100, fresh : Time]
    BY <2>1, <2>2, Zeros DEF TypeOK
  <2>4. wired' \in BOOLEAN /\ cfg' \in [source : Sources, scale : Scales, cells : Selections]
    BY <1>1 DEF SetSource, SenseWired, TypeOK
  <2>5. TypeOK'
    BY <1>1, <2>1, <2>3, <2>4, Zeros DEF SetSource, TypeOK, NoLatch, Inherit
  <2> QED BY <2>1, <2>5 DEF StampHonest, NoLatch
<1>2. CASE SetScale
  BY <1>2, Bounds DEF SetScale, ForgetCount, Inherit, NoLatch, TypeOK, StampHonest, Counts, Time
<1>3. CASE SetCells
  BY <1>3, Bounds, Inputs
     DEF SetCells, Inherit, NoLatch, TypeOK, StampHonest, Time
<1>4. CASE Rewire
  BY <1>4 DEF Rewire, TypeOK, StampHonest, Silent
<1> QED BY <1>1, <1>2, <1>3, <1>4 DEF Commands

LEMMA NextVbatInv == VbatInv /\ [Next]_vars => VbatInv'
<1> SUFFICES ASSUME VbatInv, [Next]_vars PROVE VbatInv'
  OBVIOUS
<1>1. CASE Passes
  BY <1>1, PassInv DEF Passes
<1>2. CASE Commands \/ Rewire
  BY <1>2, CommandInv
<1>3. CASE UNCHANGED vars
  BY <1>3 DEF vars, VbatInv, TypeOK, StampHonest, Silent
<1> QED BY <1>1, <1>2, <1>3 DEF Next

(* Readings, counts, percentages and stamps stay in their ranges: a pack of  *)
(* any voltage gives a uint16_t, at most 16 cells and 0 to 100 percent.      *)
THEOREM VbatTypes == Spec => []TypeOK
<1>1. VbatInv => TypeOK
  BY DEF VbatInv
<1> QED BY <1>1, InitVbatInv, NextVbatInv, PTL DEF Spec

(* The count in use changes only on readings that agreed for the whole of    *)
(* kCellConfirmMs (CellLatch), and only from none or to none.               *)
THEOREM CountConfirmed == Spec => CountIsConfirmed
<1>1. VbatInv /\ [Next]_vars =>
        [(Passes /\ cells' # cells) =>
           /\ held'.n = cells' /\ held'.ms = ConfirmMs
           /\ (cells = 0 \/ cells' = 0)]_vars
  BY PassInv DEF Passes
<1> QED BY <1>1, InitVbatInv, NextVbatInv, PTL DEF Spec, CountIsConfirmed

(* What lies on the bus was measured under the source that is selected.      *)
THEOREM BusSelected == Spec => []BusIsSelected
<1>1. Init => BusIsSelected
  BY DEF Init, BusIsSelected
<1>2. ASSUME VbatInv, BusIsSelected, [Next]_vars PROVE BusIsSelected'
  <2>1. CASE Passes
    <3>1. PICK d \in 1 .. MaxPass : Pass(d)
      BY <2>1 DEF Passes
    <3>2. CASE Silent
      BY <1>2, <3>1, <3>2, MeasuredFits DEF Pass, VbatInv, BusIsSelected
    <3>3. CASE ~Silent
      BY <3>1, <3>3 DEF Pass, Silent, BusIsSelected
    <3> QED BY <3>2, <3>3
  <2>2. CASE SetSource
    BY <1>2, <2>2 DEF SetSource, SourceBus, VbatInv, TypeOK, BusIsSelected
  <2>3. CASE SetScale \/ SetCells \/ Rewire
    BY <1>2, <2>3 DEF SetScale, SetCells, Rewire, VbatInv, TypeOK, BusIsSelected
  <2>4. CASE UNCHANGED vars
    BY <1>2, <2>4 DEF vars, BusIsSelected
  <2> QED BY <1>2, <2>1, <2>2, <2>3, <2>4 DEF Next, Commands
<1> QED BY <1>1, <1>2, InitVbatInv, NextVbatInv, PTL DEF Spec
=============================================================================
