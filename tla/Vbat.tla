-------------------------------- MODULE Vbat --------------------------------
(***************************************************************************)
(* Battery sense and the frame that carries it to the handset.  Every pass   *)
(* of loop() the vbat module measures the pack, latches a cell count and     *)
(* publishes on the battery bus; rx, which ticks after it, sends the bus'    *)
(* contents every kBatteryFrameMs.  Packs are connected and removed, and     *)
(* the divider is fitted, while all that goes on.                           *)
(***************************************************************************)
EXTENDS Millis, BatteryMath

CONSTANTS
  Taps,            \* voltages a pack can put on the sense pin, millivolts
  SimMvs,          \* points of the simulated sweep
  Scales,          \* values of vbat.scale in use
  Selections,      \* values of vbat.cells in use: 0 is auto, i > 0 is i + 1 cells
  ConfirmMs,       \* kCellConfirmMs
  BatteryFrameMs,  \* kBatteryFrameMs
  MaxPass          \* bound: a pass of loop() takes at most this long

SimLowMv  == 13200
SimHighMv == 16800
SweepMv == SimLowMv .. SimHighMv
ScaleMin == 1000
ScaleMax == 30000

ASSUME VbatAssumption ==
  /\ Taps \subseteq Nat /\ SimMvs \subseteq SweepMv
  /\ Scales \subseteq ScaleMin .. ScaleMax
  /\ Selections \subseteq 0 .. 5
  /\ ConfirmMs \in Nat \ {0} /\ BatteryFrameMs \in Nat \ {0} /\ MaxPass \in Nat \ {0}
  /\ ConfirmMs + MaxPass < Wrap
  /\ BatteryFrameMs + MaxPass < Wrap

Sources   == {"off", "adc", "sim"}
CellsAuto == 0
Unsettled == 255      \* CellLatch::kUnsettled

VARIABLES
  now,        \* millis() at the top of this pass
  tap,        \* what the sense pin carries, Floating when no divider holds it
  cfg,        \* [source, scale, cells]: the parameters, mirrored on change
  wired,      \* wired_, what the last probe found
  mv, pct,    \* mv_, pct_
  cells,      \* cells_
  latch,      \* CellLatch: [candidate, since]
  bus,        \* core::Battery: [mv, cells, pct, fresh]
  lastBatt,   \* rx's lastBattMs_: when it last sent what the bus held
  held,       \* history: [n, ms], how long readings have detected n cells
  inherited   \* history: the count in use is not one latched from the pack,
              \* source and scale there are now

vars == <<now, tap, cfg, wired, mv, pct, cells, latch, bus, lastBatt, held,
          inherited>>

Floating == -1     \* in place of a voltage: no divider holds the pin

(* What adcMv() reads; a floating pin shows about a third of the supply.     *)
FloatingTap == 1100
AdcMv == PackMvFromTap(IF tap = Floating THEN FloatingTap ELSE tap, cfg.scale)

Selected(sel) == IF sel = CellsAuto THEN 0 ELSE sel + 1

NoLatch  == [candidate |-> Unsettled, since |-> 0]
NotHeld  == [n |-> Unsettled, ms |-> 0]

(* senseWired: a floating pin follows both pulls, a divider holds it.        *)
SenseWired == tap # Floating

(* attach and begin: the stored settings, and a probe if they ask for one.   *)
Init ==
  /\ now \in Time
  /\ tap \in Taps \cup {Floating}
  /\ cfg \in [source : Sources, scale : Scales, cells : Selections]
  /\ wired = (cfg.source = "adc" => SenseWired)
  /\ mv = 0 /\ pct = 0
  /\ cells = Selected(cfg.cells)
  /\ latch = NoLatch
  /\ bus = [mv |-> 0, cells |-> 0, pct |-> 0, fresh |-> 0]
  /\ lastBatt = 0
  /\ held = NotHeld
  /\ inherited = (cells # 0)
-----------------------------------------------------------------------------
(* CellLatch::update at t: the candidate, and what has held long enough.     *)
(* Slips: the window is stamped on every reading; it is not restarted.       *)
Update_AlwaysStamps(packMv, t) == [candidate |-> DetectCells(packMv), since |-> t]

Update_KeepsStamp(packMv, t) == [latch EXCEPT !.candidate = DetectCells(packMv)]

Update(packMv, t) ==
  LET n == DetectCells(packMv)
  IN  IF n = latch.candidate THEN latch ELSE [candidate |-> n, since |-> t]

Settled(packMv, t) ==
  IF DetectCells(packMv) = latch.candidate /\ Elapsed(t, latch.since) >= ConfirmMs
  THEN latch.candidate ELSE Unsettled

(* A settled 0 is a pack that is gone; a settled count is taken once.        *)
Latched(settled) ==
  CASE settled = 0 -> 0
    [] settled # Unsettled /\ cells = 0 -> settled
    [] OTHER -> cells

Held(packMv, d) ==
  IF DetectCells(packMv) # held.n THEN [n |-> DetectCells(packMv), ms |-> 0]
  ELSE [held EXCEPT !.ms = IF @ + d > ConfirmMs THEN ConfirmMs ELSE @ + d]

Publish(packMv, t, d) ==
  /\ mv' = packMv
  /\ latch' = Update(packMv, t)
  /\ cells' = Latched(Settled(packMv, t))
  /\ pct' = RemainingPct(packMv, cells')
  /\ bus' = [mv |-> packMv, cells |-> cells', pct |-> pct', fresh |-> t]
  /\ held' = Held(packMv, d)
  /\ inherited' = (inherited /\ cells' # 0)

(* VbatDriver::tick.                                                         *)
Measured ==
  CASE cfg.source = "sim" -> SimMvs
    [] cfg.source = "adc" /\ wired -> {AdcMv}
    [] OTHER -> {}

(* RxDriver::sendBattery, later in the same pass.  A frame that does not fit *)
(* the UART's buffer is neither sent nor stamped.                          *)
SendBattery(t) ==
  \/ /\ bus'.fresh # 0
     /\ Elapsed(t, lastBatt) >= BatteryFrameMs
     /\ lastBatt' = t
  \/ UNCHANGED lastBatt

(* A pass of loop() that begins d milliseconds after the last one.           *)
Pass(d) ==
  LET t == Later(now, d)
  IN  /\ now' = t
      /\ \/ \E m \in Measured : Publish(m, t, d)
         \/ Measured = {} /\ UNCHANGED <<mv, latch, cells, pct, bus, held, inherited>>
      /\ SendBattery(t)
      /\ UNCHANGED <<tap, cfg, wired>>
-----------------------------------------------------------------------------
(* A count that outlives a change is no longer the pack's own.              *)
Inherit == inherited' = (cells' # 0)

(* onParamChanged.  Nothing measured under another source or multiplier is   *)
(* kept; an explicit count replaces the latch.  Slip: the bus keeps it.     *)
ForgetCount ==
  /\ latch' = NoLatch
  /\ cells' = IF cfg.cells = CellsAuto THEN 0 ELSE cells

SourceBus_Kept == bus

SourceBus == [bus EXCEPT !.mv = 0, !.cells = cells', !.pct = 0]

SetSource ==
  /\ \E s \in Sources \ {cfg.source} :
       /\ cfg' = [cfg EXCEPT !.source = s]
       /\ wired' = IF s = "adc" THEN SenseWired ELSE wired
  /\ mv' = 0 /\ pct' = 0
  /\ ForgetCount
  /\ bus' = SourceBus
  /\ Inherit
  /\ UNCHANGED <<now, tap, lastBatt, held>>

SetScale ==
  /\ \E s \in Scales \ {cfg.scale} : cfg' = [cfg EXCEPT !.scale = s]
  /\ ForgetCount
  /\ Inherit
  /\ UNCHANGED <<now, tap, wired, mv, pct, bus, lastBatt, held>>

SetCells ==
  /\ \E sel \in Selections :
       /\ cfg' = [cfg EXCEPT !.cells = sel]
       /\ cells' = Selected(sel)
  /\ latch' = NoLatch
  /\ Inherit
  /\ UNCHANGED <<now, tap, wired, mv, pct, bus, lastBatt, held>>

(* The environment connects or removes a pack, or fits the divider.          *)
Rewire ==
  /\ \E x \in (Taps \cup {Floating}) \ {tap} : tap' = x
  /\ inherited' = (cells # 0)
  /\ UNCHANGED <<now, cfg, wired, mv, pct, cells, latch, bus, lastBatt, held>>

Passes   == \E d \in 1 .. MaxPass : Pass(d)
Commands == SetSource \/ SetScale \/ SetCells

Next == Passes \/ Rewire \/ Commands

Spec     == Init /\ [][Next]_vars
FairSpec == Spec /\ WF_vars(Passes)
-----------------------------------------------------------------------------
Counts == 0 .. 16

(* Readings, counts and stamps stay in their ranges; a percentage is one.    *)
TypeOK ==
  /\ now \in Time
  /\ tap \in Taps \cup {Floating}
  /\ cfg \in [source : Sources, scale : Scales, cells : Selections]
  /\ wired \in BOOLEAN
  /\ mv \in 0 .. U16Max /\ pct \in 0 .. 100
  /\ cells \in Counts
  /\ latch \in [candidate : Counts \cup {Unsettled}, since : Time]
  /\ bus \in [mv : 0 .. U16Max, cells : Counts, pct : 0 .. 100, fresh : Time]
  /\ lastBatt \in Time
  /\ held \in [n : Counts \cup {Unsettled}, ms : 0 .. ConfirmMs]
  /\ inherited \in BOOLEAN

(* What a pass does to the latched count was confirmed by readings that      *)
(* agreed for the whole of kCellConfirmMs: a count comes from none, and goes  *)
(* to none; sag, contact bounce and the clock's wrap never flip it           *)
(* (VbatDriver::publish, CellLatch).                                       *)
CountIsConfirmed ==
  [][(Passes /\ cells' # cells) =>
       /\ held'.n = cells' /\ held'.ms = ConfirmMs
       /\ (cells = 0 \/ cells' = 0)]_vars

(* With the source off, or a pin nothing is wired to, rx has nothing but 0 to *)
(* send: no measurement from before the change is left on the bus, and no      *)
(* floating pin is taken for a pack, however the divider came and went.       *)
BusIsSelected ==
  (cfg.source = "off" \/ (cfg.source = "adc" /\ ~wired)) => bus.mv = 0 /\ mv = 0

(* A pack that stays is counted in the end, and with its own count unless it  *)
(* found one in use: a swap too quick for the absence to be confirmed, and an *)
(* explicit selection, leave theirs (publish: "latch once").  A count whose   *)
(* pack stays away is given up.                                            *)
PackIsCounted ==
  <>[][Passes]_vars =>
    <>[]((cfg.source = "adc" /\ wired) =>
           /\ cells # 0 <=> DetectCells(AdcMv) # 0
           /\ inherited \/ cells = DetectCells(AdcMv))

(* battery-sense.md:64-66: an explicit count, once it is the count in use,    *)
(* stays right "even when you connect a nearly flat one" (publish takes any  *)
(* settled count when it has none, and a settled 0 took the explicit one).  *)
ExplicitCountStays ==
  (cells # 0 /\ cfg.cells # CellsAuto) => cells = Selected(cfg.cells)

(* vbat_driver.cpp:158: with the source off, rx sends no frame.              *)
OffSendsNothing ==
  [][(Passes /\ cfg.source = "off") => UNCHANGED lastBatt]_vars
=============================================================================
