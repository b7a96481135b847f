---------------------------- MODULE VehicleProofs ----------------------------
(***************************************************************************)
(* Theorems about the vehicle, for every hold, stale window, pass length,   *)
(* clock width, set of stored settings and set of frames: the arm switch    *)
(* stops both motors, and the vehicle implements FailSafe, whose promises   *)
(* follow from its steps.  And about the mixer, for every stick and every   *)
(* ratio: a mix that asks for too much keeps its proportion, and reversed    *)
(* sticks reverse the tracks.                                              *)
(***************************************************************************)
EXTENDS Vehicle, Mixing, TLAPS

(* FailSafe by itself; all but its moving are names the vehicle has.        *)
CONSTANTS Outputs, Limit, Long, Hold

VARIABLE moving

Abstract == INSTANCE FailSafe

(* The order of FailSafe's constants that its promises need.               *)
Bounds == Limit \in Nat \ {0} /\ Long \in Nat /\ Limit <= Long /\ Hold \in Nat

(* What FailSafe promises, with its types.                                 *)
Promises == Abstract!TypeOK /\ Abstract!SilenceStops /\ Abstract!SilenceCostsAHold

(* From power-up, where nothing was ever heard, the promises hold.          *)
LEMMA PromisesInit == Bounds /\ Abstract!Init => Promises
<1> SUFFICES ASSUME Bounds, Abstract!Init PROVE Promises
  OBVIOUS
<1>1. silence \in 0 .. Long /\ recovered \in 0 .. Hold
  BY DEF Bounds, Abstract!Init
<1>2. moving = {} /\ waived = {}
  BY DEF Abstract!Init
<1> QED
  BY <1>1, <1>2 DEF Promises, Abstract!TypeOK, Abstract!SilenceStops,
                    Abstract!SilenceCostsAHold

(* Every step keeps them.                                                  *)
LEMMA PromisesStep == Bounds /\ Promises /\ [Abstract!Next]_(Abstract!vars) => Promises'
<1> SUFFICES ASSUME Bounds, Promises, [Abstract!Next]_(Abstract!vars) PROVE Promises'
  OBVIOUS
<1> USE DEF Bounds, Promises, Abstract!TypeOK, Abstract!SilenceStops,
            Abstract!SilenceCostsAHold
<1>1. CASE Abstract!Millisecond
  <2>1. silence' \in 0 .. Long /\ recovered' \in 0 .. Hold
    BY <1>1 DEF Abstract!Millisecond, Abstract!UpTo
  <2>2. moving' = moving /\ waived' = waived
    BY <1>1 DEF Abstract!Millisecond
  <2>3. Abstract!MayMove(moving', waived', silence', recovered')
    BY <1>1 DEF Abstract!Millisecond
  <2> QED
    BY <2>1, <2>2, <2>3 DEF Abstract!MayMove
<1>2. CASE Abstract!Hear
  <2>1. silence' = 0 /\ recovered' = recovered
    BY <1>2 DEF Abstract!Hear
  <2>2. /\ moving' \subseteq Outputs /\ waived' \subseteq Outputs
        /\ Abstract!MayMove(moving', waived', 0, recovered)
    BY <1>2 DEF Abstract!Hear
  <2> QED
    BY <2>1, <2>2 DEF Abstract!MayMove
<1>3. CASE Abstract!Command
  <2>1. silence' = silence /\ recovered' = recovered
    BY <1>3 DEF Abstract!Command
  <2>2. /\ moving' \subseteq Outputs /\ waived' \subseteq Outputs
        /\ Abstract!MayMove(moving', waived', silence, recovered)
    BY <1>3 DEF Abstract!Command
  <2> QED
    BY <2>1, <2>2 DEF Abstract!MayMove
<1>4. CASE UNCHANGED Abstract!vars
  BY <1>4 DEF Abstract!vars
<1> QED
  BY <1>1, <1>2, <1>3, <1>4 DEF Abstract!Next

(* What an implementation of FailSafe is sure of: a silent link stops it,   *)
(* and a link that was long silent has to be back for a hold before         *)
(* anything moves.                                                         *)
THEOREM FailSafeKeepsPromises ==
  ASSUME Bounds
  PROVE  Abstract!Spec => [](Abstract!SilenceStops /\ Abstract!SilenceCostsAHold)
<1>1. Abstract!Init => Promises
  BY PromisesInit
<1>2. Promises /\ [Abstract!Next]_(Abstract!vars) => Promises'
  BY PromisesStep
<1>3. Promises => Abstract!SilenceStops /\ Abstract!SilenceCostsAHold
  BY DEF Promises
<1> QED
  BY <1>1, <1>2, <1>3, PTL DEF Abstract!Spec
-----------------------------------------------------------------------------
(* Neutral as the stages render it, taken from the proofs about one motor.   *)
Alone == INSTANCE MotorProofs WITH
  MotorParams <- MotorParamSpace, ChannelUs <- PulseUs \ {0}, motor <- motor[0], lowFor <- 0

(* The proofs about one motor mean the same parameter table and pulses.    *)
LEMMA SameSpaces ==
  /\ Alone!MotorParamSpace = MotorParamSpace
  /\ Alone!PulseUs = PulseUs
  /\ Alone!MaxUs = MaxUs
  /\ Alone!ThrottleUs = ThrottleUs
BY DEF Alone!MotorParamSpace, MotorParamSpace, Alone!MotorType, MotorType, Alone!MotorMode,
       MotorMode, Alone!ThrottleUs, ThrottleUs, Alone!MinUs, MinUs, Alone!MaxUs, MaxUs,
       Alone!RateHz, RateHz, Alone!PulseUs, PulseUs

(* They mean the same arithmetic, too.                                     *)
LEMMA SameArithmetic ==
  ASSUME NEW p, NEW us
  PROVE  /\ Alone!NeutralUs(p.min, p.max) = NeutralUs(p.min, p.max)
         /\ Alone!EffMaxUs(p) = EffMaxUs(p)
         /\ Alone!EscWrite(us, p) = EscWrite(us, p)
         /\ Alone!HbridgeWrite(us, p) = HbridgeWrite(us, p)
BY DEF Alone!NeutralUs, NeutralUs, Alone!EffMaxUs, EffMaxUs, Alone!EffectiveMaxUs,
       EffectiveMaxUs, Alone!FrameUsForRate, FrameUsForRate, Alone!MinLowUs, MinLowUs,
       Alone!EscWrite, EscWrite, Alone!MirrorAboutSpan, MirrorAboutSpan, Alone!ClampUs,
       ClampUs, Alone!HbridgeWrite, HbridgeWrite, Alone!SplitPinDuty, SplitPinDuty,
       Alone!SignedDutyPermille, SignedDutyPermille, Alone!Abs, Abs

(* The table and the channels have members, as those proofs assume.        *)
LEMMA SpacesAreInhabited == MotorParamSpace # {} /\ PulseUs \ {0} # {}
<1>1. BootMotor.cfg \in MotorParamSpace
  BY DEF BootMotor, MotorParamSpace, MotorType, MotorMode, ThrottleUs, MinUs, MaxUs, RateHz
<1>2. 1 \in PulseUs \ {0}
  BY DEF PulseUs
<1> QED
  BY <1>1, <1>2

(* Whatever the calibration, neutral is a pulse the frame does not clip, and *)
(* both stages render it as standing still.                                *)
LEMMA NeutralStandsStill ==
  ASSUME NEW p, p \in MotorParamSpace
  PROVE  /\ NeutralUs(p.min, p.max) \in ThrottleUs
         /\ EffMaxUs(p) \in MaxUs
         /\ NeutralUs(p.min, p.max) <= EffMaxUs(p)
         /\ EscWrite(NeutralUs(p.min, p.max), p) - NeutralUs(p.min, p.max) \in 0 .. 1
         /\ HbridgeWrite(NeutralUs(p.min, p.max), p).a
              = HbridgeWrite(NeutralUs(p.min, p.max), p).b
<1> USE SameSpaces, SameArithmetic, SpacesAreInhabited, VehicleAssumption, WrapAssumption,
        ArmHoldAssumption, InputStaleAssumption
<1>1. /\ NeutralUs(p.min, p.max) \in ThrottleUs
      /\ EffMaxUs(p) \in MaxUs
      /\ NeutralUs(p.min, p.max) <= EffMaxUs(p)
  BY Alone!NeutralBounds
<1>2. EscWrite(NeutralUs(p.min, p.max), p) - NeutralUs(p.min, p.max) \in 0 .. 1
  BY Alone!EscNeutral
<1>3. HbridgeWrite(NeutralUs(p.min, p.max), p).a
        = HbridgeWrite(NeutralUs(p.min, p.max), p).b
  BY Alone!HbridgeNeutral
<1> QED
  BY <1>1, <1>2, <1>3
-----------------------------------------------------------------------------
(* One evaluation of a driver that may not drive: behind an open arm switch, *)
(* or short of ARMED, it leaves the output at neutral.                      *)
LEMMA GatedIsNeutral ==
  ASSUME NEW m, NEW p, NEW at, NEW in, NEW drv, p \in MotorParamSpace, ~Disabled(p),
         BusGet(drv, ArmSlot) = 0 \/ NextArm(m, p, at, in, drv) # "ARMED"
  PROVE  AtNeutral(Apply(m, p, at, in, drv))
<1> DEFINE n   == NeutralUs(p.min, p.max)
           arm == NextArm(m, p, at, in, drv)
           a   == Apply(m, p, at, in, drv)
<1>1. /\ n \in Nat /\ n > 0 /\ ~(n > EffMaxUs(p))
  <2>1. n \in ThrottleUs /\ EffMaxUs(p) \in MaxUs /\ n <= EffMaxUs(p)
    BY NeutralStandsStill
  <2> HIDE DEF n
  <2>2. n \in Nat /\ n > 0
    BY <2>1 DEF ThrottleUs
  <2>3. EffMaxUs(p) \in Nat
    BY <2>1 DEF MaxUs
  <2> QED
    BY <2>1, <2>2, <2>3
<1>2. CommandUs(arm, p, at, in, drv) = n
  <2>1. BusGet(drv, ArmSlot) = 0 => ArmSwitchGates(HasDrive, BusGet(drv, ArmSlot))
    BY VehicleAssumption DEF ArmSwitchGates
  <2>2. arm # "ARMED"
          => NextPulseUs(arm, p.mode, p.min, p.max, p.throttle, InputUs(p, in, drv),
                         p.mode = "input" /\ ~InputFresh(p, at, in, drv), n) = n
    BY DEF NextPulseUs
  <2> QED
    BY <1>1, <2>1, <2>2 DEF CommandUs
<1>3. /\ a.cfg = p
      /\ p.type # "brushed" => a.pulse = EscWrite(n, p)
      /\ p.type = "brushed" => a.duty = HbridgeWrite(n, p)
  BY <1>1, <1>2 DEF Apply
<1>4. /\ EscWrite(n, p) - n \in 0 .. 1
      /\ HbridgeWrite(n, p).a = HbridgeWrite(n, p).b
  BY NeutralStandsStill
<1> HIDE DEF n, arm, a
<1> QED
  BY <1>3, <1>4 DEF AtNeutral, n, a

(* apply() leaves the configuration it was given.                          *)
LEMMA ApplyCfg ==
  ASSUME NEW m, NEW p, NEW at, NEW in, NEW drv
  PROVE  Apply(m, p, at, in, drv).cfg = p
BY DEF Apply

(* What the mixer publishes: the switch only on a live link, and its stamp   *)
(* only renewed by one.                                                     *)
LEMMA MixerPublishes ==
  ASSUME NEW cfg, NEW in, NEW drv, NEW at
  PROVE  LET out == Compute(cfg, in, drv, at)
             live == LinkFresh(in.fresh, at, RxStale)
         IN  /\ DOMAIN out.vals = 0 .. 4
             /\ out.fresh = IF live THEN at ELSE drv.fresh
             /\ out.vals[ArmSlot] # 0 => live
<1> DEFINE out  == Compute(cfg, in, drv, at)
           live == LinkFresh(in.fresh, at, RxStale)
<1>1. DOMAIN out.vals = 0 .. 4 /\ out.fresh = IF live THEN at ELSE drv.fresh
  BY DEF Compute
<1>2. out.vals[3] = IF SwitchOn(cfg, in, at) THEN 1 ELSE 0
  BY DEF Compute
<1>3. SwitchOn(cfg, in, at) => live
  BY DEF SwitchOn, ComputeArmed
<1> QED
  BY <1>1, <1>2, <1>3 DEF ArmSlot
-----------------------------------------------------------------------------
(* Both drivers hold configurations of the parameter table, and behind an    *)
(* open switch neither moves: in every phase, not only at the top of a pass. *)
Wired ==
  /\ DOMAIN motor = Motors
  /\ DOMAIN driveOutputs.vals = 0 .. 4
  /\ \A i \in Motors : motor[i].cfg \in MotorParamSpace

(* The invariant behind SwitchStops.                                       *)
SwitchInv == Wired /\ (driveOutputs.vals[ArmSlot] = 0 => \A i \in Motors : ~Moving(i))

(* A stored motor is in the parameter table.                               *)
LEMMA ConfiguredMotors ==
  ASSUME NEW c \in Configs, NEW i \in Motors
  PROVE  c.motor[i] \in MotorParamSpace
BY ConfigsAssumption DEF Motors

(* The drivers read the switch from a slot the mixer always has.           *)
LEMMA SwitchReading ==
  ASSUME NEW drv, DOMAIN drv.vals = 0 .. 4
  PROVE  BusGet(drv, ArmSlot) = drv.vals[ArmSlot]
BY DEF BusGet, ArmSlot

(* A driver that is notified stands still if the switch is open.            *)
LEMMA NotifiedStandsStill ==
  ASSUME Wired, NEW i \in Motors, NEW p, p \in MotorParamSpace
  PROVE  LET m == ApplyMotor(i, p)
         IN  /\ m.cfg = p
             /\ driveOutputs.vals[ArmSlot] = 0 => Disabled(m.cfg) \/ AtNeutral(m)
<1>1. BusGet(driveOutputs, ArmSlot) = driveOutputs.vals[ArmSlot]
  BY SwitchReading DEF Wired
<1> QED
  BY <1>1, ApplyCfg, GatedIsNeutral DEF ApplyMotor

(* A driver that is ticked, too.                                           *)
LEMMA TickedStandsStill ==
  ASSUME NEW m, m.cfg \in MotorParamSpace, NEW at, NEW in, NEW drv, DOMAIN drv.vals = 0 .. 4
  PROVE  LET a == TickMotor(m, at, in, drv)
         IN  /\ a.cfg = m.cfg
             /\ drv.vals[ArmSlot] = 0 => Disabled(a.cfg) \/ AtNeutral(a)
<1>1. BusGet(drv, ArmSlot) = drv.vals[ArmSlot]
  BY SwitchReading
<1> QED
  BY <1>1, ApplyCfg, GatedIsNeutral DEF TickMotor

(* At power-up both outputs are off, which is not moving.                  *)
LEMMA SwitchInit == Init => SwitchInv
<1> SUFFICES ASSUME Init PROVE SwitchInv
  OBVIOUS
<1>1. BootMotor.cfg \in MotorParamSpace
  BY DEF BootMotor, MotorParamSpace, MotorType, MotorMode, ThrottleUs, MinUs, MaxUs, RateHz
<1>2. Disabled(BootMotor.cfg)
  BY DEF BootMotor, Disabled, OutputDisabled
<1> QED
  BY <1>1, <1>2 DEF Init, SwitchInv, Wired, Moving

(* Every step keeps it: whatever can close the switch or change a driver   *)
(* evaluates every driver it concerns against the switch of that moment.   *)
LEMMA SwitchStep == SwitchInv /\ [Next]_vars => SwitchInv'
<1> SUFFICES ASSUME SwitchInv, [Next]_vars PROVE SwitchInv'
  OBVIOUS
<1>1. ASSUME NEW c \in Configs, NotifyAll(c), driveOutputs' = driveOutputs
      PROVE  SwitchInv'
  <2>1. \A i \in Motors : motor'[i] = ApplyMotor(i, c.motor[i])
    BY <1>1 DEF NotifyAll
  <2>2. DOMAIN motor' = Motors
    BY <1>1 DEF NotifyAll
  <2> QED
    BY <1>1, <2>1, <2>2, NotifiedStandsStill, ConfiguredMotors DEF SwitchInv, Wired, Moving
<1>2. ASSUME NEW us, NEW heard, TickModules(us, heard) PROVE SwitchInv'
  <2>1. /\ driveOutputs' = Compute(driveCfg, inputs', driveOutputs, now)
        /\ DOMAIN motor' = Motors
        /\ \A i \in Motors : motor'[i] = TickMotor(motor[i], now, inputs', driveOutputs')
    BY <1>2 DEF TickModules
  <2>2. DOMAIN driveOutputs'.vals = 0 .. 4
    BY <2>1, MixerPublishes
  <2> QED
    BY <2>1, <2>2, TickedStandsStill DEF SwitchInv, Wired, Moving
<1>3. CASE Setup \/ Restore
  BY <1>1, <1>3 DEF Setup, Restore
<1>4. CASE SetMotor
  <2>1. PICK i \in Motors, c \in Configs :
          motor' = [motor EXCEPT ![i] = ApplyMotor(i, c.motor[i])]
    BY <1>4 DEF SetMotor
  <2>2. /\ DOMAIN motor' = Motors
        /\ motor'[i] = ApplyMotor(i, c.motor[i])
        /\ \A j \in Motors : j # i => motor'[j] = motor[j]
    BY <2>1 DEF SwitchInv, Wired
  <2>3. driveOutputs' = driveOutputs
    BY <1>4 DEF SetMotor
  <2> QED
    BY <2>2, <2>3, NotifiedStandsStill, ConfiguredMotors DEF SwitchInv, Wired, Moving
<1>5. CASE TickHeard \/ TickSilent
  BY <1>2, <1>5 DEF TickHeard, TickSilent
<1>6. CASE BeginPass \/ SetRx \/ SetDrive \/ SetServo \/ Advance \/ UNCHANGED vars
  BY <1>6 DEF BeginPass, SetRx, SetDrive, SetServo, Advance, vars, SwitchInv, Wired, Moving
<1> QED
  BY <1>3, <1>4, <1>5, <1>6 DEF Next

(* With the arm switch open no motor is commanded to move, whatever the     *)
(* sticks, the modes and the arm states are, and although commands apply in  *)
(* the middle of a pass (docs/reference/arming-and-modes.md).               *)
THEOREM SwitchTheorem == Spec => []SwitchStops
<1>1. SwitchInv => SwitchStops
  BY DEF SwitchInv, SwitchStops
<1> QED
  BY <1>1, SwitchInit, SwitchStep, PTL DEF Spec
-----------------------------------------------------------------------------
(***************************************************************************)
(* The vehicle implements FailSafe.  The stamps of the link and of the hold *)
(* are readings of a clock that wraps; the argument relates them to silence *)
(* and recovered, which are real time, through three values the state does  *)
(* not hold: L, the reading at which the motors were last evaluated, O, the *)
(* stamp of the last frame whose stamp was not 0, and gap, the real silence *)
(* since that frame.                                                       *)
(***************************************************************************)
(* An age is a reading, none of itself, and never more than two ages on the  *)
(* way; one millisecond makes it one larger unless it wraps.                *)
LEMMA AgeIsNat ==
  ASSUME NEW a, NEW b, a \in Time, b \in Time
  PROVE  Elapsed(a, b) \in Nat /\ Elapsed(a, b) < Wrap
BY WrapAssumption DEF Elapsed, Time

(* A reading has no age at itself.                                         *)
LEMMA NoAge ==
  ASSUME NEW a, a \in Time
  PROVE  Elapsed(a, a) = 0
BY WrapAssumption DEF Elapsed, Time

(* An age is at most the sum of two ages on the way, and that sum unless   *)
(* the clock wraps past it.                                                *)
LEMMA AgesAddUp ==
  ASSUME NEW a, NEW b, NEW c, a \in Time, b \in Time, c \in Time
  PROVE  /\ Elapsed(a, c) <= Elapsed(a, b) + Elapsed(b, c)
         /\ Elapsed(a, b) + Elapsed(b, c) < Wrap
              => Elapsed(a, c) = Elapsed(a, b) + Elapsed(b, c)
BY WrapAssumption DEF Elapsed, Time

(* A millisecond makes an age one larger, unless it wraps to nothing.      *)
LEMMA AgeStep ==
  ASSUME NEW a, NEW b, a \in Time, b \in Time
  PROVE  /\ NextMs(a) \in Time
         /\ Elapsed(NextMs(a), b) <= Elapsed(a, b) + 1
         /\ Elapsed(a, b) + 1 < Wrap => Elapsed(NextMs(a), b) = Elapsed(a, b) + 1
BY WrapAssumption DEF NextMs, Elapsed, Time
-----------------------------------------------------------------------------
(* What the theorem assumes of the constants: the hold outlasts the two      *)
(* stale windows and three passes.                                         *)
Link == LongSilence <= ArmHold

(* The two stale windows, chained: the mixer's and the motors'.            *)
Window == RxStale + InputStale

(* The sizes of the windows, the passes and the hold.                      *)
LEMMA Sizes ==
  ASSUME Link
  PROVE  /\ Window \in Nat /\ RxStale \in Nat \ {0} /\ InputStale \in Nat \ {0}
         /\ MaxPass \in Nat \ {0} /\ ArmHold \in Nat /\ LongSilence \in Nat
         /\ AssuredHold \in Nat
         /\ RxStale <= Window /\ InputStale <= Window /\ Window = RxStale + InputStale
         /\ LongSilence = Window + MaxPass + MaxPass + MaxPass
         /\ AssuredHold + LongSilence = ArmHold
         /\ LongSilence <= ArmHold /\ MaxPass + MaxPass < ArmHold
         /\ ArmHold + MaxPass < Wrap
         /\ Wrap \in Nat
BY RxStaleAssumption, InputStaleAssumption, VehicleAssumption, ArmHoldAssumption, WrapAssumption
   DEF Link, Window, LongSilence, AssuredHold

(* The real time since the reading t: a pass counts the age of its own top.  *)
Since(t) ==
  IF phase = "body" THEN Elapsed(clock, now) + Elapsed(now, t) ELSE Elapsed(clock, t)

(* The motors were last evaluated at L: at the top of the pass before, or at *)
(* that of the pass that has just ended.                                    *)
Evaluated(L) ==
  IF phase = "body"
  THEN Elapsed(clock, now) <= MaxPass /\ Elapsed(now, L) <= MaxPass
  ELSE Elapsed(clock, L) <= MaxPass /\ Elapsed(clock, L) <= Elapsed(clock, now)

(* The receiver's stamp is O or none, the mixer's is at most a stale window  *)
(* younger than O; until the silence is long, O's age tells it to a pass.    *)
(* A frame stamped 0 ends the silence and leaves no stamp.                 *)
Heard(L, O, gap) ==
  /\ inputs.fresh \in {0, O}
  /\ Elapsed(driveOutputs.fresh, O) < RxStale
  /\ silence <= gap
  /\ inputs.fresh # 0 => silence = gap
  /\ gap < LongSilence => /\ gap <= Elapsed(L, O) + Since(L)
                          /\ Elapsed(L, O) + Since(L) <= gap + MaxPass

(* A closed switch was read from a link that was fresh at L.                *)
Switched(L) ==
  driveOutputs.vals[ArmSlot] # 0
    => inputs.fresh # 0 /\ Elapsed(L, inputs.fresh) < RxStale

(* An armed output saw a fresh link at L, and the long silence is a hold ago. *)
(* The stamp of a hold is no older than the recovery and the phantom link;   *)
(* either the last evaluation set it, or that evaluation saw a fresh link,    *)
(* and if the link is a phantom, the stamp is no older than it.             *)
HoldTimed(arm, linkAge, gap, back, holdAge, evalAge, stampAge) ==
  /\ arm = "ARMED" => linkAge < Window /\ gap < LongSilence /\ back >= AssuredHold
  /\ arm = "ARMING" =>
       /\ back >= AssuredHold \/ holdAge <= back + LongSilence
       /\ \/ holdAge <= evalAge
          \/ /\ linkAge < Window
             /\ gap = LongSilence => stampAge <= linkAge + MaxPass

(* A driver's hold, timed by its own stamp, unless it was waived.          *)
Timed(i, L, O, gap) ==
  \/ i \in waived
  \/ HoldTimed(motor[i].arm, Elapsed(L, O), gap, recovered, Since(motor[i].t0), Since(L),
               Elapsed(L, motor[i].t0))

(* What the three values say together.                                     *)
Tracked(L, O, gap) ==
  /\ Evaluated(L)
  /\ Heard(L, O, gap)
  /\ Switched(L)
  /\ \A i \in Motors : Timed(i, L, O, gap)

(* A driver holds a stamp, and is off, at neutral or armed.                 *)
Driven(m) ==
  /\ m.t0 \in Time /\ m.arm \in ArmState
  /\ IF Disabled(m.cfg) THEN m.arm = "OFF" ELSE m.arm = "ARMED" \/ AtNeutral(m)

(* The ranges of the readings and the counters.                            *)
Typed ==
  /\ clock \in Time /\ now \in Time
  /\ inputs.fresh \in Time /\ driveOutputs.fresh \in Time
  /\ silence \in 0 .. LongSilence /\ recovered \in 0 .. ArmHold
  /\ waived \subseteq Motors
  /\ \A i \in Motors : Driven(motor[i])

(* Nothing was heard and nothing driven before setup() notified the modules. *)
Untouched ==
  phase = "setup" =>
    /\ inputs.fresh = 0 /\ driveOutputs.fresh = 0 /\ driveOutputs.vals[ArmSlot] = 0
    /\ silence = LongSilence
    /\ \A i \in Motors : motor[i].arm = "OFF"

(* Such values exist.                                                      *)
Tracking == \E L, O \in Time, gap \in 0 .. LongSilence : Tracked(L, O, gap)

(* The inductive invariant behind the refinement.                          *)
LinkInv == SwitchInv /\ Typed /\ Untouched /\ Tracking
-----------------------------------------------------------------------------
(* A frame's stamp is recent whenever a driver finds its bus fresh: the      *)
(* mixer's stamp adds its own window.                                       *)
LEMMA FreshIsRecent ==
  ASSUME Link, NEW p, NEW at, NEW in, NEW drv, NEW O,
         at \in Time, O \in Time, drv.fresh \in Time,
         in.fresh \in {0, O}, Elapsed(drv.fresh, O) < RxStale,
         InputFresh(p, at, in, drv)
  PROVE  Elapsed(at, O) < Window
<1>1. CASE SourceBus(p, in, drv) = drv
  <2>1. Elapsed(at, drv.fresh) < InputStale
    BY <1>1 DEF InputFresh, LinkFresh
  <2>2. Elapsed(at, O) <= Elapsed(at, drv.fresh) + Elapsed(drv.fresh, O)
    BY AgesAddUp
  <2>3. /\ Elapsed(at, O) \in Nat /\ Elapsed(at, drv.fresh) \in Nat
        /\ Elapsed(drv.fresh, O) \in Nat
    BY AgeIsNat
  <2> QED
    BY <2>1, <2>2, <2>3, Sizes
<1>2. CASE SourceBus(p, in, drv) = in
  <2>1. in.fresh = O /\ Elapsed(at, O) < InputStale
    BY <1>2 DEF InputFresh, LinkFresh
  <2>2. Elapsed(at, O) \in Nat
    BY AgeIsNat
  <2> QED
    BY <2>1, <2>2, Sizes
<1> QED
  BY <1>1, <1>2 DEF SourceBus

(* What one evaluation makes of a driver: it is armed only by a hold that is *)
(* over or was before, on a fresh link; a hold it leaves running was stamped *)
(* now, or ran before and saw a fresh link.                                 *)
Becomes(m, a, at, fresh) ==
  /\ a.arm = "ARMED" =>
       /\ fresh
       /\ m.arm = "ARMED" \/ (m.arm = "ARMING" /\ Elapsed(at, m.t0) >= ArmHold)
  /\ a.arm = "ARMING" => a.t0 = at \/ (a.t0 = m.t0 /\ m.arm = "ARMING" /\ fresh)

(* One evaluation leaves a driver armed or at neutral, and out of the bench *)
(* mode it is what Becomes says.                                           *)
LEMMA ApplyBecomes ==
  ASSUME NEW m, NEW p, NEW at, NEW in, NEW drv, p \in MotorParamSpace,
         at \in Time, Driven(m)
  PROVE  LET a == Apply(m, p, at, in, drv)
         IN  /\ Driven(a)
             /\ \/ a.arm # "OFF" /\ p.mode = "armed"
                \/ Becomes(m, a, at, InputFresh(p, at, in, drv))
<1> DEFINE a     == Apply(m, p, at, in, drv)
           fresh == InputFresh(p, at, in, drv)
           low   == CommandedLow(p, at, in, drv)
<1>1. /\ a.cfg = p
      /\ a.arm = NextArm(m, p, at, in, drv)
      /\ a.t0 = NextT0(m, p, at, in, drv)
  BY DEF Apply
<1>2. a.t0 = at \/ a.t0 = m.t0
  BY <1>1 DEF NextT0
<1>3. low /\ p.mode # "armed" => fresh
  BY DEF CommandedLow, IsCommandedLow
<1>4. CASE Disabled(p)
  <2>1. a.arm = "OFF"
    BY <1>1, <1>4 DEF NextArm, NextArmState
  <2> QED
    BY <1>1, <1>2, <1>4, <2>1 DEF Driven, Becomes, ArmState
<1>5. CASE ~Disabled(p)
  <2>1. a.arm = "ARMED" \/ AtNeutral(a)
    BY <1>1, <1>5, GatedIsNeutral
  <2>2. Driven(a)
    <3>1. a.arm \in ArmState
      BY <1>1 DEF NextArm, NextArmState, HeldArm, Driven, ArmState
    <3> QED
      BY <1>1, <1>2, <1>5, <2>1, <3>1 DEF Driven
  <2>3. CASE p.mode = "armed"
    BY <2>2, <2>3 DEF Becomes
  <2>4. CASE p.mode # "armed"
    <3>1. p.mode = "input"
      BY <1>5, <2>4 DEF Disabled, OutputDisabled, MotorParamSpace, MotorMode
    <3>2. CASE Demotes(m, p, at, in, drv)
      <4>1. HeldArm(m, p, at, in, drv) = "ARMING" /\ a.t0 = at
        BY <1>1, <3>2 DEF HeldArm, NextT0
      <4>2. ~(Elapsed(at, at) >= ArmHold)
        BY NoAge, ArmHoldAssumption
      <4>3. a.arm # "ARMED"
        BY <1>1, <4>1, <4>2 DEF NextArm, NextArmState
      <4> QED
        BY <2>2, <4>1, <4>3 DEF Becomes
    <3>3. CASE ~Demotes(m, p, at, in, drv)
      <4>1. HeldArm(m, p, at, in, drv) = m.arm
        BY <3>3 DEF HeldArm
      <4>2. m.arm = "ARMED" => fresh
        BY <3>1, <3>3 DEF Demotes, InputLossDemotesArmed
      <4>3. Entering(m, p) => a.arm = "ARMING" /\ a.t0 = at
        BY <1>1, <1>5 DEF NextArm, NextArmState, NextT0
      <4>4. ~Entering(m, p) /\ a.arm = "ARMED" /\ m.arm # "ARMED"
              => m.arm = "ARMING" /\ low /\ Elapsed(at, a.t0) >= ArmHold
        BY <1>1, <1>5, <4>1 DEF NextArm, NextArmState
      <4>5. m.arm = "ARMING" /\ low /\ ~Entering(m, p) => a.t0 = m.t0
        BY <1>1, <3>3, <4>1 DEF NextT0
      <4>6. ~Entering(m, p) /\ a.arm = "ARMING"
              => m.arm = "ARMING" /\ (a.t0 = at \/ low)
        BY <1>1, <1>5, <3>3, <4>1 DEF NextArm, NextArmState, NextT0
      <4>7. Becomes(m, a, at, fresh)
        BY <1>3, <2>4, <4>2, <4>3, <4>4, <4>5, <4>6 DEF Becomes
      <4> QED
        BY <2>2, <4>7
    <3> QED
      BY <3>2, <3>3
  <2> QED
    BY <2>3, <2>4
<1> QED
  BY <1>4, <1>5

(* A hold that is no longer waived was started again at the reading that      *)
(* evaluated it, unless it was not waived before; none of either kind is in  *)
(* the bench mode, nor begun by a command newer than its pass.               *)
Restarted(a, at) == a.arm # "ARMED" /\ (a.arm = "ARMING" => a.t0 = at)

LEMMA NoLongerWaived ==
  ASSUME NEW late, waived' = NextWaived(late), NEW i \in Motors, i \notin waived',
         NEW at, NEW fresh,
         \/ motor'[i].arm # "OFF" /\ motor'[i].cfg.mode = "armed"
         \/ Becomes(motor[i], motor'[i], at, fresh)
  PROVE  /\ Becomes(motor[i], motor'[i], at, fresh)
         /\ i \in waived => Restarted(motor'[i], at)
         /\ late => ~(motor'[i].arm = "ARMING" /\ motor'[i].t0 = clock)
<1>1. /\ ~(motor'[i].arm # "OFF" /\ motor'[i].cfg.mode = "armed")
      /\ late => ~(motor'[i].arm = "ARMING" /\ motor'[i].t0 = clock)
      /\ i \in waived /\ motor'[i].arm # "OFF"
           => /\ motor'[i].arm # "ARMED"
              /\ ~(motor[i].arm = "ARMING" /\ motor'[i].t0 = motor[i].t0)
  BY DEF NextWaived
<1> QED
  BY <1>1 DEF Becomes, Restarted

(* The ages a driver's hold is timed by, after a tick at x that heard a frame *)
(* stamped Q or kept O.                                                     *)
LEMMA TickKeepsTime ==
  ASSUME Link, NEW m, NEW a, NEW fresh, NEW c \in Time, NEW x \in Time, NEW L \in Time,
         NEW O \in Time, NEW Q \in Time, NEW gap \in 0 .. LongSilence,
         NEW newGap \in 0 .. LongSilence, NEW back \in 0 .. ArmHold,
         m.t0 \in Time, Becomes(m, a, x, fresh), fresh => Elapsed(x, Q) < Window,
         Elapsed(c, x) <= MaxPass, Elapsed(x, L) <= MaxPass,
         newGap = LongSilence => gap = LongSilence /\ Q = O,
         \/ Restarted(a, x)
         \/ HoldTimed(m.arm, Elapsed(L, O), gap, back, Elapsed(c, x) + Elapsed(x, m.t0),
                      Elapsed(c, x) + Elapsed(x, L), Elapsed(L, m.t0))
  PROVE  HoldTimed(a.arm, Elapsed(x, Q), newGap, back, Elapsed(c, a.t0), Elapsed(c, x),
                   Elapsed(x, a.t0))
<1> USE Sizes
<1>1. /\ Elapsed(c, x) \in Nat /\ Elapsed(x, L) \in Nat /\ Elapsed(L, O) \in Nat
      /\ Elapsed(x, m.t0) \in Nat /\ Elapsed(L, m.t0) \in Nat /\ Elapsed(c, m.t0) \in Nat
      /\ Elapsed(x, O) \in Nat /\ Elapsed(x, Q) \in Nat /\ Elapsed(x, x) = 0
  BY AgeIsNat, NoAge
<1>0. CASE Restarted(a, x)
  BY <1>0, <1>1 DEF Restarted, HoldTimed
<1> SUFFICES ASSUME HoldTimed(m.arm, Elapsed(L, O), gap, back, Elapsed(c, x) + Elapsed(x, m.t0),
                              Elapsed(c, x) + Elapsed(x, L), Elapsed(L, m.t0))
             PROVE  HoldTimed(a.arm, Elapsed(x, Q), newGap, back, Elapsed(c, a.t0),
                              Elapsed(c, x), Elapsed(x, a.t0))
  BY <1>0
<1>2. /\ Elapsed(c, m.t0) <= Elapsed(c, x) + Elapsed(x, m.t0)
      /\ Elapsed(x, m.t0) <= Elapsed(x, L) + Elapsed(L, m.t0)
      /\ Elapsed(x, L) + Elapsed(L, O) < Wrap => Elapsed(x, O) = Elapsed(x, L) + Elapsed(L, O)
  BY AgesAddUp
<1>3. m.arm = "ARMING" /\ newGap = LongSilence /\ fresh
        => Elapsed(x, m.t0) <= Elapsed(x, Q) + MaxPass
  <2> SUFFICES ASSUME m.arm = "ARMING", gap = LongSilence, Q = O, fresh
               PROVE  Elapsed(x, m.t0) <= Elapsed(x, O) + MaxPass
    OBVIOUS
  <2>1. CASE Elapsed(x, m.t0) <= Elapsed(x, L)
    BY <1>1, <2>1
  <2>2. CASE /\ Elapsed(L, O) < Window
             /\ Elapsed(L, m.t0) <= Elapsed(L, O) + MaxPass
    BY <1>1, <1>2, <2>2
  <2> QED
    BY <1>1, <2>1, <2>2 DEF HoldTimed
<1>4. CASE a.arm = "ARMED"
  <2>1. fresh /\ Elapsed(x, Q) < Window
    BY <1>4 DEF Becomes
  <2>2. CASE m.arm = "ARMED"
    BY <1>1, <1>4, <2>1, <2>2 DEF HoldTimed
  <2>3. CASE m.arm = "ARMING" /\ Elapsed(x, m.t0) >= ArmHold
    <3>1. newGap # LongSilence
      BY <1>1, <1>3, <2>1, <2>3
    <3>2. back >= AssuredHold
      BY <1>1, <2>3 DEF HoldTimed
    <3> QED
      BY <1>4, <2>1, <3>1, <3>2 DEF HoldTimed
  <2> QED
    BY <1>4, <2>2, <2>3 DEF Becomes
<1>5. CASE a.arm = "ARMING" /\ a.t0 = x
  BY <1>1, <1>5 DEF HoldTimed
<1>6. CASE a.arm = "ARMING" /\ a.t0 = m.t0 /\ m.arm = "ARMING" /\ fresh
  BY <1>1, <1>2, <1>3, <1>6 DEF HoldTimed
<1> QED
  BY <1>4, <1>5, <1>6 DEF Becomes, HoldTimed

(* A command is handled at x, in the pass that began at y, and the other     *)
(* driver was still evaluated at L.                                         *)
LEMMA CommandKeepsTime ==
  ASSUME Link, NEW m, NEW a, NEW fresh, NEW x \in Time, NEW y \in Time, NEW L \in Time,
         NEW O \in Time, NEW gap \in 0 .. LongSilence, NEW back \in 0 .. ArmHold,
         m.t0 \in Time, Becomes(m, a, x, fresh),
         Elapsed(x, y) <= MaxPass, Elapsed(y, L) <= MaxPass,
         x # y => ~(a.arm = "ARMING" /\ a.t0 = x),
         \/ Restarted(a, x)
         \/ HoldTimed(m.arm, Elapsed(L, O), gap, back, Elapsed(x, y) + Elapsed(y, m.t0),
                      Elapsed(x, y) + Elapsed(y, L), Elapsed(L, m.t0))
  PROVE  HoldTimed(a.arm, Elapsed(L, O), gap, back, Elapsed(x, y) + Elapsed(y, a.t0),
                   Elapsed(x, y) + Elapsed(y, L), Elapsed(L, a.t0))
<1> USE Sizes
<1>1. /\ Elapsed(x, x) = 0 /\ Elapsed(x, L) \in Nat /\ Elapsed(L, O) \in Nat
      /\ Elapsed(x, m.t0) \in Nat /\ Elapsed(L, m.t0) \in Nat /\ Elapsed(x, y) \in Nat
      /\ Elapsed(y, L) \in Nat /\ Elapsed(y, m.t0) \in Nat
  BY AgeIsNat, NoAge
<1>2. /\ Elapsed(x, m.t0) <= Elapsed(x, L) + Elapsed(L, m.t0)
      /\ Elapsed(x, m.t0) <= Elapsed(x, y) + Elapsed(y, m.t0)
      /\ Elapsed(x, L) <= Elapsed(x, y) + Elapsed(y, L)
  BY AgesAddUp
<1>3. CASE a.arm = "ARMING" /\ a.t0 = x
  BY <1>1, <1>3 DEF HoldTimed
<1>4. CASE a.arm # "ARMED" /\ a.arm # "ARMING"
  BY <1>4 DEF HoldTimed
<1> SUFFICES ASSUME HoldTimed(m.arm, Elapsed(L, O), gap, back,
                              Elapsed(x, y) + Elapsed(y, m.t0),
                              Elapsed(x, y) + Elapsed(y, L), Elapsed(L, m.t0))
             PROVE  HoldTimed(a.arm, Elapsed(L, O), gap, back,
                              Elapsed(x, y) + Elapsed(y, a.t0),
                              Elapsed(x, y) + Elapsed(y, L), Elapsed(L, a.t0))
  BY <1>3, <1>4 DEF Restarted
<1>5. CASE a.arm = "ARMED" /\ m.arm = "ARMING" /\ Elapsed(x, m.t0) >= ArmHold
  <2>1. ~(Elapsed(x, y) + Elapsed(y, m.t0) <= Elapsed(x, y) + Elapsed(y, L))
    <3>1. Elapsed(x, y) + Elapsed(y, L) <= MaxPass + MaxPass
      BY <1>1
    <3>2. ArmHold <= Elapsed(x, y) + Elapsed(y, m.t0)
      BY <1>1, <1>2, <1>5
    <3> QED
      BY <1>1, <3>1, <3>2
  <2>2. Elapsed(L, O) < Window /\ gap # LongSilence
    BY <1>1, <1>2, <1>5, <2>1 DEF HoldTimed
  <2>3. back >= AssuredHold
    BY <1>1, <1>2, <1>5 DEF HoldTimed
  <2> QED
    BY <1>5, <2>2, <2>3 DEF HoldTimed
<1>6. CASE a.arm = "ARMED" /\ m.arm = "ARMED"
  BY <1>6 DEF HoldTimed
<1>7. CASE a.arm = "ARMING" /\ a.t0 = m.t0 /\ m.arm = "ARMING"
  BY <1>7 DEF HoldTimed
<1> QED
  BY <1>3, <1>4, <1>5, <1>6, <1>7 DEF Becomes

(* setup() evaluates drivers that never held anything.                      *)
LEMMA SetupStartsTime ==
  ASSUME Link, NEW m, NEW a, NEW fresh, NEW x \in Time, NEW linkAge,
         NEW back \in 0 .. ArmHold, m.arm = "OFF", Becomes(m, a, x, fresh)
  PROVE  HoldTimed(a.arm, linkAge, LongSilence, back, Elapsed(x, a.t0), Elapsed(x, x),
                   Elapsed(x, a.t0))
<1>1. Elapsed(x, x) = 0
  BY NoAge
<1> QED
  BY <1>1, Sizes DEF Becomes, HoldTimed

(* A millisecond: what is measured from the clock grows by one, and the      *)
(* recovery with it, unless the silence has become long.                    *)
LEMMA AdvanceKeepsTime ==
  ASSUME Link, NEW arm, NEW linkAge \in Nat, NEW gap \in 0 .. LongSilence,
         NEW back \in 0 .. ArmHold, NEW holdAge \in Nat, NEW evalAge \in Nat,
         NEW stampAge \in Nat, NEW newHold \in Nat, NEW newBack \in Nat,
         holdAge <= stampAge + evalAge, newHold <= holdAge + 1,
         evalAge + 1 <= MaxPass + MaxPass,
         gap < LongSilence => gap <= linkAge + evalAge,
         \/ newBack = UpTo(back + 1, ArmHold)
         \/ newBack = 0 /\ UpTo(gap + 1, LongSilence) = LongSilence,
         newHold <= stampAge + evalAge + 1,
         HoldTimed(arm, linkAge, gap, back, holdAge, evalAge, stampAge)
  PROVE  HoldTimed(arm, linkAge, UpTo(gap + 1, LongSilence), newBack, newHold, evalAge + 1,
                   stampAge)
<1> DEFINE newGap == UpTo(gap + 1, LongSilence)
<1> USE Sizes
<1>1. /\ newGap \in 0 .. LongSilence
      /\ newGap = LongSilence => gap = LongSilence \/ gap + 1 = LongSilence
  BY DEF UpTo
<1>2. linkAge < Window /\ newGap = LongSilence => gap = LongSilence
  BY <1>1
<1>3. CASE arm = "ARMED"
  <2>1. newGap < LongSilence
    BY <1>1, <1>2, <1>3 DEF HoldTimed
  <2>2. newBack >= AssuredHold
    BY <1>3, <2>1 DEF HoldTimed, UpTo
  <2> QED
    BY <1>3, <2>1, <2>2 DEF HoldTimed
<1> HIDE DEF newGap
<1>4. CASE arm = "ARMING"
  <2>1. \/ newHold <= evalAge + 1
        \/ linkAge < Window /\ (newGap = LongSilence => stampAge <= linkAge + MaxPass)
    BY <1>2, <1>4 DEF HoldTimed
  <2>2. newGap = LongSilence => newHold <= LongSilence
    BY <2>1
  <2>3. newBack >= AssuredHold \/ newHold <= newBack + LongSilence
    <3>1. CASE newBack = 0 /\ newGap = LongSilence
      BY <2>2, <3>1
    <3>2. CASE newBack = UpTo(back + 1, ArmHold)
      BY <1>4, <3>2 DEF HoldTimed, UpTo
    <3> QED
      BY <3>1, <3>2 DEF newGap
  <2> QED
    BY <1>4, <2>1, <2>3 DEF HoldTimed, newGap
<1> QED
  BY <1>3, <1>4 DEF HoldTimed
-----------------------------------------------------------------------------
(* The drivers as they power up.                                           *)
LEMMA BootIsDriven == Driven(BootMotor) /\ BootMotor.arm = "OFF"
BY WrapAssumption DEF BootMotor, Driven, Disabled, OutputDisabled, Time, ArmState

(* At power-up nothing was heard: the last evaluation is now, the stamps   *)
(* are 0 and the silence is long.                                          *)
LEMMA LinkInit == Link /\ Init => LinkInv
<1> SUFFICES ASSUME Link, Init PROVE LinkInv
  OBVIOUS
<1> USE Sizes
<1>1. /\ clock \in Time /\ now = 0 /\ 0 \in Time /\ phase = "setup"
      /\ inputs.fresh = 0 /\ driveOutputs.fresh = 0 /\ driveOutputs.vals[ArmSlot] = 0
      /\ silence = LongSilence /\ recovered = 0 /\ waived = {}
      /\ \A i \in Motors : motor[i] = BootMotor
  BY WrapAssumption DEF Init, Time, ArmSlot
<1>2. Typed /\ Untouched
  BY <1>1, BootIsDriven DEF Typed, Untouched
<1>3. Tracked(clock, 0, LongSilence)
  <2>1. Elapsed(clock, clock) = 0 /\ Elapsed(0, 0) = 0 /\ Elapsed(clock, now) \in Nat
    BY <1>1, NoAge, AgeIsNat
  <2>2. Evaluated(clock) /\ Heard(clock, 0, LongSilence) /\ Switched(clock)
    BY <1>1, <2>1 DEF Evaluated, Heard, Switched
  <2>3. \A i \in Motors : Timed(i, clock, 0, LongSilence)
    BY <1>1, BootIsDriven DEF Timed, HoldTimed
  <2> QED
    BY <2>2, <2>3 DEF Tracked
<1> QED
  BY <1>1, <1>2, <1>3, SwitchInit DEF LinkInv, Tracking

(* A driver that is notified of a stored motor.                            *)
LEMMA ConfiguredDriven ==
  ASSUME Typed, NEW c \in Configs, NEW i \in Motors
  PROVE  LET a == ApplyMotor(i, c.motor[i])
         IN  /\ Driven(a)
             /\ \/ a.arm # "OFF" /\ a.cfg.mode = "armed"
                \/ Becomes(motor[i], a, clock,
                           InputFresh(c.motor[i], clock, inputs, driveOutputs))
BY ApplyBecomes, ApplyCfg, ConfiguredMotors DEF ApplyMotor, Typed

(* A driver that is ticked.                                                *)
LEMMA TickedDriven ==
  ASSUME NEW m, m.cfg \in MotorParamSpace, Driven(m), NEW at \in Time, NEW in, NEW drv
  PROVE  LET a == TickMotor(m, at, in, drv)
         IN  /\ Driven(a)
             /\ \/ a.arm # "OFF" /\ a.cfg.mode = "armed"
                \/ Becomes(m, a, at, InputFresh(m.cfg, at, in, drv))
<1>1. CASE Disabled(m.cfg)
  BY <1>1 DEF TickMotor, Driven, Becomes
<1>2. CASE ~Disabled(m.cfg)
  BY <1>2, ApplyBecomes, ApplyCfg DEF TickMotor
<1> QED
  BY <1>1, <1>2

(* What a tick leaves of the stamps.                                       *)
LEMMA TickedStamps ==
  ASSUME NEW us, NEW heard, TickModules(us, heard)
  PROVE  /\ inputs'.fresh = IF heard THEN now ELSE inputs.fresh
         /\ driveOutputs'.fresh = IF LinkFresh(inputs'.fresh, now, RxStale) THEN now
                                  ELSE driveOutputs.fresh
         /\ driveOutputs'.vals[ArmSlot] # 0 => LinkFresh(inputs'.fresh, now, RxStale)
         /\ waived' = NextWaived(FALSE)
         /\ \A i \in Motors : motor'[i] = TickMotor(motor[i], now, inputs', driveOutputs')
<1>1. /\ inputs' = SyncedInputs(us, heard)
      /\ driveOutputs' = Compute(driveCfg, inputs', driveOutputs, now)
      /\ motor' = [i \in Motors |-> TickMotor(motor[i], now, inputs', driveOutputs')]
      /\ waived' = NextWaived(FALSE)
  BY DEF TickModules
<1>2. inputs'.fresh = IF heard THEN now ELSE inputs.fresh
  BY <1>1 DEF SyncedInputs
<1> QED
  BY <1>1, <1>2, MixerPublishes

(* Every step keeps the ranges of the readings and counters.               *)
LEMMA TypedStep ==
  ASSUME Link, SwitchInv, Typed, Untouched, [Next]_vars
  PROVE  Typed' /\ Untouched'
<1> USE Sizes
<1>0. \A late : NextWaived(late) \subseteq Motors
  BY DEF NextWaived
<1>1. /\ clock \in Time /\ now \in Time
      /\ inputs.fresh \in Time /\ driveOutputs.fresh \in Time
      /\ silence \in 0 .. LongSilence /\ recovered \in 0 .. ArmHold
      /\ waived \subseteq Motors
      /\ \A i \in Motors : Driven(motor[i]) /\ motor[i].cfg \in MotorParamSpace
  BY DEF Typed, SwitchInv, Wired
<1>2. CASE Setup
  <2>1. PICK c \in Configs : NotifyAll(c)
    BY <1>2 DEF Setup
  <2>2. \A i \in Motors : motor'[i] = ApplyMotor(i, c.motor[i])
    BY <2>1 DEF NotifyAll
  <2> QED
    BY <1>0, <1>1, <1>2, <2>2, ConfiguredDriven DEF Setup, Typed, Untouched
<1>3. CASE Restore
  <2>1. PICK c \in Configs : NotifyAll(c)
    BY <1>3 DEF Restore
  <2>2. \A i \in Motors : motor'[i] = ApplyMotor(i, c.motor[i])
    BY <2>1 DEF NotifyAll
  <2> QED
    BY <1>0, <1>1, <1>3, <2>2, ConfiguredDriven DEF Restore, CommandTime, Typed, Untouched
<1>4. CASE SetMotor
  <2>1. PICK i \in Motors, c \in Configs :
          motor' = [motor EXCEPT ![i] = ApplyMotor(i, c.motor[i])]
    BY <1>4 DEF SetMotor
  <2>2. /\ motor'[i] = ApplyMotor(i, c.motor[i])
        /\ \A j \in Motors : j # i => motor'[j] = motor[j]
    BY <2>1 DEF SwitchInv, Wired
  <2> QED
    BY <1>0, <1>1, <1>4, <2>2, ConfiguredDriven DEF SetMotor, CommandTime, Typed, Untouched
<1>5. ASSUME NEW us, NEW heard, TickModules(us, heard), phase' = "top",
             UNCHANGED <<clock, now, recovered>>, silence' = 0 \/ silence' = silence
      PROVE  Typed' /\ Untouched'
  <2>1. inputs'.fresh \in Time /\ driveOutputs'.fresh \in Time
    BY <1>1, <1>5, TickedStamps
  <2>2. \A i \in Motors : Driven(motor'[i])
    BY <1>1, <1>5, TickedStamps, TickedDriven
  <2>3. silence' \in 0 .. LongSilence
    BY <1>1, <1>5
  <2>4. waived' = NextWaived(FALSE)
    BY <1>5, TickedStamps
  <2>5. waived' \subseteq Motors
    BY <1>0, <2>4
  <2> QED
    BY <1>1, <1>5, <2>1, <2>2, <2>3, <2>5 DEF Typed, Untouched
<1>6. CASE TickHeard \/ TickSilent
  BY <1>5, <1>6 DEF TickHeard, TickSilent
<1>7. CASE Advance
  <2>1. clock' \in Time
    BY <1>1, <1>7, AgeStep DEF Advance
  <2>2. silence' \in 0 .. LongSilence /\ recovered' \in 0 .. ArmHold
    BY <1>1, <1>7 DEF Advance, UpTo
  <2> QED
    BY <1>1, <1>7, <2>1, <2>2 DEF Advance, Typed, Untouched
<1>8. CASE BeginPass \/ SetRx \/ SetDrive \/ SetServo \/ UNCHANGED vars
  BY <1>8 DEF BeginPass, SetRx, SetDrive, SetServo, CommandTime, vars, Typed, Untouched
<1> QED
  BY <1>2, <1>3, <1>4, <1>6, <1>7, <1>8 DEF Next
-----------------------------------------------------------------------------
(* setup() is an evaluation at the clock's reading, of a link never heard.   *)
LEMMA SetupTracks == Link /\ SwitchInv /\ Typed /\ Untouched /\ Setup => Tracking'
<1> SUFFICES ASSUME Link, SwitchInv, Typed, Untouched, Setup PROVE Tracking'
  OBVIOUS
<1> USE Sizes
<1>1. PICK x \in Time : x = clock
  BY DEF Typed
<1>2. PICK c \in Configs : NotifyAll(c)
  BY DEF Setup
<1>3. /\ phase = "setup" /\ phase' = "top" /\ now \in Time /\ 0 \in Time
      /\ UNCHANGED <<clock, now, inputs, driveOutputs, silence, recovered>>
      /\ inputs.fresh = 0 /\ driveOutputs.fresh = 0 /\ driveOutputs.vals[ArmSlot] = 0
      /\ silence = LongSilence /\ recovered \in 0 .. ArmHold
      /\ \A i \in Motors : motor[i].arm = "OFF" /\ motor'[i] = ApplyMotor(i, c.motor[i])
  BY <1>2, WrapAssumption DEF Setup, Untouched, Typed, NotifyAll, Time
<1>4. Tracked(x, 0, LongSilence)'
  <2>1. Elapsed(x, x) = 0 /\ Elapsed(0, 0) = 0 /\ Elapsed(x, now) \in Nat
    BY <1>3, NoAge, AgeIsNat
  <2>2. Evaluated(x)' /\ Heard(x, 0, LongSilence)' /\ Switched(x)'
    BY <1>1, <1>3, <2>1 DEF Evaluated, Heard, Switched
  <2>3. ASSUME NEW i \in Motors PROVE Timed(i, x, 0, LongSilence)'
    <3> SUFFICES ASSUME i \notin waived'
                 PROVE  HoldTimed(motor'[i].arm, Elapsed(x, 0), LongSilence, recovered,
                                  Since(motor[i].t0)', Since(x)', Elapsed(x, motor'[i].t0))
      BY <1>3 DEF Timed
    <3>0. Becomes(motor[i], motor'[i], clock,
                  InputFresh(c.motor[i], clock, inputs, driveOutputs))
      BY <1>3, ConfiguredDriven, NoLongerWaived DEF Setup
    <3>1. HoldTimed(motor'[i].arm, Elapsed(x, 0), LongSilence, recovered,
                    Elapsed(x, motor'[i].t0), Elapsed(x, x), Elapsed(x, motor'[i].t0))
      BY <1>1, <1>3, <3>0, SetupStartsTime
    <3> QED
      BY <1>1, <1>3, <3>1 DEF Since
  <2> QED
    BY <2>2, <2>3 DEF Tracked
<1> QED
  BY <1>3, <1>4 DEF Tracking

(* The top of a pass moves the reading that ages are counted from.         *)
LEMMA BeginPassTracks == Typed /\ Tracking /\ BeginPass => Tracking'
<1> SUFFICES ASSUME Typed, BeginPass, NEW L \in Time, NEW O \in Time,
                    NEW gap \in 0 .. LongSilence, Tracked(L, O, gap)
             PROVE  Tracking'
  BY DEF Tracking
<1>1. /\ phase = "top" /\ phase' = "body" /\ now' = clock /\ clock \in Time
      /\ UNCHANGED <<clock, inputs, driveOutputs, motor, silence, recovered, waived>>
      /\ \A i \in Motors : motor[i].t0 \in Time
  BY DEF BeginPass, Typed, Driven
<1>2. Elapsed(clock, clock) = 0 /\ 0 <= MaxPass /\ MaxPass \in Nat
  BY <1>1, NoAge, VehicleAssumption
<1>3. \A t \in Time : Since(t)' = Since(t)
  <2> SUFFICES ASSUME NEW t \in Time PROVE Since(t)' = Since(t)
    OBVIOUS
  <2>1. Elapsed(clock, t) \in Nat
    BY <1>1, AgeIsNat
  <2> QED
    BY <1>1, <1>2, <2>1 DEF Since
<1>4. Evaluated(L)' /\ Heard(L, O, gap)' /\ Switched(L)'
  BY <1>1, <1>2, <1>3 DEF Tracked, Evaluated, Heard, Switched
<1>5. \A i \in Motors : Timed(i, L, O, gap)'
  BY <1>1, <1>3 DEF Tracked, Timed, Driven
<1> QED
  BY <1>4, <1>5 DEF Tracked, Tracking

(* A command of another module leaves them alone.                          *)
LEMMA IdleCommandTracks ==
  ASSUME Tracking,
         UNCHANGED <<clock, now, phase, inputs, driveOutputs, motor, silence, recovered, waived>>
  PROVE  Tracking'
BY DEF Tracking, Tracked, Evaluated, Heard, Switched, Timed, Since

(* A command re-evaluates some of the drivers and leaves the rest.           *)
LEMMA CommandTracks ==
  ASSUME Link, Typed, Tracking, CommandTime,
         UNCHANGED <<clock, now, phase, inputs, driveOutputs, silence, recovered>>,
         waived' = NextWaived(clock # now),
         \A i \in Motors : \/ motor'[i] = motor[i]
                           \/ \E c \in Configs : motor'[i] = ApplyMotor(i, c.motor[i])
  PROVE  Tracking'
<1> PICK L \in Time, O \in Time, gap \in 0 .. LongSilence : Tracked(L, O, gap)
  BY DEF Tracking
<1>1. PICK x \in Time, y \in Time : x = clock /\ y = now
  BY DEF Typed
<1>2. /\ phase = "body" /\ recovered \in 0 .. ArmHold
      /\ \A i \in Motors : motor[i].t0 \in Time
      /\ Elapsed(x, y) <= MaxPass /\ Elapsed(y, L) <= MaxPass
  BY <1>1 DEF CommandTime, Typed, Driven, Tracked, Evaluated
<1>3. Evaluated(L)' /\ Heard(L, O, gap)' /\ Switched(L)'
  BY DEF Tracked, Evaluated, Heard, Switched, Since
<1>4. \A t : Since(t) = Elapsed(x, y) + Elapsed(y, t)
  BY <1>1, <1>2 DEF Since
<1>5. ASSUME NEW i \in Motors PROVE Timed(i, L, O, gap)'
  <2> DEFINE T(m) == HoldTimed(m.arm, Elapsed(L, O), gap, recovered,
                               Elapsed(x, y) + Elapsed(y, m.t0),
                               Elapsed(x, y) + Elapsed(y, L), Elapsed(L, m.t0))
  <2>1. i \in waived \/ T(motor[i])
    BY <1>4 DEF Tracked, Timed
  <2>2. T(motor'[i]) => Timed(i, L, O, gap)'
    BY <1>1, <1>2 DEF Timed, Since
  <2>3. CASE motor'[i] = motor[i] /\ (i \in waived => i \in waived')
    BY <2>1, <2>2, <2>3 DEF Timed
  <2>4. ASSUME NEW fresh, Becomes(motor[i], motor'[i], clock, fresh), i \notin waived',
               i \in waived => Restarted(motor'[i], clock),
               clock # now => ~(motor'[i].arm = "ARMING" /\ motor'[i].t0 = clock)
        PROVE  T(motor'[i])
    BY <1>1, <1>2, <2>1, <2>4, CommandKeepsTime
  <2>5. ASSUME NEW c \in Configs, motor'[i] = ApplyMotor(i, c.motor[i]), i \notin waived'
        PROVE  T(motor'[i])
    BY <2>4, <2>5, ConfiguredDriven, NoLongerWaived
  <2>6. ASSUME motor'[i] = motor[i], i \in waived, i \notin waived'
        PROVE  T(motor'[i])
    <3>1. motor'[i].arm = "OFF"
      BY <2>6 DEF NextWaived, Typed, Driven, ArmState
    <3> QED
      BY <3>1 DEF HoldTimed
  <2> QED
    BY <2>2, <2>3, <2>5, <2>6 DEF Timed
<1> QED
  BY <1>3, <1>5 DEF Tracked, Tracking

(* A tick is an evaluation at the reading of the pass.  A frame stamped 0    *)
(* leaves the mark of a bus never stamped, so the last stamp stays O.        *)
LEMMA TickTracks ==
  ASSUME Link, SwitchInv, Typed, Typed', Tracking, phase = "body", phase' = "top",
         UNCHANGED <<clock, now, recovered>>, NEW us, NEW heard \in BOOLEAN,
         TickModules(us, heard), silence' = IF heard THEN 0 ELSE silence
  PROVE  Tracking'
<1> USE Sizes
<1> PICK L \in Time, O \in Time, gap \in 0 .. LongSilence : Tracked(L, O, gap)
  BY DEF Tracking
<1>1. PICK x \in Time : x = now
  BY DEF Typed
<1>2. PICK Q \in Time, newGap \in 0 .. LongSilence :
        IF heard /\ x # 0 THEN Q = x /\ newGap = 0 ELSE Q = O /\ newGap = gap
  OBVIOUS
<1>3. /\ clock \in Time /\ recovered \in 0 .. ArmHold
      /\ inputs'.fresh \in Time /\ driveOutputs'.fresh \in Time
      /\ \A i \in Motors : motor[i].t0 \in Time /\ motor'[i].t0 \in Time
      /\ Elapsed(clock, x) <= MaxPass /\ Elapsed(x, L) <= MaxPass
      /\ inputs.fresh \in {0, O} /\ Elapsed(driveOutputs.fresh, O) < RxStale
      /\ silence <= gap /\ silence \in 0 .. LongSilence
      /\ inputs.fresh # 0 => silence = gap
      /\ gap < LongSilence
           => /\ gap <= Elapsed(L, O) + (Elapsed(clock, x) + Elapsed(x, L))
              /\ Elapsed(L, O) + (Elapsed(clock, x) + Elapsed(x, L)) <= gap + MaxPass
  BY <1>1 DEF Typed, Driven, Tracked, Evaluated, Heard, Since
<1>4. /\ Elapsed(x, x) = 0 /\ Elapsed(clock, x) \in Nat /\ Elapsed(x, L) \in Nat
      /\ Elapsed(L, O) \in Nat /\ Elapsed(x, O) \in Nat
      /\ Elapsed(x, L) + Elapsed(L, O) < Wrap => Elapsed(x, O) = Elapsed(x, L) + Elapsed(L, O)
  BY <1>3, NoAge, AgeIsNat, AgesAddUp
<1>5. inputs'.fresh \in {0, Q} /\ Elapsed(driveOutputs'.fresh, Q) < RxStale
  <2>1. inputs'.fresh = IF heard THEN x ELSE inputs.fresh
    BY <1>1, TickedStamps
  <2>2. driveOutputs'.fresh = IF LinkFresh(inputs'.fresh, x, RxStale) THEN x
                              ELSE driveOutputs.fresh
    BY <1>1, TickedStamps
  <2>3. inputs'.fresh \in {0, Q}
    BY <1>2, <1>3, <2>1
  <2>4. CASE LinkFresh(inputs'.fresh, x, RxStale)
    BY <2>2, <2>3, <2>4 DEF LinkFresh
  <2>5. CASE ~LinkFresh(inputs'.fresh, x, RxStale)
    <3>1. ~(heard /\ x # 0)
      BY <1>4, <2>1, <2>5 DEF LinkFresh
    <3> QED
      BY <1>2, <1>3, <2>2, <2>3, <2>5, <3>1
  <2> QED
    BY <2>3, <2>4, <2>5
<1>6. Heard(x, Q, newGap)'
  <2>1. newGap < LongSilence => /\ newGap <= Elapsed(x, Q) + Elapsed(clock, x)
                                /\ Elapsed(x, Q) + Elapsed(clock, x) <= newGap + MaxPass
    <3>1. CASE heard /\ x # 0
      BY <1>2, <1>3, <1>4, <3>1
    <3>2. CASE ~(heard /\ x # 0)
      BY <1>2, <1>3, <1>4, <3>2
    <3> QED
      BY <3>1, <3>2
  <2>2. silence' <= newGap /\ (inputs'.fresh # 0 => silence' = newGap)
    <3>1. inputs'.fresh = IF heard THEN x ELSE inputs.fresh
      BY <1>1, TickedStamps
    <3> QED
      BY <1>2, <1>3, <3>1
  <2> QED
    BY <1>5, <2>1, <2>2 DEF Heard, Since
<1>7. Evaluated(x)' /\ Switched(x)'
  <2>1. driveOutputs'.vals[ArmSlot] # 0 => LinkFresh(inputs'.fresh, x, RxStale)
    BY <1>1, TickedStamps
  <2>2. Switched(x)'
    BY <2>1 DEF Switched, LinkFresh
  <2>3. Evaluated(x)'
    BY <1>1, <1>3, <1>4 DEF Evaluated
  <2> QED
    BY <2>2, <2>3
<1>8. ASSUME NEW i \in Motors, i \notin waived'
      PROVE  HoldTimed(motor'[i].arm, Elapsed(x, Q), newGap, recovered,
                       Elapsed(clock, motor'[i].t0), Elapsed(clock, x), Elapsed(x, motor'[i].t0))
  <2> DEFINE fresh == InputFresh(motor[i].cfg, x, inputs', driveOutputs')
  <2>1. /\ Becomes(motor[i], motor'[i], x, fresh)
        /\ i \in waived => Restarted(motor'[i], x)
    <3>1. waived' = NextWaived(FALSE)
      BY TickedStamps
    <3>2. \/ motor'[i].arm # "OFF" /\ motor'[i].cfg.mode = "armed"
          \/ Becomes(motor[i], motor'[i], x, fresh)
      <4>1. motor'[i] = TickMotor(motor[i], x, inputs', driveOutputs')
        BY <1>1, TickedStamps
      <4>2. Driven(motor[i]) /\ motor[i].cfg \in MotorParamSpace
        BY DEF Typed, SwitchInv, Wired
      <4> QED
        BY <4>1, <4>2, TickedDriven
    <3> QED
      BY <1>8, <3>1, <3>2, NoLongerWaived
  <2>2. fresh => Elapsed(x, Q) < Window
    BY <1>3, <1>5, FreshIsRecent
  <2> HIDE DEF fresh
  <2>3. \/ i \in waived
        \/ HoldTimed(motor[i].arm, Elapsed(L, O), gap, recovered,
                     Elapsed(clock, x) + Elapsed(x, motor[i].t0),
                     Elapsed(clock, x) + Elapsed(x, L), Elapsed(L, motor[i].t0))
    BY <1>1 DEF Tracked, Timed, Since
  <2>4. newGap = LongSilence => gap = LongSilence /\ Q = O
    BY <1>2
  <2> QED
    BY <1>3, <2>1, <2>2, <2>3, <2>4, TickKeepsTime
<1>9. \A i \in Motors : Timed(i, x, Q, newGap)'
  BY <1>8 DEF Timed, Since
<1> QED
  BY <1>6, <1>7, <1>9 DEF Tracked, Tracking

(* A millisecond, after which the silence may have become long.             *)
LEMMA AdvanceTracks ==
  ASSUME Link, Typed, Tracking, Advance
  PROVE  Tracking'
<1> USE Sizes
<1> PICK L \in Time, O \in Time, gap \in 0 .. LongSilence : Tracked(L, O, gap)
  BY DEF Tracking
<1> DEFINE newGap == UpTo(gap + 1, LongSilence)
<1>1. /\ phase # "setup" /\ phase' = phase /\ now' = now /\ clock' = NextMs(clock)
      /\ UNCHANGED <<inputs, driveOutputs, motor, waived>>
      /\ clock \in Time /\ now \in Time /\ Elapsed(clock, now) < MaxPass
      /\ silence' = UpTo(silence + 1, LongSilence) /\ silence \in 0 .. LongSilence
      /\ recovered' = IF silence' = LongSilence THEN 0 ELSE UpTo(recovered + 1, ArmHold)
      /\ recovered \in 0 .. ArmHold
      /\ \A i \in Motors : motor[i].t0 \in Time
  BY DEF Advance, Typed, Driven
<1>2. Evaluated(L) /\ Heard(L, O, gap) /\ Switched(L)
  BY DEF Tracked
<1>3. ASSUME NEW t \in Time
      PROVE  /\ Since(t) \in Nat /\ Since(t)' \in Nat /\ Since(t)' <= Since(t) + 1
             /\ Elapsed(L, t) \in Nat /\ Since(t) <= Elapsed(L, t) + Since(L)
  <2>1. /\ Elapsed(clock, t) \in Nat /\ Elapsed(now, t) \in Nat /\ Elapsed(clock, now) \in Nat
        /\ Elapsed(clock, L) \in Nat /\ Elapsed(now, L) \in Nat /\ Elapsed(L, t) \in Nat
        /\ clock' \in Time
    BY <1>1, AgeIsNat, AgeStep
  <2>2. Elapsed(clock', t) \in Nat /\ Elapsed(clock', now) \in Nat
    BY <1>1, <2>1, AgeIsNat
  <2>3. /\ Elapsed(clock', t) <= Elapsed(clock, t) + 1
        /\ Elapsed(clock', now) <= Elapsed(clock, now) + 1
    BY <1>1, AgeStep
  <2>4. /\ Elapsed(clock, t) <= Elapsed(clock, L) + Elapsed(L, t)
        /\ Elapsed(now, t) <= Elapsed(now, L) + Elapsed(L, t)
    BY <1>1, AgesAddUp
  <2> QED
    BY <1>1, <2>1, <2>2, <2>3, <2>4 DEF Since
<1>4. Since(L)' = Since(L) + 1 /\ Since(L) + 1 <= MaxPass + MaxPass
  <2>1. /\ Elapsed(clock, L) \in Nat /\ Elapsed(now, L) \in Nat /\ Elapsed(clock, now) \in Nat
    BY <1>1, AgeIsNat
  <2>2. /\ Elapsed(clock, L) + 1 < Wrap => Elapsed(clock', L) = Elapsed(clock, L) + 1
        /\ Elapsed(clock, now) + 1 < Wrap => Elapsed(clock', now) = Elapsed(clock, now) + 1
    BY <1>1, AgeStep
  <2> QED
    BY <1>1, <1>2, <2>1, <2>2 DEF Since, Evaluated
<1>5. Evaluated(L)'
  <2>1. /\ Elapsed(clock, L) \in Nat /\ Elapsed(clock, now) \in Nat
    BY <1>1, AgeIsNat
  <2>2. /\ Elapsed(clock', L) <= Elapsed(clock, L) + 1
        /\ Elapsed(clock, L) + 1 < Wrap => Elapsed(clock', L) = Elapsed(clock, L) + 1
        /\ Elapsed(clock, now) + 1 < Wrap => Elapsed(clock', now) = Elapsed(clock, now) + 1
    BY <1>1, AgeStep
  <2> QED
    BY <1>1, <1>2, <2>1, <2>2 DEF Evaluated
<1>6. newGap \in 0 .. LongSilence /\ newGap <= gap + 1 /\ gap <= newGap
      /\ (newGap < LongSilence => gap < LongSilence /\ newGap = gap + 1)
  BY DEF UpTo
<1>7. Elapsed(L, O) \in Nat /\ Since(L) \in Nat
  BY <1>3, AgeIsNat
<1>8. /\ silence' <= newGap /\ (silence' = LongSilence => newGap = LongSilence)
      /\ inputs.fresh # 0 => silence' = newGap
  BY <1>1, <1>2 DEF Heard, UpTo
<1> HIDE DEF newGap
<1>9. Heard(L, O, newGap)'
  BY <1>1, <1>2, <1>4, <1>6, <1>7, <1>8 DEF Heard
<1>10. Switched(L)'
  BY <1>1, <1>2 DEF Switched
<1>11. ASSUME NEW i \in Motors PROVE Timed(i, L, O, newGap)'
  <2> CASE i \in waived
    BY <1>1 DEF Timed
  <2> SUFFICES ASSUME i \notin waived PROVE Timed(i, L, O, newGap)'
    OBVIOUS
  <2> DEFINE t == motor[i].t0
  <2>1. /\ Since(t) \in Nat /\ Since(t)' \in Nat /\ Since(t)' <= Since(t) + 1
        /\ Elapsed(L, t) \in Nat /\ Since(t) <= Elapsed(L, t) + Since(L)
        /\ t' = t
    BY <1>1, <1>3
  <2>2. HoldTimed(motor[i].arm, Elapsed(L, O), gap, recovered, Since(t), Since(L),
                  Elapsed(L, t))
    BY DEF Tracked, Timed
  <2>3. \/ recovered' = UpTo(recovered + 1, ArmHold)
        \/ recovered' = 0 /\ newGap = LongSilence
    BY <1>1, <1>8
  <2>4. recovered' \in Nat
    BY <1>1, <2>3 DEF UpTo
  <2>5. gap < LongSilence => gap <= Elapsed(L, O) + Since(L)
    BY <1>2 DEF Heard
  <2> HIDE DEF t
  <2>6. HoldTimed(motor[i].arm, Elapsed(L, O), newGap, recovered', Since(t)', Since(L) + 1,
                  Elapsed(L, t))
    BY <1>1, <1>4, <1>7, <2>1, <2>2, <2>3, <2>4, <2>5, AdvanceKeepsTime DEF newGap
  <2> QED
    BY <1>1, <1>4, <2>6 DEF Timed, t
<1> QED
  BY <1>5, <1>6, <1>9, <1>10, <1>11 DEF Tracked, Tracking

(* Every step keeps the stamps within the bounds the hold is timed by.       *)
LEMMA LinkStep == Link /\ LinkInv /\ [Next]_vars => LinkInv'
<1> SUFFICES ASSUME Link, SwitchInv, Typed, Untouched, Tracking, [Next]_vars
             PROVE  LinkInv'
  BY DEF LinkInv
<1>1. SwitchInv' /\ Typed' /\ Untouched'
  BY SwitchStep, TypedStep
<1> SUFFICES Tracking'
  BY <1>1 DEF LinkInv
<1>2. CASE Setup
  BY <1>2, SetupTracks
<1>3. CASE BeginPass
  BY <1>3, BeginPassTracks
<1>4. CASE SetMotor
  <2>1. PICK i \in Motors, c \in Configs :
          motor' = [motor EXCEPT ![i] = ApplyMotor(i, c.motor[i])]
    BY <1>4 DEF SetMotor
  <2>2. \A j \in Motors : \/ motor'[j] = motor[j]
                          \/ \E d \in Configs : motor'[j] = ApplyMotor(j, d.motor[j])
    BY <2>1 DEF SwitchInv, Wired
  <2> QED
    BY <1>4, <2>2, CommandTracks DEF SetMotor
<1>5. CASE Restore
  <2>1. PICK c \in Configs : NotifyAll(c)
    BY <1>5 DEF Restore
  <2>2. \A j \in Motors : motor'[j] = ApplyMotor(j, c.motor[j])
    BY <2>1 DEF NotifyAll
  <2> QED
    BY <1>5, <2>2, CommandTracks DEF Restore
<1>6. CASE SetRx \/ SetDrive \/ SetServo
  BY <1>6, IdleCommandTracks DEF SetRx, SetDrive, SetServo
<1>7. CASE TickHeard
  <2>1. PICK f \in Frames : TickModules(f, TRUE)
    BY <1>7 DEF TickHeard
  <2> QED
    BY <1>1, <1>7, <2>1, TickTracks DEF TickHeard
<1>8. CASE TickSilent
  BY <1>1, <1>8, TickTracks DEF TickSilent
<1>9. CASE Advance
  BY <1>9, AdvanceTracks
<1>10. CASE UNCHANGED vars
  BY <1>10, IdleCommandTracks DEF vars
<1> QED
  BY <1>2, <1>3, <1>4, <1>5, <1>6, <1>7, <1>8, <1>9, <1>10 DEF Next

(* The outputs the link drives that move.                                 *)
Movers == {i \in Motors : FollowsLink(i) /\ Moving(i)}

(* They may: the link was heard from within the stale window and two passes,  *)
(* and what was not waived had a link that is back for the assured hold.     *)
Earned == Promise!MayMove(Movers, waived, silence, UpTo(recovered, AssuredHold))

(* Such an output is armed behind a closed switch: L's evaluation saw the  *)
(* link within its stale window, and L is at most two passes ago.          *)
LEMMA MotionIsEarned == Link /\ LinkInv => Earned
<1> SUFFICES ASSUME Link, LinkInv, NEW i \in Motors, Moving(i)
             PROVE  /\ silence < RxStale + 2 * MaxPass \/ silence = LongSilence
                    /\ i \in waived
                         \/ /\ silence < RxStale + 2 * MaxPass
                            /\ UpTo(recovered, AssuredHold) >= AssuredHold
  BY DEF Earned, Movers, Promise!MayMove
<1> USE Sizes
<1> PICK L \in Time, O \in Time, gap \in 0 .. LongSilence : Tracked(L, O, gap)
  BY DEF LinkInv, Tracking
<1>1. motor[i].arm = "ARMED" /\ driveOutputs.vals[ArmSlot] # 0
  BY DEF LinkInv, SwitchInv, Typed, Driven, Moving
<1>2. clock \in Time /\ now \in Time /\ silence \in Nat /\ recovered \in Nat
  BY DEF LinkInv, Typed
<1>3. Elapsed(L, O) < RxStale /\ silence = gap
  BY <1>1 DEF Tracked, Switched, Heard
<1>4. Elapsed(L, O) \in Nat /\ Elapsed(clock, L) \in Nat
      /\ Elapsed(clock, now) \in Nat /\ Elapsed(now, L) \in Nat
  BY <1>2, AgeIsNat
<1>5. Since(L) \in Nat /\ Since(L) <= MaxPass + MaxPass
  BY <1>4 DEF Tracked, Evaluated, Since
<1>6. gap < LongSilence => silence < RxStale + 2 * MaxPass
  <2>1. gap < LongSilence => gap <= Elapsed(L, O) + Since(L)
    BY DEF Tracked, Heard
  <2> QED
    BY <1>3, <1>4, <1>5, <2>1
<1>7. i \notin waived => gap < LongSilence /\ recovered >= AssuredHold
  BY <1>1 DEF Tracked, Timed, HoldTimed
<1> QED
  BY <1>2, <1>3, <1>6, <1>7 DEF UpTo

(* The step FailSafe takes for each step of the vehicle: a frame applied is  *)
(* heard, a millisecond is one, anything else is a command or nothing.       *)
LEMMA FailSafeStep ==
  Link /\ LinkInv /\ LinkInv' /\ Earned' /\ [Next]_vars => [Promise!Next]_(Promise!vars)
<1> SUFFICES ASSUME Link, LinkInv, LinkInv', Earned', [Next]_vars
             PROVE  [Promise!Next]_(Promise!vars)
  OBVIOUS
<1> USE Sizes
<1>1. silence \in 0 .. LongSilence /\ recovered \in 0 .. ArmHold
      /\ silence' \in 0 .. LongSilence /\ recovered' \in 0 .. ArmHold
      /\ Movers' \subseteq Motors /\ waived' \subseteq Motors
  BY DEF LinkInv, Typed, Movers
<1>2. Promise!MayMove(Movers', waived', silence', UpTo(recovered, AssuredHold)')
  BY DEF Earned, Promise!MayMove
<1>3. CASE UNCHANGED <<silence, recovered>>
  <2>1. UpTo(recovered, AssuredHold)' = UpTo(recovered, AssuredHold)
    BY <1>3 DEF UpTo
  <2>2. Promise!MayMove(Movers', waived', silence, UpTo(recovered, AssuredHold))
    BY <1>2, <1>3, <2>1
  <2>3. Promise!Command
    BY <1>1, <1>3, <2>1, <2>2 DEF Promise!Command, Movers
  <2> QED
    BY <2>3 DEF Promise!Next
<1>4. CASE TickHeard
  <2>1. silence' = 0 /\ UpTo(recovered, AssuredHold)' = UpTo(recovered, AssuredHold)
    BY <1>4 DEF TickHeard, UpTo
  <2>2. Promise!MayMove(Movers', waived', 0, UpTo(recovered, AssuredHold))
    BY <1>2, <2>1
  <2>3. Promise!Hear
    BY <1>1, <2>1, <2>2 DEF Promise!Hear, Movers
  <2> QED
    BY <2>3 DEF Promise!Next
<1>5. CASE Advance
  <2>1. /\ silence' = Promise!UpTo(silence + 1, LongSilence)
        /\ UpTo(recovered, AssuredHold)'
             = IF silence' = LongSilence THEN 0
               ELSE Promise!UpTo(UpTo(recovered, AssuredHold) + 1, AssuredHold)
    BY <1>1, <1>5 DEF Advance, UpTo, Promise!UpTo
  <2>2. Movers' = Movers /\ waived' = waived
    BY <1>5 DEF Advance, Movers, FollowsLink, Moving
  <2>3. Promise!Millisecond
    BY <1>2, <2>1, <2>2 DEF Promise!Millisecond, Movers
  <2> QED
    BY <2>3 DEF Promise!Next
<1>6. UNCHANGED <<silence, recovered>> \/ TickHeard \/ Advance
  BY DEF Next, vars, Setup, BeginPass, SetRx, SetDrive, SetMotor, SetServo, Restore, TickSilent
<1> QED
  BY <1>3, <1>4, <1>5, <1>6

(* Power-up is FailSafe's: nothing heard, nothing moving.                  *)
LEMMA FailSafeInit == Link /\ Init => Promise!Init
<1> SUFFICES ASSUME Link, Init PROVE Promise!Init
  OBVIOUS
<1>1. silence = LongSilence /\ UpTo(recovered, AssuredHold) = 0
  BY Sizes DEF Init, UpTo
<1>2. {i \in Motors : FollowsLink(i) /\ Moving(i)} = {} /\ waived = {}
  BY DEF Init, FollowsLink, BootMotor
<1> QED
  BY <1>1, <1>2 DEF Promise!Init

(* The vehicle, its two motors, its mixer and its commands, wherever in a    *)
(* pass they come, on a clock that wraps, takes only the steps FailSafe       *)
(* takes: no output the link drives moves a stale window and two passes      *)
(* after the last frame, and after a long silence none moves before a hold   *)
(* (less what a wrap can hide), unless that hold ran on the bench or a        *)
(* command newer than its pass began it.                                   *)
THEOREM VehicleImplements ==
  ASSUME Link
  PROVE  Spec => ImplementsFailSafe
<1>1. Init => Promise!Init /\ LinkInv
  BY FailSafeInit, LinkInit
<1>2. LinkInv /\ [Next]_vars => LinkInv'
  BY LinkStep
<1>3. LinkInv => Earned
  BY MotionIsEarned
<1>4. LinkInv /\ LinkInv' /\ Earned' /\ [Next]_vars => [Promise!Next]_(Promise!vars)
  BY FailSafeStep
<1> QED
  BY <1>1, <1>2, <1>3, <1>4, PTL DEF Spec, ImplementsFailSafe, Promise!Spec

(* So the vehicle keeps the two promises.                                   *)
THEOREM VehicleKeepsPromises ==
  ASSUME Link
  PROVE  Spec => [](Promise!SilenceStops /\ Promise!SilenceCostsAHold)
<1>1. LinkInv => Promise!SilenceStops /\ Promise!SilenceCostsAHold
  <2> SUFFICES ASSUME LinkInv PROVE Promise!SilenceStops /\ Promise!SilenceCostsAHold
    OBVIOUS
  <2>1. Promise!MayMove(Movers, waived, silence, UpTo(recovered, AssuredHold))
    BY MotionIsEarned DEF Earned
  <2>2. silence \in Nat /\ UpTo(recovered, AssuredHold) \in Nat
    BY Sizes DEF LinkInv, Typed, UpTo
  <2> QED
    BY <2>1, <2>2, Sizes
       DEF Movers, Promise!MayMove, Promise!SilenceStops, Promise!SilenceCostsAHold
<1>2. Init => LinkInv
  BY LinkInit
<1>3. LinkInv /\ [Next]_vars => LinkInv'
  BY LinkStep
<1> QED
  BY <1>1, <1>2, <1>3, PTL DEF Spec

-----------------------------------------------------------------------------
(* C's quotient, which truncates: by a positive number, within one divisor   *)
(* below a number that is not negative;                                     *)
LEMMA QuotUp ==
  ASSUME NEW a \in Nat, NEW b \in Nat \ {0}
  PROVE  /\ Quot(a, b) = a \div b /\ a \div b \in Nat
         /\ b * (a \div b) <= a /\ a < b * (a \div b) + b
<1>1. a = b * (a \div b) + (a % b) /\ a % b \in 0 .. b - 1 /\ a \div b \in Int
  OBVIOUS
<1>2. a \div b \in Nat
  OBVIOUS
<1>3. Quot(a, b) = a \div b BY DEF Quot
<1> QED BY <1>1, <1>2, <1>3

(* odd in its numerator;                                                    *)
LEMMA QuotOdd ==
  ASSUME NEW a \in Int, NEW b \in Nat \ {0}
  PROVE  Quot(-a, b) = -Quot(a, b) /\ Quot(a, b) \in Int
BY DEF Quot

(* the same when both signs are turned.                                     *)
LEMMA QuotNegative ==
  ASSUME NEW a \in Int, NEW b \in Nat \ {0}
  PROVE  Quot(-a, -b) = Quot(a, b)
BY DEF Quot

(* An offset of a, of at most m, shrunk by whole percents to fit 500.        *)
LEMMA Shrunk ==
  ASSUME NEW a \in Nat, NEW m \in Nat, a <= m, m > 500,
         NEW s \in Nat, s * m <= 50000, 50000 < s * m + m,
         NEW q \in Nat, 100 * q <= a * s, a * s < 100 * q + 100
  PROVE  /\ q <= 500
         /\ 100 * (q * m) <= 50000 * a
         /\ 50000 * a - 100 * (q * m) <= m * (a + 100)
<1>1. a * s <= m * s OBVIOUS
<1>2. m * s = s * m OBVIOUS
<1>3. q <= 500 BY <1>1, <1>2
<1> DEFINE p == a * s
           r == s * m
<1>4. p \in Int /\ r \in Int OBVIOUS
<1>5. p * m = a * r OBVIOUS
<1> HIDE DEF p, r
<1>6. 100 * (q * m) <= p * m
  <2>1. 100 * q <= p BY DEF p
  <2> QED BY <2>1, <1>4
<1>7. a * r <= 50000 * a
  <2>1. r <= 50000 BY DEF r
  <2> QED BY <2>1, <1>4
<1>8. p * m <= (100 * q + 100) * m
  <2>1. p <= 100 * q + 100 BY <1>4 DEF p
  <2> QED BY <2>1, <1>4
<1>9. a * 50000 <= a * (r + m)
  <2>1. 50000 <= r + m BY <1>4 DEF r
  <2> QED BY <2>1, <1>4
<1>10. a * (r + m) = a * r + a * m BY <1>4
<1>11. (100 * q + 100) * m = 100 * (q * m) + 100 * m OBVIOUS
<1>12. m * (a + 100) = a * m + 100 * m OBVIOUS
<1>13. q * m \in Int /\ a * m \in Int /\ p * m \in Int /\ a * r \in Int BY <1>4
<1> QED BY <1>3, <1>5, <1>6, <1>7, <1>8, <1>9, <1>10, <1>11, <1>12, <1>13

(* The percent that brings n to the stop.                                   *)
ToStop(n) == 50000 \div n

(* Nothing that is at most m is scaled down further than m is.               *)
LEMMA QuotDown ==
  ASSUME NEW n \in Nat \ {0}, NEW m \in Nat, n <= m
  PROVE  ToStop(m) <= ToStop(n)
<1> DEFINE k == ToStop(m)
           l == ToStop(n)
<1>1. /\ k \in Nat /\ m * k <= 50000
      /\ l \in Nat /\ 50000 < n * l + n
  BY QuotUp DEF ToStop
<1> HIDE DEF k, l
<1>2. n * k <= m * k BY <1>1
<1>3. n * l + n = n * (l + 1) BY <1>1
<1>4. n * k < n * (l + 1) BY <1>1, <1>2, <1>3
<1>5. k < l + 1 BY <1>1, <1>4
<1> QED BY <1>1, <1>5 DEF k, l

(* The factor of one offset.                                                *)
LEMMA ScaleOf ==
  ASSUME NEW x \in Int
  PROVE  ScaleNumForOffset(x) = IF Magnitude(x) > 500
                                      THEN ToStop(Magnitude(x)) ELSE 100
<1>1. CASE x > 500 BY <1>1, QuotUp
  DEF ToStop, ScaleNumForOffset, Magnitude, DriveMaxUs, DriveMinUs,
      CenterUs
<1>2. CASE x < -500
  <2>1. -x \in Nat \ {0} BY <1>2
  <2>2. Quot(-50000, x) = Quot(50000, -x)
    <3> DEFINE y == -x
    <3>1. y \in Nat \ {0} /\ x = -y BY <2>1
    <3> HIDE DEF y
    <3> QED BY <3>1, QuotNegative
  <2>3. Quot(50000, -x) = ToStop(-x) BY <2>1, QuotUp DEF ToStop
  <2> QED BY <1>2, <2>2, <2>3
    DEF ScaleNumForOffset, Magnitude, DriveMaxUs, DriveMinUs,
        CenterUs
<1>3. CASE x \in -500 .. 500 BY <1>3
  DEF ScaleNumForOffset, Magnitude, DriveMaxUs, DriveMinUs,
      CenterUs
<1> QED BY <1>1, <1>2, <1>3

(* The largest of two offsets and the stop.                                 *)
Farthest(x, y) ==
  LET n == IF Magnitude(x) > Magnitude(y) THEN Magnitude(x)
           ELSE Magnitude(y)
  IN  IF n > 500 THEN n ELSE 500

(* The factor of both, which is the larger one's.                           *)
LEMMA ScaleOfBoth ==
  ASSUME NEW x \in Int, NEW y \in Int
  PROVE  LET m == Farthest(x, y)
             s == Least(ScaleNumForOffset(x), ScaleNumForOffset(y))
         IN  /\ m \in Nat /\ Magnitude(x) <= m /\ Magnitude(y) <= m /\ m >= 500
             /\ s \in Nat
             /\ IF m > 500 THEN s = ToStop(m) ELSE s = 100
<1> DEFINE u == Magnitude(x)
           v == Magnitude(y)
           m == Farthest(x, y)
           Factor(n) == IF n > 500 THEN ToStop(n) ELSE 100
<1>1. u \in Nat /\ v \in Nat BY DEF Magnitude
<1>2. /\ ScaleNumForOffset(x) = Factor(u) /\ ScaleNumForOffset(y) = Factor(v)
  BY ScaleOf
<1>3. ASSUME NEW n \in Nat PROVE Factor(n) \in Nat /\ Factor(n) <= 100
  <2>1. CASE n > 500
    <3> DEFINE k == ToStop(n)
    <3>1. k \in Nat /\ n * k <= 50000 BY <2>1, QuotUp DEF ToStop
    <3> HIDE DEF k
    <3>2. 500 * k <= n * k BY <2>1, <3>1
    <3>3. k <= 100 BY <3>1, <3>2
    <3> QED BY <2>1, <3>1, <3>3 DEF k
  <2>2. CASE ~(n > 500) BY <2>2
  <2> QED BY <2>1, <2>2
<1>4. ASSUME NEW n \in Nat, NEW l \in Nat, n <= l PROVE Factor(l) <= Factor(n)
  <2>1. CASE n > 500
    <3>1. n \in Nat \ {0} /\ l > 500 BY <1>4, <2>1
    <3>2. ToStop(l) <= ToStop(n) BY <1>4, <3>1, QuotDown
    <3> QED BY <2>1, <3>1, <3>2
  <2>2. CASE ~(n > 500) BY <1>3, <2>2
  <2> QED BY <2>1, <2>2
<1>5. m = IF u > v THEN (IF u > 500 THEN u ELSE 500) ELSE (IF v > 500 THEN v ELSE 500)
  BY DEF Farthest
<1>6. m \in Nat /\ u <= m /\ v <= m /\ m >= 500 BY <1>1, <1>5
<1>7. Factor(u) \in Nat /\ Factor(v) \in Nat /\ Factor(u) <= 100 /\ Factor(v) <= 100
  BY <1>1, <1>3
<1>8. u <= v => Factor(v) <= Factor(u) BY <1>1, <1>4
<1>9. v <= u => Factor(u) <= Factor(v) BY <1>1, <1>4
<1>10. m = 500 => Factor(u) = 100 /\ Factor(v) = 100 BY <1>1, <1>6
<1>11. m > 500 => m = IF u > v THEN u ELSE v BY <1>1, <1>5
<1>12. m > 500 => ToStop(m) = Factor(m) OBVIOUS
<1> HIDE DEF Factor, u, v, m
<1>13. Least(Factor(u), Factor(v)) = IF u > v THEN Factor(u) ELSE Factor(v)
  BY <1>1, <1>7, <1>8, <1>9 DEF Least
<1> QED BY <1>1, <1>2, <1>6, <1>7, <1>10, <1>11, <1>12, <1>13 DEF u, v, m

(* A track under that factor: near its share, and inside the stops.          *)
LEMMA TrackNear ==
  ASSUME NEW x \in Int, NEW m \in Nat, NEW s \in Nat, Magnitude(x) <= m, m >= 500,
         IF m > 500 THEN s = ToStop(m) ELSE s = 100
  PROVE  Near(ClampToRange(CenterUs + Quot(x * s, 100)), x, m)
<1> DEFINE a == Magnitude(x)
           p == a * s
           q == p \div 100
           o == Quot(x * s, 100)
<1>1. a \in Nat /\ a <= m /\ a = IF x < 0 THEN -x ELSE x BY DEF Magnitude
<1>2. p \in Nat BY <1>1
<1>3. x * s = IF x < 0 THEN -p ELSE p
  <2>1. CASE x < 0
    <3>1. x = -a BY <1>1, <2>1
    <3> HIDE DEF a
    <3>2. (-a) * s = -(a * s) BY <1>1
    <3> QED BY <2>1, <3>1, <3>2
  <2>2. CASE ~(x < 0) BY <1>1, <2>2
  <2> QED BY <2>1, <2>2
<1> HIDE DEF p
<1>4. q \in Nat /\ 100 * q <= p /\ p < 100 * q + 100 /\ Quot(p, 100) = q
  BY <1>2, QuotUp
<1>5. o = IF x < 0 THEN -q ELSE q
  <2>1. Quot(-p, 100) = -Quot(p, 100) BY <1>2, QuotOdd
  <2>2. CASE x < 0
    <3>1. x * s = -p BY <1>3, <2>2
    <3> HIDE DEF p, q
    <3>2. Quot(x * s, 100) = -q BY <1>4, <2>1, <3>1
    <3> QED BY <2>2, <3>2
  <2>3. CASE ~(x < 0)
    <3>1. x * s = p BY <1>3, <2>3
    <3> QED BY <1>4, <2>3, <3>1
  <2> QED BY <2>2, <2>3
<1> HIDE DEF q, o
<1>6. q <= 500 /\ 100 * (q * m) <= 50000 * a /\ 50000 * a - 100 * (q * m) <= m * (a + 100)
  <2>1. CASE m > 500
    <3>1. s * m <= 50000 /\ 50000 < s * m + m
      <4>1. m * s <= 50000 /\ 50000 < m * s + m BY <2>1, QuotUp DEF ToStop
      <4> QED BY <4>1
    <3>2. 100 * q <= a * s /\ a * s < 100 * q + 100 BY <1>4 DEF p
    <3> HIDE DEF a
    <3> QED BY <1>1, <1>4, <2>1, <3>1, <3>2, Shrunk
  <2>2. CASE m = 500
    <3>1. s = 100 BY <2>2
    <3>2. q = a BY <1>1, <1>4, <3>1 DEF p
    <3> QED BY <1>1, <2>2, <3>2
  <2> QED BY <2>1, <2>2
<1> HIDE DEF a
<1>7. ClampToRange(CenterUs + o) = CenterUs + o
  BY <1>4, <1>5, <1>6
     DEF ClampToRange, CenterUs, DriveMinUs, DriveMaxUs
<1>8. (CenterUs + o) - CenterUs = o BY <1>4, <1>5 DEF CenterUs
<1>9. o * m - 500 * x = IF x < 0 THEN -(q * m - 500 * a) ELSE q * m - 500 * a
  BY <1>1, <1>4, <1>5
<1> DEFINE e == q * m - 500 * a
<1>10. e \in Int /\ 100 * e <= 0 /\ -(100 * e) <= m * (a + 100)
  <2>1. q * m \in Int BY <1>4
  <2> QED BY <1>1, <1>4, <1>6, <2>1
<1>11. o * m - 500 * x = IF x < 0 THEN -e ELSE e BY <1>9
<1> HIDE DEF e
<1>12. Magnitude(o * m - 500 * x) = -e BY <1>10, <1>11 DEF Magnitude
<1>13. 100 * Magnitude(o * m - 500 * x) <= m * (Magnitude(x) + 100)
  BY <1>10, <1>12 DEF a
<1> QED BY <1>7, <1>8, <1>13 DEF Near, o

(* Sticks and ratios are integers.                                          *)
MixTypes ==
  /\ throttle \in Int /\ steer \in Int
  /\ ratios \in [forward : Int, reverse : Int, steer : Int]

(* So are the offsets, and a stick on the other side of centre gives the     *)
(* opposite one.                                                            *)
LEMMA OffsetsOpposed ==
  ASSUME NEW t \in Int, NEW r \in Int, NEW q \in Int
  PROVE  /\ ThrottleOffset(t, r, q) \in Int /\ SteerOffset(t, r) \in Int
         /\ SteerOffset(2 * CenterUs - t, r) = -SteerOffset(t, r)
         /\ r = q => ThrottleOffset(2 * CenterUs - t, r, q)
                       = -ThrottleOffset(t, r, q)
<1> DEFINE d == t - CenterUs
           e == (2 * CenterUs - t) - CenterUs
           f == IF d > 0 THEN r ELSE q
<1>1. d \in Int /\ e = -d /\ f \in Int BY DEF CenterUs
<1> HIDE DEF d, e, f
<1>2. d * r \in Int /\ e * r = -(d * r) /\ d * f \in Int BY <1>1
<1>3. Quot(e * r, 100) = -Quot(d * r, 100)
  <2> DEFINE p == d * r
  <2> HIDE DEF p
  <2> QED BY <1>2, QuotOdd DEF p
<1>4. Quot(d * r, 100) \in Int /\ Quot(d * f, 100) \in Int BY <1>2, QuotOdd
<1>5. /\ SteerOffset(t, r) = Quot(d * r, 100)
      /\ SteerOffset(2 * CenterUs - t, r) = Quot(e * r, 100)
      /\ ThrottleOffset(t, r, q) = Quot(d * f, 100)
      /\ r = q => /\ ThrottleOffset(t, r, q) = Quot(d * r, 100)
                  /\ ThrottleOffset(2 * CenterUs - t, r, q) = Quot(e * r, 100)
  BY DEF SteerOffset, ThrottleOffset, d, e, f
<1> QED BY <1>3, <1>4, <1>5

(* drive_math.h's proportional clamp, for every stick and every ratio.       *)
LEMMA ClampHolds == MixTypes => ClampIsProportional
<1> SUFFICES ASSUME MixTypes PROVE ClampIsProportional
  OBVIOUS
<1> DEFINE t == ThrottleOffset(throttle, ratios.forward, ratios.reverse)
           s == SteerOffset(steer, ratios.steer)
           x == t + s
           y == t - s
           k == Least(ScaleNumForOffset(x), ScaleNumForOffset(y))
           m == Farthest(x, y)
<1>1. t \in Int /\ s \in Int BY OffsetsOpposed DEF MixTypes
<1>2. Deadbanded(throttle, 0) = throttle /\ Deadbanded(steer, 0) = steer
  BY DEF MixTypes, Deadbanded, CenterUs
<1>3. /\ Tracks.left = ClampToRange(CenterUs + Quot(x * k, 100))
      /\ Tracks.right = ClampToRange(CenterUs + Quot(y * k, 100))
      /\ Left = x /\ Right = y
  BY <1>2 DEF Tracks, Mix, Left, Right
<1>4. Most = m BY <1>3 DEF Most, Farthest
<1> HIDE DEF t, s
<1>5. x \in Int /\ y \in Int BY <1>1
<1> HIDE DEF x, y
<1>6. /\ m \in Nat /\ Magnitude(x) <= m /\ Magnitude(y) <= m /\ m >= 500
      /\ k \in Nat
      /\ IF m > 500 THEN k = ToStop(m) ELSE k = 100
  BY <1>5, ScaleOfBoth
<1> HIDE DEF k, m
<1>7. /\ Near(ClampToRange(CenterUs + Quot(x * k, 100)), x, m)
      /\ Near(ClampToRange(CenterUs + Quot(y * k, 100)), y, m)
  BY <1>5, <1>6, TrackNear
<1> QED BY <1>3, <1>4, <1>7 DEF ClampIsProportional

(* Opposed offsets shrink alike and end on opposite sides of centre.         *)
LEMMA TracksOpposed ==
  ASSUME NEW x \in Int, NEW k \in Int
  PROVE  /\ ScaleNumForOffset(-x) = ScaleNumForOffset(x)
         /\ ScaleNumForOffset(x) \in Int
         /\ ClampToRange(CenterUs + Quot((-x) * k, 100)) - CenterUs
              = CenterUs - ClampToRange(CenterUs + Quot(x * k, 100))
<1>1. Magnitude(-x) = Magnitude(x) /\ Magnitude(x) \in Nat
  BY DEF Magnitude
<1>2. ScaleNumForOffset(-x) = ScaleNumForOffset(x) BY <1>1, ScaleOf
<1>3. ScaleNumForOffset(x) \in Int BY <1>1, ScaleOf DEF ToStop
<1> DEFINE o == Quot(x * k, 100)
           n == Quot((-x) * k, 100)
<1>4. o \in Int /\ n = -o
  <2> DEFINE p == x * k
  <2>1. (-x) * k = -p /\ p \in Int OBVIOUS
  <2> HIDE DEF p
  <2> QED BY <2>1, QuotOdd DEF p
<1> HIDE DEF o, n
<1>5. ClampToRange(CenterUs + n) - CenterUs
        = CenterUs - ClampToRange(CenterUs + o)
  BY <1>4 DEF ClampToRange, CenterUs, DriveMinUs, DriveMaxUs
<1> QED BY <1>2, <1>3, <1>5 DEF o, n

(* A vehicle backs along the line it came, for every stick and every ratio.  *)
LEMMA MirrorHolds == MixTypes => ReverseMirrors
<1> SUFFICES ASSUME MixTypes, ratios.forward = ratios.reverse
             PROVE  LET back == Mix(2 * CenterUs - throttle,
                                          2 * CenterUs - steer, ratios, 0)
                    IN  /\ back.left - CenterUs = CenterUs - Tracks.left
                        /\ back.right - CenterUs = CenterUs - Tracks.right
  BY DEF ReverseMirrors
<1> DEFINE th == 2 * CenterUs - throttle
           st == 2 * CenterUs - steer
           t  == ThrottleOffset(throttle, ratios.forward, ratios.reverse)
           s  == SteerOffset(steer, ratios.steer)
           v  == ThrottleOffset(th, ratios.forward, ratios.reverse)
           u  == SteerOffset(st, ratios.steer)
           Factor(x, y) == Least(ScaleNumForOffset(x), ScaleNumForOffset(y))
           Track(x, k) == ClampToRange(CenterUs + Quot(x * k, 100))
<1>1. t \in Int /\ s \in Int /\ v = -t /\ u = -s
  <2>1. /\ throttle \in Int /\ steer \in Int
        /\ ratios.forward \in Int /\ ratios.reverse \in Int /\ ratios.steer \in Int
    BY DEF MixTypes
  <2>2. t \in Int BY <2>1, OffsetsOpposed
  <2>3. s \in Int /\ u = -s BY <2>1, OffsetsOpposed
  <2>4. \A f, g \in Int : f = g => ThrottleOffset(th, f, g)
                                     = -ThrottleOffset(throttle, f, g)
    BY <2>1, OffsetsOpposed
  <2>5. v = -t BY <2>1, <2>4
  <2> QED BY <2>2, <2>3, <2>5
<1>2. /\ Deadbanded(throttle, 0) = throttle /\ Deadbanded(steer, 0) = steer
      /\ Deadbanded(th, 0) = th /\ Deadbanded(st, 0) = st
  BY DEF MixTypes, Deadbanded, CenterUs
<1> DEFINE back == Mix(th, st, ratios, 0)
<1>3. /\ Tracks.left = Track(t + s, Factor(t + s, t - s))
      /\ Tracks.right = Track(t - s, Factor(t + s, t - s))
      /\ back.left = Track(v + u, Factor(v + u, v - u))
      /\ back.right = Track(v - u, Factor(v + u, v - u))
  BY <1>2 DEF Tracks, Mix
<1> HIDE DEF th, st, t, s, v, u, back
<1> DEFINE x == t + s
           y == t - s
<1>4. x \in Int /\ y \in Int /\ v + u = -x /\ v - u = -y BY <1>1
<1> HIDE DEF x, y
<1>5. /\ Factor(-x, -y) = Factor(x, y) /\ Factor(x, y) \in Int
  BY <1>4, TracksOpposed DEF Least
<1> DEFINE k == Factor(x, y)
<1> HIDE DEF Factor
<1>6. k \in Int BY <1>5
<1> HIDE DEF k
<1>7. /\ Track(-x, k) - CenterUs = CenterUs - Track(x, k)
      /\ Track(-y, k) - CenterUs = CenterUs - Track(y, k)
  BY <1>4, <1>6, TracksOpposed
<1> HIDE DEF Track
<1>8. back.left - CenterUs = CenterUs - Tracks.left
      /\ back.right - CenterUs = CenterUs - Tracks.right
  BY <1>3, <1>4, <1>5, <1>7 DEF x, y, k
<1> QED BY <1>8 DEF back, th, st

(* The sticks carry what they may carry.                                    *)
LEMMA MixTyped ==
  /\ MixInit => MixTypes
  /\ MixTypes /\ [MixNext]_mixVars => MixTypes'
<1> USE MixingAssumption
<1>1. MixInit => MixTypes BY DEF MixInit, MixTypes, CenterUs
<1>2. ASSUME MixTypes, [MixNext]_mixVars PROVE MixTypes'
  <2>1. CASE MoveThrottle \/ MoveSteer \/ UNCHANGED mixVars
    BY <1>2, <2>1 DEF MixTypes, MoveThrottle, MoveSteer, mixVars
  <2>2. CASE SetRatio BY <1>2, <2>2 DEF MixTypes, SetRatio
  <2> QED BY <1>2, <2>1, <2>2 DEF MixNext
<1> QED BY <1>1, <1>2

(* The two tracks keep their proportion, whatever the sticks ask for.        *)
THEOREM ClampTheorem == MixSpec => []ClampIsProportional
<1> QED BY MixTyped, ClampHolds, PTL DEF MixSpec

(* Reversed sticks reverse the tracks.                                      *)
THEOREM MirrorTheorem == MixSpec => []ReverseMirrors
<1> QED BY MixTyped, MirrorHolds, PTL DEF MixSpec
=============================================================================
