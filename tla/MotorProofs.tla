----------------------------- MODULE MotorProofs -----------------------------
(***************************************************************************)
(* Theorems about one motor output, for every hold, staleness limit, pass   *)
(* length, clock width and set of configurations the assumptions allow.     *)
(***************************************************************************)
EXTENDS Motor, TLAPS

(* What the lemmas ask of a bus: a stamp the clock can show, values a       *)
(* channel can carry.                                                      *)
SaneBus(bus) ==
  /\ bus.fresh \in Time
  /\ \A s \in DOMAIN bus.vals : bus.vals[s] \in PulseUs

-----------------------------------------------------------------------------
(* The clock never leaves its range, and an age is a reading of it.         *)
LEMMA ElapsedInTime ==
  ASSUME NEW a, NEW b, a \in Time, b \in Time
  PROVE  Elapsed(a, b) \in Time
BY WrapAssumption DEF Elapsed, Time

LEMMA NextMsInTime ==
  ASSUME NEW t, t \in Time
  PROVE  NextMs(t) \in Time
BY WrapAssumption DEF NextMs, Time

(* One millisecond later every age is one larger, until it wraps to zero.   *)
LEMMA ElapsedStep ==
  ASSUME NEW a, NEW b, a \in Time, b \in Time
  PROVE  Elapsed(NextMs(a), b) = IF Elapsed(a, b) = Wrap - 1 THEN 0 ELSE Elapsed(a, b) + 1
BY WrapAssumption DEF NextMs, Elapsed, Time

(* Neutral lies in the calibrated span, and the frame clamp never moves it: *)
(* the largest neutral a client can configure is 2000us, and the shortest   *)
(* frame leaves 2375us.                                                    *)
LEMMA NeutralInSpan ==
  ASSUME NEW min, NEW max, min \in MinUs, max \in MaxUs
  PROVE  /\ NeutralUs(min, max) \in ThrottleUs
         /\ min <= NeutralUs(min, max)
         /\ NeutralUs(min, max) <= max
BY DEF NeutralUs, MinUs, MaxUs, ThrottleUs

LEMMA FrameRoom ==
  ASSUME NEW max, NEW rate, NEW n, max \in MaxUs, rate \in RateHz,
         n \in ThrottleUs, n <= max
  PROVE  /\ EffectiveMaxUs(max, FrameUsForRate(rate)) \in MaxUs
         /\ n <= EffectiveMaxUs(max, FrameUsForRate(rate))
BY SMTT(30) DEF EffectiveMaxUs, FrameUsForRate, RateHz, MinLowUs, MaxUs, ThrottleUs

LEMMA ParamFields ==
  ASSUME NEW p, p \in MotorParamSpace
  PROVE  /\ p.min \in MinUs /\ p.max \in MaxUs /\ p.throttle \in ThrottleUs
         /\ p.type \in MotorType /\ p.mode \in MotorMode /\ p.rate \in RateHz
         /\ p.src \in 0 .. 14 /\ p.invert \in BOOLEAN /\ p.brake \in BOOLEAN
BY DEF MotorParamSpace

LEMMA NeutralBounds ==
  ASSUME NEW p, p \in MotorParamSpace
  PROVE  /\ NeutralUs(p.min, p.max) \in ThrottleUs
         /\ EffMaxUs(p) \in MaxUs
         /\ NeutralUs(p.min, p.max) <= EffMaxUs(p)
<1>1. p.min \in MinUs /\ p.max \in MaxUs /\ p.rate \in RateHz
  BY ParamFields
<1>2. /\ NeutralUs(p.min, p.max) \in ThrottleUs
      /\ NeutralUs(p.min, p.max) <= p.max
  BY <1>1, NeutralInSpan
<1>3. /\ EffectiveMaxUs(p.max, FrameUsForRate(p.rate)) \in MaxUs
      /\ NeutralUs(p.min, p.max) <= EffectiveMaxUs(p.max, FrameUsForRate(p.rate))
  BY <1>1, <1>2, FrameRoom
<1>4. QED
  BY <1>1, <1>2, <1>3 DEF EffMaxUs

LEMMA UsIsInt ==
  ASSUME NEW us, us \in MinUs \cup MaxUs \cup ThrottleUs \cup PulseUs
  PROVE  us \in Int
BY DEF MinUs, MaxUs, ThrottleUs, PulseUs

LEMMA ClampBounds ==
  ASSUME NEW us, NEW min, NEW max, us \in Int, min \in MinUs, max \in MaxUs
  PROVE  /\ ClampUs(us, min, max) \in PulseUs
         /\ min <= us /\ us <= max => ClampUs(us, min, max) = us
BY DEF ClampUs, PulseUs, MinUs, MaxUs

(* Mirroring keeps the span, and moves neutral by at most one microsecond.  *)
LEMMA MirrorBounds ==
  ASSUME NEW min, NEW max, NEW us, min \in MinUs, max \in MaxUs, us \in PulseUs
  PROVE  MirrorAboutSpan(us, min, max) \in PulseUs
<1>1. min + max - us \in Int
  BY UsIsInt
<1>2. QED
  BY <1>1, ClampBounds DEF MirrorAboutSpan

LEMMA MirrorNeutral ==
  ASSUME NEW min, NEW max, min \in MinUs, max \in MaxUs
  PROVE  MirrorAboutSpan(NeutralUs(min, max), min, max) - NeutralUs(min, max) \in 0 .. 1
<1> DEFINE mirrored == min + max - NeutralUs(min, max)
<1>1. /\ mirrored \in Int
      /\ min <= mirrored /\ mirrored <= max
      /\ mirrored - NeutralUs(min, max) \in 0 .. 1
  BY DEF NeutralUs, MinUs, MaxUs
<1>2. ClampUs(mirrored, min, max) = mirrored
  BY <1>1, ClampBounds
<1>3. QED
  BY <1>1, <1>2 DEF MirrorAboutSpan

LEMMA EscBounds ==
  ASSUME NEW p, NEW us, p \in MotorParamSpace, us \in PulseUs
  PROVE  EscWrite(us, p) \in PulseUs
BY ParamFields, MirrorBounds DEF EscWrite

LEMMA EscNeutral ==
  ASSUME NEW p, p \in MotorParamSpace
  PROVE  EscWrite(NeutralUs(p.min, p.max), p) - NeutralUs(p.min, p.max) \in 0 .. 1
<1>1. p.min \in MinUs /\ p.max \in MaxUs
  BY ParamFields
<1>2. CASE p.invert
  BY <1>1, <1>2, MirrorNeutral DEF EscWrite
<1>3. CASE ~p.invert
  <2>1. NeutralUs(p.min, p.max) \in Int
    BY <1>1, NeutralInSpan DEF ThrottleUs
  <2>2. EscWrite(NeutralUs(p.min, p.max), p) = NeutralUs(p.min, p.max)
    BY <1>3 DEF EscWrite
  <2>3. QED
    BY <2>1, <2>2
<1>4. QED
  BY <1>2, <1>3

(* A duty is a per mille, whatever the pulse, and neutral drives both pins   *)
(* alike: coast or brake, never a direction.                               *)
LEMMA QuotientInNat ==
  ASSUME NEW n, NEW k, n \in Nat, k \in Nat \ {0}
  PROVE  n \div k \in Nat
OBVIOUS

LEMMA DutyBounds ==
  ASSUME NEW us, NEW min, NEW max, NEW neutral,
         us \in Int, min \in Int, max \in Int, neutral \in Int
  PROVE  SignedDutyPermille(us, min, max, neutral) \in -1000 .. 1000
<1> DEFINE S(d, span) == LET q == (d * 1000) \div (IF span > 0 THEN span ELSE 1)
                         IN  IF q > 1000 THEN 1000 ELSE q
           Permille == 0 .. 1000
<1>1. ASSUME NEW d \in Nat, NEW span \in Int
      PROVE  S(d, span) \in Permille
  <2>1. d * 1000 \in Nat /\ (IF span > 0 THEN span ELSE 1) \in Nat \ {0}
    OBVIOUS
  <2>2. (d * 1000) \div (IF span > 0 THEN span ELSE 1) \in Nat
    BY <2>1, QuotientInNat
  <2>3. QED
    BY <2>2
<1>2. SignedDutyPermille(us, min, max, neutral) =
        IF us >= neutral THEN  S(us - neutral, max - neutral)
                         ELSE -S(neutral - us, neutral - min)
  BY DEF SignedDutyPermille
<1> HIDE DEF S, Permille
<1>3. CASE us >= neutral
  <2>1. us - neutral \in Nat /\ max - neutral \in Int
    BY <1>3
  <2>2. S(us - neutral, max - neutral) \in Permille
    BY <2>1, <1>1, Zenon
  <2>3. QED
    BY <2>2, <1>2, <1>3 DEF Permille
<1>4. CASE ~(us >= neutral)
  <2>1. neutral - us \in Nat /\ neutral - min \in Int
    BY <1>4
  <2>2. S(neutral - us, neutral - min) \in Permille
    BY <2>1, <1>1, Zenon
  <2>3. QED
    BY <2>2, <1>2, <1>4 DEF Permille
<1>5. QED
  BY <1>3, <1>4

LEMMA NeutralDuty ==
  ASSUME NEW min, NEW max, NEW neutral, min \in Int, max \in Int, neutral \in Int
  PROVE  SignedDutyPermille(neutral, min, max, neutral) = 0
<1>1. \A k \in Nat \ {0} : 0 \div k = 0
  OBVIOUS
<1>2. neutral - neutral = 0 /\ 0 * 1000 = 0
  OBVIOUS
<1>3. (IF max - neutral > 0 THEN max - neutral ELSE 1) \in Nat \ {0}
  OBVIOUS
<1>4. QED
  BY <1>1, <1>2, <1>3 DEF SignedDutyPermille

LEMMA SplitBounds ==
  ASSUME NEW d, NEW inverted, NEW brake, d \in -1000 .. 1000
  PROVE  SplitPinDuty(d, inverted, brake) \in PinDuty
BY SMTT(30) DEF SplitPinDuty, PinDuty, Abs

LEMMA SplitZero ==
  ASSUME NEW inverted, NEW brake
  PROVE  SplitPinDuty(0, inverted, brake).a = SplitPinDuty(0, inverted, brake).b
BY DEF SplitPinDuty

LEMMA HbridgeBounds ==
  ASSUME NEW p, NEW us, p \in MotorParamSpace, us \in PulseUs
  PROVE  HbridgeWrite(us, p) \in PinDuty
<1>1. us \in Int
  BY DEF PulseUs
<1>2. p.min \in Int /\ p.max \in Int
  BY ParamFields, UsIsInt
<1>3. NeutralUs(p.min, p.max) \in Int
  BY NeutralBounds DEF ThrottleUs
<1>4. QED
  BY <1>1, <1>2, <1>3, DutyBounds, SplitBounds DEF HbridgeWrite

LEMMA HbridgeNeutral ==
  ASSUME NEW p, p \in MotorParamSpace
  PROVE  HbridgeWrite(NeutralUs(p.min, p.max), p).a = HbridgeWrite(NeutralUs(p.min, p.max), p).b
<1>1. p.min \in Int /\ p.max \in Int
  BY ParamFields, UsIsInt
<1>2. NeutralUs(p.min, p.max) \in Int
  BY NeutralBounds DEF ThrottleUs
<1>3. QED
  BY <1>1, <1>2, NeutralDuty, SplitZero DEF HbridgeWrite
-----------------------------------------------------------------------------
(* One evaluation of the driver, from any sane pair of buses.              *)
LEMMA InputBounds ==
  ASSUME NEW p, NEW in, NEW drv, p \in MotorParamSpace, SaneBus(in), SaneBus(drv)
  PROVE  InputUs(p, in, drv) \in PulseUs
<1>1. 0 \in PulseUs
  BY DEF PulseUs
<1>2. QED
  BY <1>1 DEF InputUs, BusGet, SaneBus

(* Every end of a calibration, and every throttle, is a pulse.              *)
LEMMA UsArePulses == \A n : n \in ThrottleUs \/ n \in MaxUs => n \in PulseUs
<1> TAKE n
<1>1. n \in ThrottleUs => n \in PulseUs BY DEF ThrottleUs, PulseUs
<1>2. n \in MaxUs => n \in PulseUs BY DEF MaxUs, PulseUs
<1> QED BY <1>1, <1>2

LEMMA CommandBounds ==
  ASSUME NEW arm, NEW p, NEW now_, NEW in, NEW drv,
         p \in MotorParamSpace, SaneBus(in), SaneBus(drv)
  PROVE  /\ CommandUs(arm, p, now_, in, drv) \in PulseUs
         /\ arm # "ARMED" => CommandUs(arm, p, now_, in, drv) = NeutralUs(p.min, p.max)
<1> DEFINE n   == NeutralUs(p.min, p.max)
           raw == NextPulseUs(arm, p.mode, p.min, p.max, p.throttle, InputUs(p, in, drv),
                              p.mode = "input" /\ ~InputFresh(p, now_, in, drv), n)
           us  == IF ArmSwitchGates(HasDrive, BusGet(drv, ArmSlot)) THEN n ELSE raw
<1>1. p.min \in MinUs /\ p.max \in MaxUs /\ p.throttle \in Int
  BY ParamFields, UsIsInt
<1>2. n \in ThrottleUs /\ EffMaxUs(p) \in MaxUs /\ n <= EffMaxUs(p)
  BY NeutralBounds
<1>3. n \in PulseUs /\ EffMaxUs(p) \in PulseUs /\ 0 \in PulseUs
  <2>1. 0 \in PulseUs
    BY DEF PulseUs
  <2> QED BY <1>2, <2>1, UsArePulses, Zenon
<1>4. InputUs(p, in, drv) \in Int
  BY InputBounds, UsIsInt
<1>5. raw \in PulseUs
  BY <1>1, <1>3, <1>4, ClampBounds DEF NextPulseUs
<1>6. CommandUs(arm, p, now_, in, drv) = IF us > EffMaxUs(p) THEN EffMaxUs(p) ELSE us
  BY DEF CommandUs
<1>7. arm # "ARMED" => raw = n
  BY DEF NextPulseUs
<1>8. n \in Int /\ EffMaxUs(p) \in Int
  BY <1>2, UsIsInt
<1>9. us \in PulseUs /\ (arm # "ARMED" => us = n)
  BY <1>3, <1>5, <1>7
<1> HIDE DEF n, raw, us
<1>10. ~(n > EffMaxUs(p))
  BY <1>2, <1>8
<1>11. QED
  BY <1>3, <1>6, <1>9, <1>10 DEF n

LEMMA NextArmInStates ==
  ASSUME NEW m, NEW p, NEW now_, NEW in, NEW drv, m.arm \in ArmState
  PROVE  NextArm(m, p, now_, in, drv) \in ArmState
BY DEF NextArm, NextArmState, HeldArm, ArmState

LEMMA NextT0InTime ==
  ASSUME NEW m, NEW p, NEW now_, NEW in, NEW drv, now_ \in Time, m.t0 \in Time
  PROVE  NextT0(m, p, now_, in, drv) \in Time
BY DEF NextT0

LEMMA DriverFields ==
  ASSUME NEW m, m \in DriverSpace
  PROVE  /\ m.cfg \in MotorParamSpace /\ m.arm \in ArmState /\ m.t0 \in Time
         /\ m.lastUs \in PulseUs /\ m.driving \subseteq Stages
         /\ m.pulse \in PulseUs /\ m.duty \in PinDuty
BY DEF DriverSpace

LEMMA ApplyInSpace ==
  ASSUME NEW m, NEW p, NEW now_, NEW in, NEW drv,
         m \in DriverSpace, p \in MotorParamSpace, now_ \in Time,
         SaneBus(in), SaneBus(drv)
  PROVE  Apply(m, p, now_, in, drv) \in DriverSpace
<1> DEFINE arm == NextArm(m, p, now_, in, drv)
           t0  == NextT0(m, p, now_, in, drv)
           us  == CommandUs(arm, p, now_, in, drv)
<1>1. /\ m.cfg \in MotorParamSpace /\ m.arm \in ArmState /\ m.t0 \in Time
      /\ m.lastUs \in PulseUs /\ m.driving \subseteq Stages
      /\ m.pulse \in PulseUs /\ m.duty \in PinDuty
  BY DriverFields
<1>2. arm \in ArmState
  BY <1>1, NextArmInStates
<1>3. t0 \in Time
  BY <1>1, NextT0InTime
<1>4. us \in PulseUs
  BY CommandBounds
<1>5. 0 \in PulseUs /\ OffDuty \in PinDuty
  BY DEF PulseUs, PinDuty, OffDuty
<1>6. EscWrite(us, p) \in PulseUs /\ HbridgeWrite(us, p) \in PinDuty
  BY <1>4, EscBounds, HbridgeBounds
<1>7. KeptPulse(m, p) \in PulseUs /\ KeptDuty(m, p) \in PinDuty
  BY <1>1, <1>5 DEF KeptPulse, KeptDuty
<1>8. NextDriving(m, p) \subseteq Stages
  BY <1>1 DEF NextDriving, Stages, StageOf
<1> HIDE DEF arm, t0, us
<1>9. CASE Disabled(p)
  <2>1. Apply(m, p, now_, in, drv) =
          [cfg |-> p, arm |-> arm, t0 |-> t0, lastUs |-> 0,
           driving |-> m.driving \ {StageOf(m.cfg.type), StageOf(p.type)},
           pulse |-> 0, duty |-> OffDuty]
    BY <1>9 DEF Apply, arm, t0
  <2>2. m.driving \ {StageOf(m.cfg.type), StageOf(p.type)} \subseteq Stages
    BY <1>1
  <2>3. QED
    BY <2>1, <2>2, <1>2, <1>3, <1>5 DEF DriverSpace
<1>10. CASE ~Disabled(p)
  <2>1. PICK lastUs_ \in PulseUs, pulse_ \in PulseUs, duty_ \in PinDuty :
          Apply(m, p, now_, in, drv) =
            [cfg |-> p, arm |-> arm, t0 |-> t0, lastUs |-> lastUs_,
             driving |-> NextDriving(m, p), pulse |-> pulse_, duty |-> duty_]
    <3> DEFINE l == IF us > 0 THEN us ELSE m.lastUs
               q == IF us > 0 /\ p.type # "brushed" THEN EscWrite(us, p) ELSE KeptPulse(m, p)
               d == IF us > 0 /\ p.type = "brushed" THEN HbridgeWrite(us, p) ELSE KeptDuty(m, p)
    <3>1. Apply(m, p, now_, in, drv) =
            [cfg |-> p, arm |-> arm, t0 |-> t0, lastUs |-> l,
             driving |-> NextDriving(m, p), pulse |-> q, duty |-> d]
      BY <1>10 DEF Apply, arm, t0, us
    <3>2. l \in PulseUs /\ q \in PulseUs /\ d \in PinDuty
      BY <1>1, <1>4, <1>6, <1>7
    <3> HIDE DEF l, q, d
    <3>3. QED
      BY <3>1, <3>2
  <2>2. QED
    BY <2>1, <1>2, <1>3, <1>8 DEF DriverSpace
<1>11. QED
  BY <1>9, <1>10

LEMMA TickInSpace ==
  ASSUME NEW m, NEW now_, NEW in, NEW drv,
         m \in DriverSpace, now_ \in Time, SaneBus(in), SaneBus(drv)
  PROVE  TickMotor(m, now_, in, drv) \in DriverSpace
BY ApplyInSpace, DriverFields DEF TickMotor

(* What one evaluation leaves behind, whatever it started from.             *)
LEMMA ApplyIsNeutral ==
  ASSUME NEW m, NEW p, NEW now_, NEW in, NEW drv,
         p \in MotorParamSpace, SaneBus(in), SaneBus(drv),
         ~Disabled(p), NextArm(m, p, now_, in, drv) # "ARMED"
  PROVE  AtNeutral(Apply(m, p, now_, in, drv))
<1> DEFINE n   == NeutralUs(p.min, p.max)
           arm == NextArm(m, p, now_, in, drv)
           a   == Apply(m, p, now_, in, drv)
<1>1. n > 0
  BY NeutralBounds DEF ThrottleUs
<1>2. CommandUs(arm, p, now_, in, drv) = n
  BY CommandBounds
<1>3. /\ a.cfg = p
      /\ p.type # "brushed" => a.pulse = EscWrite(n, p)
      /\ p.type = "brushed" => a.duty = HbridgeWrite(n, p)
  BY <1>1, <1>2 DEF Apply
<1>4. /\ EscWrite(n, p) - n \in 0 .. 1
      /\ HbridgeWrite(n, p).a = HbridgeWrite(n, p).b
  BY EscNeutral, HbridgeNeutral
<1> HIDE DEF n, arm, a
<1>5. QED
  BY <1>3, <1>4 DEF AtNeutral, n, a

LEMMA ApplyPins ==
  ASSUME NEW m, NEW p, NEW now_, NEW in, NEW drv,
         IF Disabled(m.cfg) THEN m.driving = {}
         ELSE m.driving = {StageOf(m.cfg.type)} /\ m.arm # "OFF"
  PROVE  LET a == Apply(m, p, now_, in, drv)
         IN  IF Disabled(a.cfg)
             THEN a.driving = {} /\ a.arm = "OFF" /\ a.lastUs = 0
             ELSE a.driving = {StageOf(a.cfg.type)} /\ a.arm # "OFF"
<1> DEFINE a == Apply(m, p, now_, in, drv)
<1>1. a.cfg = p
  BY DEF Apply
<1>2. CASE Disabled(p)
  <2>1. a.driving = m.driving \ {StageOf(m.cfg.type), StageOf(p.type)} /\ a.lastUs = 0
    BY <1>2 DEF Apply
  <2>2. a.driving = {}
    BY <2>1
  <2>3. a.arm = "OFF"
    BY <1>2 DEF Apply, NextArm, NextArmState
  <2>4. QED
    BY <1>1, <1>2, <2>1, <2>2, <2>3
<1>3. CASE ~Disabled(p)
  <2>1. Entering(m, p) <=> Disabled(m.cfg)
    BY <1>3 DEF Entering, EnteringEnabled, Disabled
  <2>2. a.driving = NextDriving(m, p) /\ a.arm = NextArm(m, p, now_, in, drv)
    BY <1>3 DEF Apply
  <2>3. NextDriving(m, p) = {StageOf(p.type)}
    BY <2>1 DEF NextDriving
  <2>4. NextArm(m, p, now_, in, drv) # "OFF"
    BY <1>3, <2>1 DEF NextArm, NextArmState, HeldArm
  <2>5. QED
    BY <1>1, <1>3, <2>2, <2>3, <2>4
<1>4. QED
  BY <1>2, <1>3

(* An evaluation that finds the link dead always ends short of ARMED.       *)
LEMMA ApplyDeadLink ==
  ASSUME NEW m, NEW p, NEW now_, NEW in, NEW drv,
         p.mode = "input", ~InputFresh(p, now_, in, drv)
  PROVE  NextArm(m, p, now_, in, drv) # "ARMED"
<1>1. ~CommandedLow(p, now_, in, drv)
  BY DEF CommandedLow, IsCommandedLow
<1>2. HeldArm(m, p, now_, in, drv) # "ARMED"
  BY DEF HeldArm, Demotes, InputLossDemotesArmed
<1>3. QED
  BY <1>1, <1>2 DEF NextArm, NextArmState
-----------------------------------------------------------------------------
LEMMA BusIsSane ==
  ASSUME NEW bus, NEW slots, NEW values, values \subseteq PulseUs, bus \in Bus(slots, values)
  PROVE  SaneBus(bus)
BY DEF Bus, SaneBus

LEMMA ValuesArePulses ==
  ChannelUs \cup {0} \subseteq PulseUs /\ ChannelUs \cup {0, 1, 1500} \subseteq PulseUs
<1>1. ChannelUs \subseteq PulseUs
  BY MotorAssumption
<1>2. {0, 1, 1500} \subseteq PulseUs
  BY DEF PulseUs
<1>3. QED
  BY <1>1, <1>2

LEMMA BootInSpace == BootMotor \in DriverSpace
<1>1. BootMotor.cfg \in MotorParamSpace
  BY DEF BootMotor, MotorParamSpace, MotorType, MotorMode, ThrottleUs, MinUs, MaxUs, RateHz
<1>2. 0 \in Time /\ 0 \in PulseUs /\ OffDuty \in PinDuty
  BY WrapAssumption DEF Time, PulseUs, PinDuty, OffDuty
<1>3. QED
  BY <1>1, <1>2 DEF BootMotor, DriverSpace, ArmState, Stages

(* TypeOK: every variable keeps its range whatever clients, radio and clock *)
(* do; in particular the compare values and the stored pulse never exceed   *)
(* 2500us and a duty never exceeds a thousand.                             *)
THEOREM TypeCorrect == Spec => []TypeOK
<1>1. Init => TypeOK
  <2> SUFFICES ASSUME Init PROVE TypeOK
    OBVIOUS
  <2>1. 0 \in Time
    BY WrapAssumption DEF Time
  <2>2. /\ EmptyBus(RawSlots) \in Bus(RawSlots, ChannelUs \cup {0})
        /\ EmptyBus(DriveSlots) \in Bus(DriveSlots, ChannelUs \cup {0, 1, 1500})
    BY <2>1 DEF EmptyBus, Bus
  <2>3. lowFor \in 0 .. ArmHold
    BY ArmHoldAssumption DEF Init
  <2>4. QED
    BY <2>1, <2>2, <2>3, BootInSpace DEF Init, TypeOK
<1>2. TypeOK /\ [Next]_vars => TypeOK'
  <2> SUFFICES ASSUME TypeOK, [Next]_vars PROVE TypeOK'
    OBVIOUS
  <2>1. SaneBus(inputs) /\ SaneBus(driveOutputs)
    BY BusIsSane, ValuesArePulses DEF TypeOK
  <2>2. /\ clock \in Time /\ now \in Time /\ motor \in DriverSpace
        /\ lowFor \in 0 .. ArmHold
    BY DEF TypeOK
  <2>3. \A m, at, in, drv : NextLowFor(m, at, in, drv) \in 0 .. ArmHold
    BY <2>2, ArmHoldAssumption DEF NextLowFor
  <2>4. 0 \in 0 .. ArmHold
    BY ArmHoldAssumption
  <2>5. \A p \in MotorParams :
          Apply(motor, p, clock, inputs, driveOutputs) \in DriverSpace
    BY <2>1, <2>2, ApplyInSpace, MotorAssumption
  <2>6. CASE Setup
    BY <2>4, <2>5, <2>6 DEF Setup, TypeOK
  <2>7. CASE BeginPass
    BY <2>7 DEF BeginPass, TypeOK
  <2>8. CASE Command
    BY <2>3, <2>5, <2>8 DEF Command, TypeOK
  <2>9. CASE Tick
    <3>1. inputs' \in Bus(RawSlots, ChannelUs \cup {0})
      <4>1. inputs.fresh \in Time
        BY DEF TypeOK, Bus
      <4>2. EmptyBus(RawSlots).vals \in [RawSlots -> ChannelUs \cup {0}]
        BY DEF EmptyBus
      <4>3. inputs' = [inputs EXCEPT !.vals = EmptyBus(RawSlots).vals]
              => inputs' \in Bus(RawSlots, ChannelUs \cup {0})
        BY <4>1, <4>2 DEF TypeOK, Bus
      <4>4. \/ inputs' = inputs
            \/ inputs' = [inputs EXCEPT !.vals = EmptyBus(RawSlots).vals]
            \/ inputs' \in [vals : [RawSlots -> ChannelUs], fresh : {now}]
        BY <2>9 DEF Tick, Published
      <4>5. QED
        BY <2>2, <4>3, <4>4 DEF Bus, TypeOK
    <3>2. driveOutputs' \in Bus(DriveSlots, ChannelUs \cup {0, 1, 1500})
      <4>1. driveOutputs.fresh \in Time
        BY DEF TypeOK, Bus
      <4>2. CASE LinkFresh(inputs'.fresh, now, InputStale)
        <5>1. PICK us \in [MotorSlots -> ChannelUs], armed \in {0, 1} :
                driveOutputs' =
                  [vals  |-> [s \in DriveSlots |-> IF s = ArmSlot THEN armed ELSE us[s]],
                   fresh |-> now]
          BY <2>9, <4>2 DEF Tick, Mixed
        <5>2. \A s \in DriveSlots : s # ArmSlot => us[s] \in ChannelUs
          BY DEF DriveSlots
        <5>3. [s \in DriveSlots |-> IF s = ArmSlot THEN armed ELSE us[s]]
                \in [DriveSlots -> ChannelUs \cup {0, 1, 1500}]
          BY <5>2
        <5>4. QED
          BY <2>2, <5>1, <5>3 DEF Bus
      <4>3. CASE ~LinkFresh(inputs'.fresh, now, InputStale)
        <5>1. driveOutputs' =
                [vals  |-> [s \in DriveSlots |-> IF s \in {LeftSlot, RightSlot} THEN 1500 ELSE 0],
                 fresh |-> driveOutputs.fresh]
          BY <2>9, <4>3 DEF Tick, Mixed
        <5>2. QED
          BY <4>1, <5>1 DEF Bus
      <4>4. QED
        BY <4>2, <4>3
    <3>3. SaneBus(inputs') /\ SaneBus(driveOutputs')
      BY <3>1, <3>2, BusIsSane, ValuesArePulses
    <3>4. motor' \in DriverSpace
      BY <2>2, <2>9, <3>3, TickInSpace DEF Tick
    <3>5. QED
      BY <2>2, <2>3, <2>9, <3>1, <3>2, <3>4 DEF Tick, TypeOK
  <2>10. CASE Advance
    <3>1. clock' \in Time
      BY <2>2, <2>10, NextMsInTime DEF Advance
    <3>2. lowFor' \in 0 .. ArmHold
      BY <2>2, <2>10, ArmHoldAssumption DEF Advance
    <3>3. QED
      BY <2>10, <3>1, <3>2 DEF Advance, TypeOK
  <2>11. CASE UNCHANGED vars
    BY <2>11 DEF vars, TypeOK
  <2>12. QED
    BY <2>6, <2>7, <2>8, <2>9, <2>10, <2>11 DEF Next
<1>3. QED
  BY <1>1, <1>2, PTL DEF Spec
-----------------------------------------------------------------------------
(* Before setup() has notified the modules no bus was ever stamped.         *)
Unstamped == phase = "setup" => inputs.fresh = 0 /\ driveOutputs.fresh = 0

SafetyInv ==
  /\ TypeOK
  /\ Unstamped
  /\ PinsFollowConfig
  /\ NeutralUntilArmed
  /\ DeadLinkIsNeutral

LEMMA SaneBuses ==
  ASSUME TypeOK
  PROVE  SaneBus(inputs) /\ SaneBus(driveOutputs)
BY BusIsSane, ValuesArePulses DEF TypeOK

(* What one evaluation establishes of the three properties.                 *)
LEMMA ApplyIsSafe ==
  ASSUME NEW m, NEW p, NEW at, NEW in, NEW drv,
         m \in DriverSpace, p \in MotorParamSpace, at \in Time, SaneBus(in), SaneBus(drv),
         IF Disabled(m.cfg) THEN m.driving = {}
         ELSE m.driving = {StageOf(m.cfg.type)} /\ m.arm # "OFF"
  PROVE  LET a == Apply(m, p, at, in, drv)
         IN  /\ a.cfg = p
             /\ IF Disabled(p)
                THEN a.driving = {} /\ a.arm = "OFF" /\ a.lastUs = 0
                ELSE a.driving = {StageOf(p.type)} /\ a.arm # "OFF"
             /\ ~Disabled(p) /\ a.arm # "ARMED" => AtNeutral(a)
             /\ ~Disabled(p) /\ p.mode = "input" /\ ~InputFresh(p, at, in, drv)
                  => a.arm = "ARMING"
<1> DEFINE a == Apply(m, p, at, in, drv)
<1>1. a.cfg = p /\ a.arm = NextArm(m, p, at, in, drv)
  BY DEF Apply
<1>2. a.arm \in ArmState
  BY ApplyInSpace, DriverFields
<1>3. ~Disabled(p) /\ a.arm # "ARMED" => AtNeutral(a)
  BY <1>1, ApplyIsNeutral
<1>4. IF Disabled(a.cfg)
      THEN a.driving = {} /\ a.arm = "OFF" /\ a.lastUs = 0
      ELSE a.driving = {StageOf(a.cfg.type)} /\ a.arm # "OFF"
  BY ApplyPins
<1>5. p.mode = "input" /\ ~InputFresh(p, at, in, drv) => a.arm # "ARMED"
  BY <1>1, ApplyDeadLink
<1> HIDE DEF a
<1>6. QED
  BY <1>1, <1>2, <1>3, <1>4, <1>5 DEF ArmState, a

LEMMA SafetyInvInductive == Spec => []SafetyInv
<1>1. Init => Unstamped /\ PinsFollowConfig /\ NeutralUntilArmed /\ DeadLinkIsNeutral
  BY DEF Init, Unstamped, PinsFollowConfig, NeutralUntilArmed, DeadLinkIsNeutral,
         EmptyBus, BootMotor, Disabled, OutputDisabled
<1>2. SafetyInv /\ TypeOK' /\ [Next]_vars
        => (Unstamped /\ PinsFollowConfig /\ NeutralUntilArmed /\ DeadLinkIsNeutral)'
  <2> SUFFICES ASSUME SafetyInv, TypeOK', [Next]_vars
               PROVE  (Unstamped /\ PinsFollowConfig /\ NeutralUntilArmed /\ DeadLinkIsNeutral)'
    OBVIOUS
  <2>1. /\ clock \in Time /\ now \in Time /\ motor \in DriverSpace
        /\ SaneBus(inputs) /\ SaneBus(driveOutputs)
    BY SaneBuses DEF SafetyInv, TypeOK
  <2>2. IF Disabled(motor.cfg) THEN motor.driving = {}
        ELSE motor.driving = {StageOf(motor.cfg.type)} /\ motor.arm # "OFF"
    BY DEF SafetyInv, PinsFollowConfig
  <2>3. ASSUME NEW p \in MotorParams, motor' = Apply(motor, p, clock, inputs, driveOutputs)
        PROVE  /\ motor'.cfg = p
               /\ PinsFollowConfig' /\ NeutralUntilArmed'
               /\ ~Disabled(p) /\ p.mode = "input"
                    /\ ~InputFresh(p, clock, inputs, driveOutputs) => motor'.arm = "ARMING"
    BY <2>1, <2>2, <2>3, ApplyIsSafe, MotorAssumption DEF PinsFollowConfig, NeutralUntilArmed
  <2>4. CASE Setup
    <3>1. PICK p \in MotorParams : motor' = Apply(motor, p, clock, inputs, driveOutputs)
      BY <2>4 DEF Setup
    <3>2. /\ inputs.fresh = 0 /\ driveOutputs.fresh = 0
          /\ UNCHANGED <<clock, now, inputs, driveOutputs>> /\ phase' = "top"
      BY <2>4 DEF Setup, SafetyInv, Unstamped
    <3>3. ~InputFresh(p, clock, inputs, driveOutputs)
      BY <3>2 DEF InputFresh, SourceBus, LinkFresh
    <3>4. DeadLinkIsNeutral'
      BY <3>1, <3>2, <3>3, <2>3 DEF DeadLinkIsNeutral, NeutralUntilArmed
    <3>5. QED
      BY <3>1, <3>2, <3>4, <2>3 DEF Unstamped
  <2>5. CASE BeginPass
    BY <2>5 DEF BeginPass, SafetyInv, Unstamped, PinsFollowConfig, NeutralUntilArmed,
                DeadLinkIsNeutral
  <2>6. CASE Command
    <3>1. phase' = "body"
      BY <2>6 DEF Command
    <3>2. PICK p \in MotorParams : motor' = Apply(motor, p, clock, inputs, driveOutputs)
      BY <2>6 DEF Command
    <3>3. QED
      BY <3>1, <3>2, <2>3 DEF Unstamped, DeadLinkIsNeutral
  <2>7. CASE Tick
    <3>1. /\ motor' = TickMotor(motor, now, inputs', driveOutputs')
          /\ now' = now /\ phase' = "top"
      BY <2>7 DEF Tick
    <3>2. SaneBus(inputs') /\ SaneBus(driveOutputs')
      BY BusIsSane, ValuesArePulses DEF TypeOK
    <3>3. CASE Disabled(motor.cfg)
      BY <3>1, <3>3 DEF TickMotor, SafetyInv, Unstamped, PinsFollowConfig, NeutralUntilArmed,
                       DeadLinkIsNeutral
    <3>4. CASE ~Disabled(motor.cfg)
      <4>1. motor' = Apply(motor, motor.cfg, now, inputs', driveOutputs')
        BY <3>1, <3>4 DEF TickMotor
      <4>2. motor.cfg \in MotorParamSpace
        BY <2>1, DriverFields
      <4>3. /\ motor'.cfg = motor.cfg
            /\ PinsFollowConfig' /\ NeutralUntilArmed'
            /\ motor.cfg.mode = "input" /\ ~InputFresh(motor.cfg, now, inputs', driveOutputs')
                 => motor'.arm = "ARMING"
        BY <4>1, <4>2, <3>2, <3>4, <2>1, <2>2, ApplyIsSafe
           DEF PinsFollowConfig, NeutralUntilArmed
      <4>4. QED
        BY <4>3, <3>1 DEF Unstamped, DeadLinkIsNeutral, NeutralUntilArmed
    <3>5. QED
      BY <3>3, <3>4
  <2>8. CASE Advance
    BY <2>8 DEF Advance, SafetyInv, Unstamped, PinsFollowConfig, NeutralUntilArmed,
                DeadLinkIsNeutral
  <2>9. CASE UNCHANGED vars
    BY <2>9 DEF vars, SafetyInv, Unstamped, PinsFollowConfig, NeutralUntilArmed,
                DeadLinkIsNeutral
  <2>10. QED
    BY <2>4, <2>5, <2>6, <2>7, <2>8, <2>9 DEF Next
<1>3. QED
  BY <1>1, <1>2, TypeCorrect, PTL DEF Spec, SafetyInv

(* An output that is off drives no pin, an enabled one drives exactly its    *)
(* own stage, over every sequence of commands and ticks.                   *)
THEOREM PinsTheorem == Spec => []PinsFollowConfig
BY SafetyInvInductive, PTL DEF SafetyInv

(* No route through the parameters, the arm state machine or the link puts   *)
(* anything but neutral on the pin of an output that has not armed.         *)
THEOREM NeutralTheorem == Spec => []NeutralUntilArmed
BY SafetyInvInductive, PTL DEF SafetyInv

(* After a pass that saw its link dead an input-mode output is demoted and   *)
(* at neutral, however long the silence and wherever the clock is.          *)
THEOREM DeadLinkTheorem == Spec => []DeadLinkIsNeutral
BY SafetyInvInductive, PTL DEF SafetyInv
-----------------------------------------------------------------------------
(***************************************************************************)
(* How long the hold is in real time, what a change of configuration costs,  *)
(* and that a pulse leaves room for the line to go low.  The stamps of the   *)
(* hold are readings of a clock that wraps and that may be a pass old; the   *)
(* argument relates them to lowFor, which is real time.                      *)
(***************************************************************************)
(* An age is nothing exactly between a reading and itself.                   *)
LEMMA ElapsedNone ==
  ASSUME NEW a, a \in Time
  PROVE  Elapsed(a, a) = 0
BY WrapAssumption DEF Elapsed, Time

LEMMA ElapsedSome ==
  ASSUME NEW a, NEW b, a \in Time, b \in Time, a # b
  PROVE  Elapsed(a, b) # 0
BY WrapAssumption DEF Elapsed, Time

LEMMA ElapsedIsNat ==
  ASSUME NEW a, NEW b, a \in Time, b \in Time
  PROVE  Elapsed(a, b) \in Nat
BY WrapAssumption DEF Elapsed, Time

(* An evaluation arms only an output whose hold is over, and an output it    *)
(* leaves in the hold was stamped now, or was in the hold and stays low.     *)
LEMMA ApplyTimesTheHold ==
  ASSUME NEW m, NEW p, NEW at, NEW in, NEW drv
  PROVE  LET a == Apply(m, p, at, in, drv)
         IN  /\ a.cfg = p
             /\ m.arm # "ARMED" /\ a.arm = "ARMED"
                  => m.arm = "ARMING" /\ Elapsed(at, m.t0) >= ArmHold
             /\ a.arm = "ARMING"
                  => \/ a.t0 = at
                     \/ a.t0 = m.t0 /\ m.arm = "ARMING" /\ CommandedLow(p, at, in, drv)
<1> DEFINE a == Apply(m, p, at, in, drv)
<1>1. /\ a.cfg = p
      /\ a.arm = NextArm(m, p, at, in, drv)
      /\ a.t0 = NextT0(m, p, at, in, drv)
  BY DEF Apply
<1>2. m.arm # "ARMED" => HeldArm(m, p, at, in, drv) = m.arm /\ ~Demotes(m, p, at, in, drv)
  BY DEF HeldArm, Demotes, InputLossDemotesArmed, SrcChangeDemotesArmed,
         RateChangeDemotesArmed
<1>3. m.arm # "ARMED" /\ a.arm = "ARMED" => m.arm = "ARMING" /\ Elapsed(at, m.t0) >= ArmHold
  BY <1>1, <1>2 DEF NextArm, NextArmState, NextT0
<1>4. a.arm = "ARMING"
        => \/ a.t0 = at
           \/ a.t0 = m.t0 /\ m.arm = "ARMING" /\ CommandedLow(p, at, in, drv)
  <2>1. CASE Demotes(m, p, at, in, drv) \/ Entering(m, p)
    BY <1>1, <2>1 DEF NextT0
  <2>2. CASE ~Demotes(m, p, at, in, drv) /\ ~Entering(m, p)
    <3>1. HeldArm(m, p, at, in, drv) = m.arm
      BY <2>2 DEF HeldArm
    <3>2. a.arm = "ARMING" => m.arm = "ARMING"
      BY <1>1, <2>2, <3>1 DEF NextArm, NextArmState
    <3>3. QED
      BY <1>1, <2>2, <3>1, <3>2 DEF NextT0
  <2>3. QED
    BY <2>1, <2>2
<1>5. QED
  BY <1>1, <1>3, <1>4

(* Arming leaves the stamp alone: a fresh one is no time old.                *)
LEMMA ArmingKeepsStamp ==
  ASSUME NEW m, NEW p, NEW at, NEW in, NEW drv, at \in Time,
         m.arm # "ARMED", Apply(m, p, at, in, drv).arm = "ARMED"
  PROVE  Apply(m, p, at, in, drv).t0 = m.t0
<1>1. NextArm(m, p, at, in, drv) = "ARMED" /\ HeldArm(m, p, at, in, drv) = m.arm
  BY DEF Apply, HeldArm, Demotes, InputLossDemotesArmed, SrcChangeDemotesArmed,
         RateChangeDemotesArmed
<1>2. Elapsed(at, NextT0(m, p, at, in, drv)) >= ArmHold
  BY <1>1 DEF NextArm, NextArmState
<1>3. NextT0(m, p, at, in, drv) # at
  BY <1>2, ElapsedNone, ArmHoldAssumption
<1>4. QED
  BY <1>3 DEF NextT0, Apply

(* An evaluation that finds an output armed and leaves it armed demoted      *)
(* nothing: a demotion stamps the hold, which is longer than no time.        *)
LEMMA ApplyKeepsArmed ==
  ASSUME NEW m, NEW p, NEW at, NEW in, NEW drv, at \in Time,
         m.arm = "ARMED", Apply(m, p, at, in, drv).arm = "ARMED"
  PROVE  /\ p.rate = m.cfg.rate
         /\ p.type = m.cfg.type
         /\ p.mode = "input" => p.src = m.cfg.src
<1>1. NextArm(m, p, at, in, drv) = "ARMED"
  BY DEF Apply
<1>2. ~Demotes(m, p, at, in, drv)
  <2> SUFFICES ASSUME Demotes(m, p, at, in, drv) PROVE FALSE
    OBVIOUS
  <2>1. HeldArm(m, p, at, in, drv) = "ARMING" /\ NextT0(m, p, at, in, drv) = at
    BY DEF HeldArm, NextT0
  <2>2. ~(Elapsed(at, at) >= ArmHold)
    BY ElapsedNone, ArmHoldAssumption
  <2>3. QED
    BY <1>1, <2>1, <2>2 DEF NextArm, NextArmState
<1>3. QED
  BY <1>2 DEF Demotes, SrcChangeDemotesArmed, RateChangeDemotesArmed

(* The hold's stamp is at most a pass older than the hold is.  Within a pass  *)
(* the tick compares it with the reading at the pass's top, so the age of     *)
(* that reading counts towards the pass, unless a command has stamped the     *)
(* hold since.                                                             *)
StampBound ==
  /\ Elapsed(clock, motor.t0) <= lowFor + MaxPass
  /\ phase = "body" =>
       Ahead \/ Elapsed(clock, now) + Elapsed(now, motor.t0) <= lowFor + MaxPass

HoldMeasured ==
  /\ phase = "setup" => motor.arm = "OFF"
  /\ phase = "body" => Elapsed(clock, now) <= MaxPass
  /\ motor.arm = "ARMING" /\ lowFor < ArmHold => StampBound

(* An evaluation that leaves the output in the hold stamps the hold anew, or  *)
(* keeps the stamp and its history.                                        *)
LEMMA EvaluationKeepsTime ==
  ASSUME NEW p, NEW at, NEW in, NEW drv,
         motor' = Apply(motor, p, at, in, drv),
         lowFor' = NextLowFor(motor', at, in, drv),
         motor'.arm = "ARMING"
  PROVE  \/ motor'.t0 = at
         \/ motor'.t0 = motor.t0 /\ motor.arm = "ARMING" /\ lowFor' = lowFor
<1>1. motor'.cfg = p
  BY ApplyTimesTheHold
<1>2. \/ motor'.t0 = at
      \/ motor'.t0 = motor.t0 /\ motor.arm = "ARMING" /\ CommandedLow(p, at, in, drv)
  BY ApplyTimesTheHold
<1>3. QED
  BY <1>1, <1>2 DEF NextLowFor

LEMMA SumInNat ==
  ASSUME NEW m \in Nat, NEW n \in Nat
  PROVE  m + n \in Nat
OBVIOUS

LEMMA HoldIsMeasured == Spec => []HoldMeasured
<1>1. Init => HoldMeasured
  BY DEF Init, HoldMeasured, BootMotor
<1>2. HoldMeasured /\ PinsFollowConfig /\ TypeOK /\ TypeOK' /\ [Next]_vars => HoldMeasured'
  <2> SUFFICES ASSUME HoldMeasured, PinsFollowConfig, TypeOK, TypeOK', [Next]_vars
               PROVE  HoldMeasured'
    OBVIOUS
  <2>1. /\ clock \in Time /\ now \in Time /\ motor.t0 \in Time /\ motor'.t0 \in Time
        /\ lowFor \in Nat /\ lowFor' \in Nat /\ MaxPass \in Nat
        /\ ArmHold \in Nat
    BY DriverFields, MotorAssumption, ArmHoldAssumption DEF TypeOK
  <2>2. CASE Setup
    <3>1. motor.arm = "OFF" /\ phase' = "top" /\ clock' = clock
      BY <2>2 DEF Setup, HoldMeasured
    <3>2. PICK p : motor' = Apply(motor, p, clock, inputs, driveOutputs)
      BY <2>2 DEF Setup
    <3>3. motor'.arm = "ARMING" => motor'.t0 = clock
      BY <3>1, <3>2, ApplyTimesTheHold
    <3>4. QED
      BY <2>1, <3>1, <3>3, ElapsedNone DEF HoldMeasured, StampBound
  <2>3. CASE BeginPass
    <3>1. phase = "top" /\ phase' = "body" /\ now' = clock
          /\ UNCHANGED <<clock, motor, lowFor>>
      BY <2>3 DEF BeginPass
    <3>2. Elapsed(clock, clock) = 0 /\ Elapsed(clock, motor.t0) \in Nat
      BY <2>1, ElapsedNone, ElapsedIsNat
    <3>3. QED
      BY <2>1, <3>1, <3>2 DEF HoldMeasured, StampBound
  <2>4. CASE Command
    <3>1. phase = "body" /\ phase' = "body" /\ now' = now /\ clock' = clock
      BY <2>4 DEF Command
    <3>2. PICK p : /\ motor' = Apply(motor, p, clock, inputs, driveOutputs)
                   /\ lowFor' = NextLowFor(motor', clock, inputs, driveOutputs)
      BY <2>4 DEF Command
    <3>3. Elapsed(clock, clock) = 0 /\ Elapsed(clock, now) \in Nat
      BY <2>1, ElapsedNone, ElapsedIsNat
    <3>4. clock # now => Elapsed(clock, now) > 0
      BY <2>1, <3>3, ElapsedSome
    <3>5. ASSUME motor'.arm = "ARMING", lowFor' < ArmHold
          PROVE  StampBound'
      <4>1. CASE motor'.t0 = clock
        <5>1. Elapsed(clock', motor'.t0) = 0 /\ Elapsed(clock', now') = Elapsed(clock, now)
          BY <3>1, <3>3, <4>1
        <5>2. clock # now => Ahead'
          BY <3>3, <3>4, <5>1 DEF Ahead
        <5>3. clock = now => Elapsed(now', motor'.t0) = 0 /\ Elapsed(clock', now') = 0
          BY <3>1, <3>3, <4>1
        <5>4. lowFor' + MaxPass \in Nat
          BY <2>1, SumInNat
        <5>5. Elapsed(clock', motor'.t0) <= lowFor' + MaxPass
          BY <5>1, <5>4
        <5>6. CASE clock = now
          <6>1. Elapsed(clock', now') + Elapsed(now', motor'.t0) <= lowFor' + MaxPass
            BY <5>3, <5>4, <5>6
          <6>2. QED
            BY <5>5, <6>1 DEF StampBound
        <5>7. CASE clock # now
          BY <5>2, <5>5, <5>7 DEF StampBound
        <5>8. QED
          BY <5>6, <5>7
      <4>2. CASE motor'.t0 = motor.t0 /\ motor.arm = "ARMING" /\ lowFor' = lowFor
        BY <3>1, <3>5, <4>2 DEF HoldMeasured, StampBound, Ahead
      <4>3. QED
        BY <3>2, <3>5, <4>1, <4>2, EvaluationKeepsTime
    <3>6. QED
      BY <3>1, <3>5 DEF HoldMeasured
  <2>5. CASE Tick
    <3>1. phase = "body" /\ phase' = "top" /\ UNCHANGED <<clock, now>>
      BY <2>5 DEF Tick
    <3>2. Elapsed(clock, now) <= MaxPass /\ Elapsed(clock, now) \in Nat
      BY <2>1, <3>1, ElapsedIsNat DEF HoldMeasured
    <3>3. ASSUME motor'.arm = "ARMING", lowFor' < ArmHold
          PROVE  Elapsed(clock, motor'.t0) <= lowFor' + MaxPass
      <4>1. ~Disabled(motor.cfg)
        BY <2>5, <3>3 DEF Tick, TickMotor, PinsFollowConfig
      <4>2. /\ motor' = Apply(motor, motor.cfg, now, inputs', driveOutputs')
            /\ lowFor' = NextLowFor(motor', now, inputs', driveOutputs')
        BY <2>5, <4>1 DEF Tick, TickMotor
      <4>3. CASE motor'.t0 = now
        BY <2>1, <3>2, <4>3
      <4>4. CASE motor'.t0 = motor.t0 /\ motor.arm = "ARMING" /\ lowFor' = lowFor
        BY <3>3, <4>4 DEF HoldMeasured, StampBound
      <4>5. QED
        BY <3>3, <4>2, <4>3, <4>4, EvaluationKeepsTime
    <3>4. QED
      BY <3>1, <3>3 DEF HoldMeasured, StampBound
  <2>6. CASE Advance
    <3>1. /\ clock' = NextMs(clock) /\ Elapsed(clock, now) < MaxPass
          /\ UNCHANGED <<now, phase, motor>> /\ phase # "setup"
          /\ motor.arm = "ARMING" /\ lowFor < ArmHold => lowFor' = lowFor + 1
          /\ motor.arm = "ARMING" /\ lowFor' < ArmHold => lowFor < ArmHold
      BY <2>1, <2>6 DEF Advance, TypeOK
    <3>2. /\ Elapsed(clock, now) \in Nat /\ Elapsed(clock, motor.t0) \in Nat
          /\ Elapsed(now, motor.t0) \in Nat
          /\ Elapsed(clock', now) \in Nat /\ Elapsed(clock', motor.t0) \in Nat
      BY <2>1, <3>1, ElapsedIsNat, NextMsInTime
    <3>3. Elapsed(clock', now) = Elapsed(clock, now) + 1
      <4>1. Elapsed(clock, now) # Wrap - 1
        BY <2>1, <3>1, <3>2, MotorAssumption, WrapAssumption
      <4>2. QED
        BY <2>1, <3>1, <4>1, ElapsedStep
    <3>4. Elapsed(clock', motor.t0) <= Elapsed(clock, motor.t0) + 1
      BY <2>1, <3>1, <3>2, ElapsedStep
    <3>5. Ahead => Ahead'
      BY <3>1, <3>2, <3>3, <3>4 DEF Ahead
    <3>6. ASSUME motor'.arm = "ARMING", lowFor' < ArmHold
          PROVE  StampBound'
      <4>1. StampBound /\ lowFor' = lowFor + 1
        BY <3>1, <3>6 DEF HoldMeasured
      <4>2. QED
        BY <2>1, <3>1, <3>2, <3>3, <3>4, <3>5, <4>1 DEF StampBound
    <3>7. QED
      BY <2>1, <3>1, <3>2, <3>3, <3>6 DEF HoldMeasured
  <2>7. CASE UNCHANGED vars
    BY <2>7 DEF vars, HoldMeasured, StampBound, Ahead
  <2>8. QED
    BY <2>2, <2>3, <2>4, <2>5, <2>6, <2>7 DEF Next
<1>3. QED
  BY <1>1, <1>2, TypeCorrect, PinsTheorem, PTL DEF Spec

(* An output arms only after the command was at neutral for the hold, less    *)
(* the pass its stamp may be old, or in the very pass whose command stamped   *)
(* the hold ahead of it (MotorDriver::apply, tick, nextArmState).            *)
THEOREM HoldTheorem == Spec => HoldUnlessAhead
<1> DEFINE Held == motor.arm # "ARMED" /\ motor'.arm = "ARMED" =>
                     \/ lowFor + MaxPass >= ArmHold
                     \/ phase = "body" /\ Ahead /\ motor'.t0 = motor.t0
<1>1. HoldMeasured /\ TypeOK /\ [Next]_vars => [Held]_vars
  <2> SUFFICES ASSUME HoldMeasured, TypeOK, Next, motor.arm # "ARMED", motor'.arm = "ARMED",
                      lowFor + MaxPass < ArmHold
               PROVE  phase = "body" /\ Ahead /\ motor'.t0 = motor.t0
    BY DriverFields, MotorAssumption, ArmHoldAssumption DEF TypeOK
  <2>1. /\ clock \in Time /\ now \in Time /\ motor.t0 \in Time
        /\ lowFor \in Nat /\ MaxPass \in Nat /\ ArmHold \in Nat /\ lowFor < ArmHold
        /\ Elapsed(clock, now) \in Nat /\ Elapsed(now, motor.t0) \in Nat
        /\ Elapsed(clock, motor.t0) \in Nat
    BY DriverFields, MotorAssumption, ArmHoldAssumption, ElapsedIsNat DEF TypeOK
  <2>2. CASE Setup
    BY <2>2, ApplyTimesTheHold DEF Setup, HoldMeasured
  <2>3. CASE Command
    <3>1. motor.arm = "ARMING" /\ Elapsed(clock, motor.t0) >= ArmHold
      BY <2>3, ApplyTimesTheHold DEF Command
    <3>2. QED
      BY <2>1, <3>1 DEF HoldMeasured, StampBound
  <2>4. CASE Tick
    <3>1. /\ motor' = Apply(motor, motor.cfg, now, inputs', driveOutputs')
          /\ phase = "body"
      BY <2>4 DEF Tick, TickMotor
    <3>2. /\ motor.arm = "ARMING" /\ Elapsed(now, motor.t0) >= ArmHold
          /\ motor'.t0 = motor.t0
      BY <2>1, <3>1, ArmingKeepsStamp, ApplyTimesTheHold
    <3>3. QED
      BY <2>1, <3>1, <3>2 DEF HoldMeasured, StampBound
  <2>5. CASE BeginPass \/ Advance
    BY <2>5 DEF BeginPass, Advance
  <2>6. QED
    BY <2>2, <2>3, <2>4, <2>5 DEF Next
<1>2. QED
  BY <1>1, HoldIsMeasured, TypeCorrect, PTL DEF Spec, HoldUnlessAhead

(* An output that stays armed was not re-timed, re-wired or re-pointed: any  *)
(* of them demotes it, late commands or not (MotorDriver::apply).            *)
THEOREM ChangeTheorem == Spec => ChangeCostsAHold
<1> DEFINE Kept == motor.arm = "ARMED" /\ motor'.arm = "ARMED" /\ motor'.cfg # motor.cfg =>
                     /\ motor'.cfg.rate = motor.cfg.rate
                     /\ motor'.cfg.type = motor.cfg.type
                     /\ motor'.cfg.mode = "input" => motor'.cfg.src = motor.cfg.src
<1>1. TypeOK /\ [Next]_vars => [Kept]_vars
  <2> SUFFICES ASSUME TypeOK, Next PROVE Kept
    OBVIOUS
  <2>1. clock \in Time /\ now \in Time
    BY DEF TypeOK
  <2>2. ASSUME NEW p, motor' = Apply(motor, p, clock, inputs, driveOutputs)
        PROVE  Kept
    <3>1. motor'.cfg = p
      BY <2>2, ApplyTimesTheHold
    <3>2. QED
      BY <2>1, <2>2, <3>1, ApplyKeepsArmed
  <2>3. CASE Setup \/ Command
    BY <2>2, <2>3 DEF Setup, Command
  <2>4. CASE Tick
    <3>1. motor'.cfg = motor.cfg
      BY <2>4, ApplyTimesTheHold DEF Tick, TickMotor
    <3>2. QED
      BY <3>1
  <2>5. CASE BeginPass \/ Advance
    BY <2>5 DEF BeginPass, Advance
  <2>6. QED
    BY <2>3, <2>4, <2>5 DEF Next
<1>2. QED
  BY <1>1, TypeCorrect, PTL DEF Spec, ChangeCostsAHold
-----------------------------------------------------------------------------
(* What is handed to an ESC leaves its frame MinLowUs.                       *)
LeavesLow(m) == "esc" \in m.driving => m.lastUs + MinLowUs <= FrameUsForRate(m.cfg.rate)

LEMMA FrameIsLong ==
  ASSUME NEW rate
  PROVE  /\ FrameUsForRate(rate) \in Nat
         /\ FrameUsForRate(rate) >= 2500
BY DEF FrameUsForRate

LEMMA UsIsPositive ==
  ASSUME NEW us, us \in MinUs \/ us \in MaxUs \/ us \in ThrottleUs
  PROVE  us \in Nat /\ us > 0
<1>1. us \in MinUs => us \in Nat /\ us > 0
  BY DEF MinUs
<1>2. us \in MaxUs => us \in Nat /\ us > 0
  BY DEF MaxUs
<1>3. us \in ThrottleUs => us \in Nat /\ us > 0
  BY DEF ThrottleUs
<1>4. QED
  BY <1>1, <1>2, <1>3

LEMMA PulseIsNat ==
  ASSUME NEW us, us \in PulseUs
  PROVE  us \in Nat
BY DEF PulseUs

(* Only an armed output has no pulse to write, and it was armed before with  *)
(* the same electronics at the same rate: arming writes one.                 *)
LEMMA NoPulseIsKept ==
  ASSUME NEW m, NEW p, NEW at, NEW in, NEW drv,
         m \in DriverSpace, p \in MotorParamSpace, at \in Time, SaneBus(in), SaneBus(drv),
         ~Disabled(p),
         ~(CommandUs(NextArm(m, p, at, in, drv), p, at, in, drv) > 0)
  PROVE  m.arm = "ARMED" /\ Apply(m, p, at, in, drv).arm = "ARMED"
<1> DEFINE arm == NextArm(m, p, at, in, drv)
           n   == NeutralUs(p.min, p.max)
<1>1. /\ n \in Nat /\ n > 0 /\ EffMaxUs(p) \in Nat /\ EffMaxUs(p) > 0
      /\ p.min \in Nat /\ p.min > 0 /\ p.max \in Nat /\ p.max > 0
  BY NeutralBounds, ParamFields, UsIsPositive
<1>2. Apply(m, p, at, in, drv).arm = arm
  BY DEF Apply
<1>3. arm = "ARMED"
  <2>1. arm # "ARMED" => CommandUs(arm, p, at, in, drv) = n
    BY CommandBounds
  <2>2. QED
    BY <1>1, <2>1
<1>4. ASSUME m.arm # "ARMED" PROVE FALSE
  <2>1. CommandedLow(p, at, in, drv)
    BY <1>3, <1>4 DEF NextArm, NextArmState, HeldArm, Demotes, InputLossDemotesArmed,
       SrcChangeDemotesArmed, RateChangeDemotesArmed
  <2>2. p.throttle \in Nat /\ InputUs(p, in, drv) \in Nat
    BY ParamFields, InputBounds, UsIsPositive, PulseIsNat
  <2>3. \A us \in Nat : ClampUs(us, p.min, p.max) > 0
    BY <1>1 DEF ClampUs
  <2>4. NextPulseUs(arm, p.mode, p.min, p.max, p.throttle, InputUs(p, in, drv),
                    p.mode = "input" /\ ~InputFresh(p, at, in, drv), n) > 0
    BY <1>1, <1>3, <2>1, <2>2, <2>3 DEF NextPulseUs, CommandedLow, IsCommandedLow
  <2>5. CommandUs(arm, p, at, in, drv) > 0
    BY <1>1, <2>4 DEF CommandUs
  <2>6. QED
    BY <2>5
<1>5. QED
  BY <1>2, <1>3, <1>4

(* The clip leaves the line its low time.                                   *)
LEMMA ClipLeavesLow ==
  ASSUME NEW p, NEW us, p \in MotorParamSpace, p.type # "brushed",
         us \in PulseUs, us <= EffMaxUs(p)
  PROVE  us + MinLowUs <= FrameUsForRate(p.rate)
<1>1. /\ p.max \in Nat /\ us \in Nat
      /\ FrameUsForRate(p.rate) \in Nat /\ FrameUsForRate(p.rate) >= 2500
  BY ParamFields, FrameIsLong, UsIsPositive, PulseIsNat
<1>2. EffMaxUs(p) <= FrameUsForRate(p.rate) - MinLowUs /\ EffMaxUs(p) \in Int
  BY <1>1 DEF EffMaxUs, EffectiveMaxUs, MinLowUs
<1>3. QED
  BY <1>1, <1>2 DEF MinLowUs

LEMMA ApplyLeavesLow ==
  ASSUME NEW m, NEW p, NEW at, NEW in, NEW drv,
         m \in DriverSpace, p \in MotorParamSpace, at \in Time, SaneBus(in), SaneBus(drv),
         IF Disabled(m.cfg) THEN m.driving = {}
         ELSE m.driving = {StageOf(m.cfg.type)} /\ m.arm # "OFF",
         Disabled(m.cfg) => m.arm = "OFF",
         LeavesLow(m)
  PROVE  LeavesLow(Apply(m, p, at, in, drv))
<1> DEFINE a   == Apply(m, p, at, in, drv)
           us  == CommandUs(NextArm(m, p, at, in, drv), p, at, in, drv)
<1> SUFFICES ASSUME "esc" \in a.driving
             PROVE  a.lastUs + MinLowUs <= FrameUsForRate(p.rate)
  BY DEF LeavesLow, Apply
<1>1. ~Disabled(p) /\ a.driving = {StageOf(p.type)}
  BY ApplyIsSafe
<1>2. p.type # "brushed"
  BY <1>1 DEF StageOf
<1>3. CASE us > 0
  <2>1. a.lastUs = us
    BY <1>1, <1>3 DEF Apply
  <2>2. us \in PulseUs
    BY CommandBounds
  <2>3. us <= EffMaxUs(p)
    <3>1. EffMaxUs(p) \in Int /\ us \in Int
      BY <2>2, NeutralBounds, UsIsInt
    <3>2. QED
      BY <3>1 DEF CommandUs
  <2>4. QED
    BY <1>2, <2>1, <2>2, <2>3, ClipLeavesLow
<1>4. CASE ~(us > 0)
  <2>1. m.arm = "ARMED" /\ a.arm = "ARMED"
    BY <1>1, <1>4, NoPulseIsKept
  <2>2. p.rate = m.cfg.rate /\ p.type = m.cfg.type
    BY <2>1, ApplyKeepsArmed
  <2>3. a.lastUs = m.lastUs
    BY <1>1, <1>4 DEF Apply
  <2>4. "esc" \in m.driving
    BY <1>2, <2>1, <2>2 DEF StageOf
  <2>5. QED
    BY <2>2, <2>3, <2>4 DEF LeavesLow
<1>5. QED
  BY <1>3, <1>4

(* The line is never asked to stay high: what an ESC is handed leaves the     *)
(* frame its low time, through changes of rate and type, and while a channel   *)
(* without data keeps the last command (effectiveMaxUs, MotorDriver::apply).   *)
THEOREM FrameTheorem == Spec => []CommandLeavesLow
<1> DEFINE Inv == LeavesLow(motor)
<1>1. Init => Inv
  BY DEF Init, LeavesLow, BootMotor
<1>2. Inv /\ SafetyInv /\ TypeOK' /\ [Next]_vars => Inv'
  <2> SUFFICES ASSUME Inv, SafetyInv, TypeOK', [Next]_vars PROVE Inv'
    OBVIOUS
  <2>1. /\ clock \in Time /\ now \in Time /\ motor \in DriverSpace
        /\ SaneBus(inputs) /\ SaneBus(driveOutputs)
    BY SaneBuses DEF SafetyInv, TypeOK
  <2>2. /\ IF Disabled(motor.cfg) THEN motor.driving = {}
           ELSE motor.driving = {StageOf(motor.cfg.type)} /\ motor.arm # "OFF"
        /\ Disabled(motor.cfg) => motor.arm = "OFF"
    BY DEF SafetyInv, PinsFollowConfig
  <2>3. ASSUME NEW p, p \in MotorParamSpace, NEW at, at \in Time,
               NEW in, NEW drv, SaneBus(in), SaneBus(drv),
               motor' = Apply(motor, p, at, in, drv)
        PROVE  Inv'
    BY <2>1, <2>2, <2>3, ApplyLeavesLow, ApplyTimesTheHold
  <2>4. CASE Setup \/ Command
    BY <2>1, <2>3, <2>4, MotorAssumption DEF Setup, Command
  <2>5. CASE Tick
    <3>1. SaneBus(inputs') /\ SaneBus(driveOutputs')
      BY BusIsSane, ValuesArePulses DEF TypeOK
    <3>2. motor.cfg \in MotorParamSpace
      BY <2>1, DriverFields
    <3>3. motor' = motor \/ motor' = Apply(motor, motor.cfg, now, inputs', driveOutputs')
      BY <2>5 DEF Tick, TickMotor
    <3>4. QED
      BY <2>1, <2>3, <3>1, <3>2, <3>3
  <2>6. CASE BeginPass \/ Advance \/ UNCHANGED vars
    BY <2>6 DEF BeginPass, Advance, vars
  <2>7. QED
    BY <2>4, <2>5, <2>6 DEF Next
<1>3. Inv => CommandLeavesLow
  BY DEF LeavesLow, CommandLeavesLow
<1> HIDE DEF Inv
<1>4. QED
  BY <1>1, <1>2, <1>3, SafetyInvInductive, TypeCorrect, PTL DEF Spec
=============================================================================
