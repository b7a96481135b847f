----------------------------- MODULE MotorDriver -----------------------------
(***************************************************************************)
(* One MotorDriver object (motor0_driver.cpp and motor1_driver.cpp are the *)
(* same text) and the two output stages it drives, as operators on a       *)
(* record.  A module that has the driver in its state applies them; nothing *)
(* here is a step of its own.                                              *)
(*                                                                         *)
(*   cfg      the members copied from the motor<N> parameters               *)
(*   arm, t0  armState_ and armT0_                                         *)
(*   lastUs   lastUs_, the telemetry reading                               *)
(*   driving  the output stages whose timer channels run on the pins        *)
(*   pulse    the ESC stage's compare value                                *)
(*   duty     the H-bridge stage's two compare values                      *)
(***************************************************************************)
EXTENDS MotorMath, FiniteSets

CONSTANTS
  InputStale,       \* MOTOR<N>_INPUT_STALE_MS
  HasDrive          \* whether a drive module is registered

ASSUME InputStaleAssumption == InputStale \in Nat \ {0} /\ HasDrive \in BOOLEAN

DriveSrcBase == 12     \* kDriveSrcBase: src 12.. are slots 0.. of the drive bus
LeftSlot     == 0
RightSlot    == 1
SteerSlot    == 2
ArmSlot      == 3
ModeSlot     == 4

(* What the parameter table lets a client store.  freq only scales the     *)
(* timer period of the H-bridge and has no bearing on the control.          *)
MotorParamSpace ==
  [type : MotorType, mode : MotorMode, throttle : ThrottleUs,
   min : MinUs, max : MaxUs, src : 0 .. 14,
   rate : RateHz, invert : BOOLEAN, brake : BOOLEAN]

(* core::Inputs.get: a slot nobody wrote reads 0.                          *)
BusGet(bus, slot) == IF slot \in DOMAIN bus.vals THEN bus.vals[slot] ELSE 0

OffDuty == [a |-> 0, b |-> 0]

Stages == {"esc", "hbridge"}

StageOf(type) == IF type = "brushed" THEN "hbridge" ELSE "esc"

DriverSpace ==
  [cfg : MotorParamSpace, arm : ArmState, t0 : Time, lastUs : PulseUs,
   driving : SUBSET Stages, pulse : PulseUs, duty : PinDuty]

(* The members' initialisers, and begin().                                 *)
BootMotor ==
  [cfg |-> [type |-> "brushless", mode |-> "off", throttle |-> 1000,
            min |-> 1000, max |-> 2000, src |-> 0,
            rate |-> 50, invert |-> FALSE, brake |-> FALSE],
   arm |-> "OFF", t0 |-> 0, lastUs |-> 0,
   driving |-> {}, pulse |-> 0, duty |-> OffDuty]
-----------------------------------------------------------------------------
(* The command a configuration follows, and whether the bus behind it is    *)
(* alive.  in and drv are the raw and the drive bus.                       *)
SourceBus(p, in, drv) == IF p.src >= DriveSrcBase THEN drv ELSE in

InputUs(p, in, drv) ==
  IF p.mode # "input" THEN 0
  ELSE IF p.src >= DriveSrcBase THEN BusGet(drv, p.src - DriveSrcBase)
  ELSE BusGet(in, p.src)

InputFresh(p, now, in, drv) ==
  p.mode = "input" /\ LinkFresh(SourceBus(p, in, drv).fresh, now, InputStale)

CommandedLow(p, now, in, drv) ==
  IsCommandedLow(p.mode, p.throttle, InputUs(p, in, drv),
                 InputFresh(p, now, in, drv), NeutralUs(p.min, p.max))

Disabled(p) == OutputDisabled(p.mode, p.type)

Entering(m, p) == EnteringEnabled(m.cfg.mode, m.cfg.type, p.mode, p.type)

Demotes(m, p, now, in, drv) ==
  \/ InputLossDemotesArmed(m.arm, p.mode, InputFresh(p, now, in, drv))
  \/ SrcChangeDemotesArmed(m.arm, p.mode, p.src # m.cfg.src)
  \/ RateChangeDemotesArmed(m.arm, p.rate # m.cfg.rate \/ p.type # m.cfg.type)

(* armT0_ and armState_ after one evaluation.                              *)
HeldArm(m, p, now, in, drv) ==
  IF Demotes(m, p, now, in, drv) THEN "ARMING" ELSE m.arm

(* Slips: a command away from neutral does not restart the hold; every       *)
(* evaluation does.                                                        *)
NextT0_NoRestart(m, p, now, in, drv) ==
  IF Demotes(m, p, now, in, drv) \/ Entering(m, p) THEN now ELSE m.t0

NextT0_AlwaysRestart(m, p, now, in, drv) ==
  IF \/ Demotes(m, p, now, in, drv)
     \/ Entering(m, p)
     \/ HeldArm(m, p, now, in, drv) = "ARMING"
  THEN now
  ELSE m.t0

NextT0(m, p, now, in, drv) ==
  IF \/ Demotes(m, p, now, in, drv)
     \/ Entering(m, p)
     \/ HeldArm(m, p, now, in, drv) = "ARMING" /\ ~CommandedLow(p, now, in, drv)
  THEN now
  ELSE m.t0

NextArm(m, p, now, in, drv) ==
  NextArmState(HeldArm(m, p, now, in, drv), Disabled(p), Entering(m, p), now,
               NextT0(m, p, now, in, drv), CommandedLow(p, now, in, drv))

(* The pulse handed to the stage: the arm switch overrides, the frame clips. *)
EffMaxUs(p) ==
  IF p.type = "brushed" THEN p.max
  ELSE EffectiveMaxUs(p.max, FrameUsForRate(p.rate))

CommandUs(arm, p, now, in, drv) ==
  LET neutral == NeutralUs(p.min, p.max)
      us      == IF ArmSwitchGates(HasDrive, BusGet(drv, ArmSlot)) THEN neutral
                 ELSE NextPulseUs(arm, p.mode, p.min, p.max, p.throttle,
                                  InputUs(p, in, drv),
                                  p.mode = "input" /\ ~InputFresh(p, now, in, drv),
                                  neutral)
  IN  IF us > EffMaxUs(p) THEN EffMaxUs(p) ELSE us

(* OutputStage::write: what each stage puts on its pins.                   *)
EscWrite(us, p) == IF p.invert THEN MirrorAboutSpan(us, p.min, p.max) ELSE us

HbridgeWrite(us, p) ==
  SplitPinDuty(SignedDutyPermille(us, p.min, p.max, NeutralUs(p.min, p.max)),
               p.invert, p.brake)

(* Slip: the new stage starts beside the old one.                           *)
NextDriving_NoDetach(m, p) == m.driving \cup {StageOf(p.type)}

(* The pins after detach() and attachOutput(): a type change stops the old  *)
(* stage and starts the new one, leaving off starts the stage.              *)
NextDriving(m, p) ==
  IF p.type # m.cfg.type \/ Entering(m, p)
  THEN (m.driving \ {StageOf(m.cfg.type)}) \cup {StageOf(p.type)}
  ELSE m.driving

KeptPulse(m, p) == IF p.type # m.cfg.type THEN 0 ELSE m.pulse
KeptDuty(m, p)  == IF p.type # m.cfg.type THEN OffDuty ELSE m.duty
-----------------------------------------------------------------------------
(* MotorDriver::apply, on every parameter change.                          *)
Apply(m, p, now, in, drv) ==
  LET arm == NextArm(m, p, now, in, drv)
      us  == CommandUs(arm, p, now, in, drv)
  IN  IF Disabled(p)
      THEN [cfg |-> p, arm |-> arm, t0 |-> NextT0(m, p, now, in, drv), lastUs |-> 0,
            driving |-> m.driving \ {StageOf(m.cfg.type), StageOf(p.type)},
            pulse |-> 0, duty |-> OffDuty]
      ELSE [cfg |-> p, arm |-> arm, t0 |-> NextT0(m, p, now, in, drv),
            lastUs  |-> IF us > 0 THEN us ELSE m.lastUs,
            driving |-> NextDriving(m, p),
            pulse   |-> IF us > 0 /\ p.type # "brushed" THEN EscWrite(us, p)
                        ELSE KeptPulse(m, p),
            duty    |-> IF us > 0 /\ p.type = "brushed" THEN HbridgeWrite(us, p)
                        ELSE KeptDuty(m, p)]

(* MotorDriver::tick.  On an enabled output it runs the text of apply with  *)
(* the configuration it already has.                                       *)
TickMotor(m, now, in, drv) ==
  IF Disabled(m.cfg) THEN m ELSE Apply(m, m.cfg, now, in, drv)
-----------------------------------------------------------------------------
(* Neutral as each stage renders it.  Mirroring min + max - us about an odd *)
(* span moves it by one microsecond.                                       *)
AtNeutral(m) ==
  LET n == NeutralUs(m.cfg.min, m.cfg.max)
  IN  IF m.cfg.type = "brushed" THEN m.duty.a = m.duty.b
      ELSE m.pulse - n \in 0 .. 1
=============================================================================
