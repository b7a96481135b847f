------------------------------ MODULE MotorMath ------------------------------
(***************************************************************************)
(* The pure functions under hardware/motor/: what motor_math.cpp and       *)
(* hbridge_math.cpp compute, in microseconds and per mille.  Enumerations   *)
(* are named by the option names of the motor<N> parameter tables.         *)
(***************************************************************************)
EXTENDS Millis, Integers

CONSTANT ArmHold        \* MOTOR<N>_ARM_HOLD_MS

ASSUME ArmHoldAssumption == ArmHold \in Nat \ {0}

MotorMode == {"off", "armed", "input"}
MotorType == {"none", "brushless", "brushed"}
ArmState  == {"OFF", "ARMING", "ARMED"}
RateHz    == {50, 100, 200, 400}

(* The microsecond ranges of the parameter tables and of any pulse.        *)
MinUs      == 500 .. 1500
MaxUs      == 1500 .. 2500
ThrottleUs == 1000 .. 2000
PulseUs    == 0 .. 2500

LowMarginUs == 50       \* MOTOR<N>_ARM_LOW_MARGIN_US
MinLowUs    == 125      \* kMinLowUs

Abs(x) == IF x < 0 THEN -x ELSE x
-----------------------------------------------------------------------------
ClampUs(us, min, max) == IF us < min THEN min ELSE IF us > max THEN max ELSE us

OutputDisabled(mode, type) == mode = "off" \/ type = "none"

EnteringEnabled(prevMode, prevType, mode, type) ==
  OutputDisabled(prevMode, prevType) /\ ~OutputDisabled(mode, type)

NeutralUs(min, max) == (min + max) \div 2

NextArmState(prev, isOff, entering, now, t0, low) ==
  IF isOff THEN "OFF"
  ELSE IF entering THEN "ARMING"
  ELSE IF prev = "ARMING" /\ low /\ Elapsed(now, t0) >= ArmHold THEN "ARMED"
  ELSE prev

(* Whether the command that would be honoured on promotion is at neutral.  *)
IsCommandedLow(mode, throttle, input, fresh, neutral) ==
  \/ /\ mode = "armed"
     /\ Abs(throttle - neutral) <= LowMarginUs
  \/ /\ mode = "input"
     /\ fresh
     /\ input > 0
     /\ Abs(input - neutral) <= LowMarginUs

(* Slip: the wrong mode is tested, so a lost link demotes nothing.          *)
InputLossDemotesArmed_WrongMode(arm, mode, fresh) ==
  arm = "ARMED" /\ mode = "armed" /\ ~fresh

InputLossDemotesArmed(arm, mode, fresh) == arm = "ARMED" /\ mode = "input" /\ ~fresh

(* Slip: the same for a re-pointed source.                                  *)
SrcChangeDemotesArmed_WrongMode(arm, mode, changed) ==
  arm = "ARMED" /\ mode = "armed" /\ changed

SrcChangeDemotesArmed(arm, mode, changed) == arm = "ARMED" /\ mode = "input" /\ changed

(* Slip: the state before the one that matters is tested.                   *)
RateChangeDemotesArmed_Arming(arm, changed) == arm = "ARMING" /\ changed

RateChangeDemotesArmed(arm, changed) == arm = "ARMED" /\ changed

(* Slip: the gate only closes on a build without a mixer.                   *)
ArmSwitchGates_NoDrive(hasDrive, armSlot) == ~hasDrive /\ armSlot = 0

ArmSwitchGates(hasDrive, armSlot) == hasDrive /\ armSlot = 0

MirrorAboutSpan(us, min, max) == ClampUs(min + max - us, min, max)

FrameUsForRate(rate) ==
  CASE rate = 400 -> 2500
    [] rate = 200 -> 5000
    [] rate = 100 -> 10000
    [] OTHER      -> 20000

(* Slip: only the frame too short for any pulse is handled.                 *)
EffectiveMaxUs_Unclipped(max, frame) == IF frame <= MinLowUs THEN 0 ELSE max

EffectiveMaxUs(max, frame) ==
  IF frame <= MinLowUs THEN 0
  ELSE IF max > frame - MinLowUs THEN frame - MinLowUs ELSE max

(* Slip: a link that is not stale is honoured whatever the arm state.        *)
NextPulseUs_Unarmed(arm, mode, min, max, throttle, input, stale, neutral) ==
  IF arm = "OFF" \/ (mode = "input" /\ stale) THEN neutral
  ELSE IF mode = "armed" THEN ClampUs(throttle, min, max)
  ELSE IF mode = "input" /\ input > 0 THEN ClampUs(input, min, max)
  ELSE 0

(* The pulse to write, or 0 to leave the last one on the pin.              *)
NextPulseUs(arm, mode, min, max, throttle, input, stale, neutral) ==
  IF arm # "ARMED" \/ (mode = "input" /\ stale) THEN neutral
  ELSE IF mode = "armed" THEN ClampUs(throttle, min, max)
  ELSE IF mode = "input" /\ input > 0 THEN ClampUs(input, min, max)
  ELSE 0
-----------------------------------------------------------------------------
(* The H-bridge: a calibrated pulse as a signed duty, then one pin's share. *)
PinDuty == [a : 0 .. 1000, b : 0 .. 1000]

SignedDutyPermille(us, min, max, neutral) ==
  LET Scaled(d, span) ==
        LET q == (d * 1000) \div (IF span > 0 THEN span ELSE 1)
        IN  IF q > 1000 THEN 1000 ELSE q
  IN  IF us >= neutral THEN  Scaled(us - neutral, max - neutral)
                       ELSE -Scaled(neutral - us, neutral - min)

(* Slip: the reverse side gets the signed duty.                             *)
SplitPinDuty_Signed(duty, inverted, brake) ==
  IF duty = 0 THEN (IF brake THEN [a |-> 1000, b |-> 1000] ELSE [a |-> 0, b |-> 0])
  ELSE IF (duty > 0) # inverted THEN [a |-> duty, b |-> 0]
                                ELSE [a |-> 0, b |-> duty]

SplitPinDuty(duty, inverted, brake) ==
  IF duty = 0 THEN (IF brake THEN [a |-> 1000, b |-> 1000] ELSE [a |-> 0, b |-> 0])
  ELSE IF (duty > 0) # inverted THEN [a |-> Abs(duty), b |-> 0]
                                ELSE [a |-> 0, b |-> Abs(duty)]
=============================================================================
