------------------------------ MODULE DriveMath ------------------------------
(***************************************************************************)
(* The pure functions of features/drive/drive_math.cpp: skid and car        *)
(* mixing, and the arm switch's window.  Quotients truncate towards zero as *)
(* C's do.  kDeadbandUs is 0 in the driver and a parameter here, as it is   *)
(* of mix() and carMix().                                                  *)
(***************************************************************************)
EXTENDS Integers

CenterUs   == 1500      \* kCenterUs
DriveMinUs == 1000      \* kMinUs
DriveMaxUs == 2000      \* kMaxUs

Least(a, b) == IF a < b THEN a ELSE b

(* Slip: the quotient is floored.                                           *)
Quot_Floor(a, b) == IF b < 0 THEN (-a) \div (-b) ELSE a \div b

Quot(a, b) ==
  LET Mag(x) == IF x < 0 THEN -x ELSE x
      q      == Mag(a) \div Mag(b)
  IN  IF (a < 0) = (b < 0) THEN q ELSE -q

Deadbanded(us, deadband) ==
  IF us - CenterUs \in -deadband .. deadband THEN CenterUs ELSE us

ClampToRange(us) ==
  IF us < DriveMinUs THEN DriveMinUs
  ELSE IF us > DriveMaxUs THEN DriveMaxUs ELSE us

(* Percent by which an offset has to shrink to fit: 100 leaves it alone.    *)
ScaleNumForOffset(offset) ==
  LET maxOffset == DriveMaxUs - CenterUs
      minOffset == DriveMinUs - CenterUs
  IN  IF offset > maxOffset THEN Quot(maxOffset * 100, offset)
      ELSE IF offset < minOffset THEN Quot(minOffset * 100, offset)
      ELSE 100

ThrottleOffset(throttle, forward, reverse) ==
  LET d == throttle - CenterUs
  IN  Quot(d * (IF d > 0 THEN forward ELSE reverse), 100)

SteerOffset(steer, ratio) == Quot((steer - CenterUs) * ratio, 100)

(* Slip: each track shrinks on its own.                                     *)
Mix_Apart(throttleUs, steerUs, ratios, deadband) ==
  LET t == ThrottleOffset(Deadbanded(throttleUs, deadband), ratios.forward, ratios.reverse)
      s == SteerOffset(Deadbanded(steerUs, deadband), ratios.steer)
  IN  [left  |-> ClampToRange(CenterUs + t + s),
       right |-> ClampToRange(CenterUs + t - s),
       steer |-> ClampToRange(CenterUs + s)]

(* Skid: both tracks shrink by the same factor, so their proportion, hence  *)
(* the turn, survives the clamp.                                           *)
Mix(throttleUs, steerUs, ratios, deadband) ==
  LET t     == ThrottleOffset(Deadbanded(throttleUs, deadband), ratios.forward, ratios.reverse)
      s     == SteerOffset(Deadbanded(steerUs, deadband), ratios.steer)
      scale == Least(ScaleNumForOffset(t + s), ScaleNumForOffset(t - s))
  IN  [left  |-> ClampToRange(CenterUs + Quot((t + s) * scale, 100)),
       right |-> ClampToRange(CenterUs + Quot((t - s) * scale, 100)),
       steer |-> ClampToRange(CenterUs + s)]

(* Car: both motor slots carry throttle, the servo steers.                  *)
CarMix(throttleUs, steerUs, ratios, deadband) ==
  LET out == ClampToRange(CenterUs + ThrottleOffset(Deadbanded(throttleUs, deadband),
                                                    ratios.forward, ratios.reverse))
  IN  [left |-> out, right |-> out,
       steer |-> ClampToRange(CenterUs + SteerOffset(Deadbanded(steerUs, deadband),
                                                     ratios.steer))]

(* computeArmed: a switch channel arms inside [min, max], on a live link.   *)
ComputeArmed(rxFresh, srcIsNone, us, min, max) ==
  rxFresh /\ (srcIsNone \/ us \in min .. max)
=============================================================================
