----------------------------- MODULE DriveDriver -----------------------------
(***************************************************************************)
(* DriveDriver (drive_driver.cpp): reads the receiver's bus, publishes its  *)
(* own.  A bus is [vals, fresh] as in MotorDriver; slots 0 and 1 are the    *)
(* motors, 2 the steering, 3 the arm switch, 4 the vehicle layout.          *)
(***************************************************************************)
EXTENDS Millis, DriveMath

CONSTANT RxStale        \* kRxStaleMs

ASSUME RxStaleAssumption == RxStale \in Nat \ {0}

(* The members a drive.* parameter feeds.  armSrc 0 is ARM_SRC_NONE, n > 0  *)
(* is channel n.                                                           *)
DriveParamSpace ==
  [mode : {"skid", "car"}, throttleSrc : 0 .. 11, steerSrc : 0 .. 11,
   ratios : [forward : 0 .. 100, reverse : 0 .. 100, steer : 0 .. 100],
   armSrc : 0 .. 12, armMin : 1000 .. 2000, armMax : 1000 .. 2000]

(* What one compute() publishes, given the receiver's bus.  On a dead link  *)
(* the motor slots are centred, the steering slot carries no data, and the  *)
(* stamp is left alone, so a consumer sees the staleness propagate.         *)
MixedSlots(cfg, in) ==
  LET throttle == in.vals[cfg.throttleSrc]
      steer    == in.vals[cfg.steerSrc]
  IN  IF cfg.mode = "car" THEN CarMix(throttle, steer, cfg.ratios, 0)
                          ELSE Mix(throttle, steer, cfg.ratios, 0)

SwitchOn(cfg, in, now) ==
  ComputeArmed(LinkFresh(in.fresh, now, RxStale), cfg.armSrc = 0,
               IF cfg.armSrc = 0 THEN 0 ELSE in.vals[cfg.armSrc - 1],
               cfg.armMin, cfg.armMax)

Compute(cfg, in, drv, now) ==
  LET fresh == LinkFresh(in.fresh, now, RxStale)
      r     == IF fresh THEN MixedSlots(cfg, in)
               ELSE [left |-> CenterUs, right |-> CenterUs, steer |-> 0]
  IN  [vals  |-> [s \in 0 .. 4 |->
                    CASE s = 0 -> r.left
                      [] s = 1 -> r.right
                      [] s = 2 -> r.steer
                      [] s = 3 -> IF SwitchOn(cfg, in, now) THEN 1 ELSE 0
                      [] s = 4 -> IF cfg.mode = "car" THEN 1 ELSE 0],
       fresh |-> IF fresh THEN now ELSE drv.fresh]
=============================================================================
