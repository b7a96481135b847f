----------------------------- MODULE ServoDriver -----------------------------
(***************************************************************************)
(* ServoDriver (servo_driver.cpp) and its pulse arithmetic.  The parameters *)
(* only calibrate; the drive bus decides whether the pin is driven, and the *)
(* steering slot's 0 means hold.                                           *)
(*                                                                         *)
(*   cfg       the members copied from the servo parameters                 *)
(*   attached  attached_: whether the timer channel runs on the pin         *)
(*   us        lastUs_, the telemetry reading                              *)
(*   compare   the channel's compare value, which detach() leaves alone     *)
(***************************************************************************)
EXTENDS MotorMath

ServoParamSpace ==
  [min : MinUs, max : MaxUs, reversed : BOOLEAN, trim : -250 .. 250]

ServoSpace ==
  [cfg : ServoParamSpace, attached : BOOLEAN, us : PulseUs, compare : PulseUs]

BootServo ==
  [cfg |-> [min |-> 1000, max |-> 2000, reversed |-> FALSE, trim |-> 0],
   attached |-> FALSE, us |-> 0, compare |-> 0]

ApplyInvert(us, cfg) ==
  IF cfg.reversed THEN ClampUs(cfg.min + cfg.max - us, cfg.min, cfg.max) ELSE us

ApplyTrim(us, cfg) == ClampUs(us + cfg.trim, cfg.min, cfg.max)

(* A bus value on its way to the pin: range, then linkage, then range.      *)
ServoPulse(us, cfg) == ApplyTrim(ApplyInvert(ClampUs(us, cfg.min, cfg.max), cfg), cfg)

CalibrateServo(s, cfg) == [s EXCEPT !.cfg = cfg]

(* ServoDriver::tick, given the two drive slots it reads.                   *)
TickServo(s, layout, steer) ==
  LET wanted == layout = 1
  IN  IF ~wanted
      THEN IF s.attached THEN [s EXCEPT !.attached = FALSE, !.us = 0] ELSE s
      ELSE IF steer > 0
      THEN [s EXCEPT !.attached = TRUE, !.us = ServoPulse(steer, s.cfg),
                     !.compare = ServoPulse(steer, s.cfg)]
      ELSE [s EXCEPT !.attached = TRUE]
=============================================================================
