------------------------------- MODULE Vehicle -------------------------------
(***************************************************************************)
(* The modules on the control path, composed as registerModules() orders    *)
(* them: the servo ticks before the receiver and the mixer, the motors      *)
(* after them.  One pass of loop() reads millis() once, handles commands,   *)
(* and ticks every module with that reading.                               *)
(***************************************************************************)
EXTENDS MotorDriver, DriveDriver

Servo == INSTANCE ServoDriver

CONSTANTS
  Configs,          \* stored settings: [rx, drive, motor, servo]
  Frames,           \* decoded frames: channel -> microseconds
  MaxPass           \* a pass of loop() lasts at most this many milliseconds

ASSUME VehicleAssumption ==
  /\ MaxPass \in Nat \ {0}
  /\ MaxPass < ArmHold
  /\ ArmHold + MaxPass < Wrap
  /\ HasDrive

ASSUME ConfigsAssumption == \A c \in Configs : c.motor \in [{0, 1} -> MotorParamSpace]

VARIABLES
  clock, now, phase,    \* as in Motor
  rx,                   \* [cfg, us]: its parameters, and us_
  inputs,               \* rx's bus
  driveCfg,             \* the mixer's members
  driveOutputs,         \* its bus
  motor,                \* the two drivers
  servo,
  silence,              \* history: real milliseconds since a frame was applied
  recovered,            \* history: real milliseconds since the silence was long
  waived                \* history: the motors whose hold is not the loop's own

vars == <<clock, now, phase, rx, inputs, driveCfg, driveOutputs, motor, servo,
          silence, recovered, waived>>

Channels == UNION {DOMAIN f : f \in Frames}
NoData   == [c \in Channels |-> 0]
Motors   == {0, 1}

LongSilence == RxStale + InputStale + 3 * MaxPass

Init ==
  /\ clock \in Time
  /\ now = 0
  /\ phase = "setup"
  /\ \E c \in Configs : rx = [cfg |-> c.rx, us |-> NoData] /\ driveCfg = c.drive
  /\ inputs = [vals |-> NoData, fresh |-> 0]
  /\ driveOutputs = [vals |-> [s \in 0 .. 4 |-> 0], fresh |-> 0]
  /\ motor = [i \in Motors |-> BootMotor]
  /\ servo = Servo!BootServo
  /\ silence = LongSilence
  /\ recovered = 0
  /\ waived = {}
-----------------------------------------------------------------------------
(* rx: a change of protocol or source forgets everything decoded so far; the *)
(* bus itself is only rewritten at the next tick.                          *)
ReconfigureRx(cfg) ==
  rx' = [cfg |-> cfg,
         us  |-> IF cfg.protocol = rx.cfg.protocol /\ cfg.source = rx.cfg.source
                 THEN rx.us ELSE NoData]

(* A hold does not count as the loop's own while the driver is in the bench  *)
(* mode, which asks no link, nor when a command newer than its pass begins   *)
(* it; and it stays so, armed or not, until the hold starts over.            *)
NextWaived(late) ==
  {i \in Motors :
     /\ motor'[i].arm # "OFF"
     /\ \/ motor'[i].cfg.mode = "armed"
        \/ late /\ motor'[i].arm = "ARMING" /\ motor'[i].t0 = clock
        \/ /\ i \in waived
           /\ \/ motor'[i].arm = "ARMED"
              \/ motor[i].arm = "ARMING" /\ motor'[i].t0 = motor[i].t0}

ApplyMotor(i, p) == Apply(motor[i], p, clock, inputs, driveOutputs)

NotifyAll(c) ==
  /\ ReconfigureRx(c.rx)
  /\ driveCfg' = c.drive
  /\ motor' = [i \in Motors |-> ApplyMotor(i, c.motor[i])]
  /\ servo' = Servo!CalibrateServo(servo, c.servo)

(* setup() notifies every module with what the store held.                  *)
Setup ==
  /\ phase = "setup"
  /\ \E c \in Configs : c.rx = rx.cfg /\ NotifyAll(c)
  /\ waived' = NextWaived(FALSE)
  /\ phase' = "top"
  /\ UNCHANGED <<clock, now, inputs, driveOutputs, silence, recovered>>

BeginPass ==
  /\ phase = "top"
  /\ now' = clock
  /\ phase' = "body"
  /\ UNCHANGED <<clock, rx, inputs, driveCfg, driveOutputs, motor, servo,
                 silence, recovered, waived>>

(* Commands are handled inside a pass, which may have read its millis() a    *)
(* while ago.  A set notifies the one module that owns the parameter,        *)
(* defaults and revert notify all of them.                                 *)
CommandTime == phase = "body"

SetRx ==
  /\ CommandTime
  /\ \E c \in Configs : c.rx # rx.cfg /\ ReconfigureRx(c.rx)
  /\ UNCHANGED <<clock, now, phase, inputs, driveCfg, driveOutputs, motor, servo,
                 silence, recovered, waived>>

SetDrive ==
  /\ CommandTime
  /\ \E c \in Configs : driveCfg' = c.drive
  /\ UNCHANGED <<clock, now, phase, rx, inputs, driveOutputs, motor, servo,
                 silence, recovered, waived>>

SetMotor ==
  /\ CommandTime
  /\ \E i \in Motors, c \in Configs : motor' = [motor EXCEPT ![i] = ApplyMotor(i, c.motor[i])]
  /\ waived' = NextWaived(clock # now)
  /\ UNCHANGED <<clock, now, phase, rx, inputs, driveCfg, driveOutputs, servo,
                 silence, recovered>>

SetServo ==
  /\ CommandTime
  /\ \E c \in Configs : servo' = Servo!CalibrateServo(servo, c.servo)
  /\ UNCHANGED <<clock, now, phase, rx, inputs, driveCfg, driveOutputs, motor,
                 silence, recovered, waived>>

Restore ==
  /\ CommandTime
  /\ \E c \in Configs : NotifyAll(c)
  /\ waived' = NextWaived(clock # now)
  /\ UNCHANGED <<clock, now, phase, inputs, driveOutputs, silence, recovered>>

(* Slip: the bus is stamped on every tick.                                   *)
SyncedInputs_AlwaysFresh(us, heard) ==
  [vals  |-> [c \in Channels |-> Deadbanded(us[c], rx.cfg.deadband)],
   fresh |-> now]

(* Registry::tick.  The servo sees the bus of the pass before; the motors   *)
(* see the frame this pass decoded.                                        *)
SyncedInputs(us, heard) ==
  [vals  |-> [c \in Channels |-> Deadbanded(us[c], rx.cfg.deadband)],
   fresh |-> IF heard THEN now ELSE inputs.fresh]

TickModules(us, heard) ==
  LET in  == SyncedInputs(us, heard)
      drv == Compute(driveCfg, in, driveOutputs, now)
  IN  /\ servo' = Servo!TickServo(servo, driveOutputs.vals[ModeSlot],
                                  driveOutputs.vals[SteerSlot])
      /\ inputs' = in
      /\ driveOutputs' = drv
      /\ motor' = [i \in Motors |-> TickMotor(motor[i], now, in, drv)]
      /\ waived' = NextWaived(FALSE)

TickHeard ==
  /\ phase = "body"
  /\ \E f \in Frames : rx' = [rx EXCEPT !.us = f] /\ TickModules(f, TRUE)
  /\ silence' = 0
  /\ phase' = "top"
  /\ UNCHANGED <<clock, now, driveCfg, recovered>>

TickSilent ==
  /\ phase = "body"
  /\ TickModules(rx.us, FALSE)
  /\ phase' = "top"
  /\ UNCHANGED <<clock, now, rx, driveCfg, silence, recovered>>

UpTo(n, cap) == IF n < cap THEN n ELSE cap

Advance ==
  /\ phase # "setup"
  /\ Elapsed(clock, now) < MaxPass
  /\ clock' = NextMs(clock)
  /\ silence' = UpTo(silence + 1, LongSilence)
  /\ recovered' = IF silence' = LongSilence THEN 0 ELSE UpTo(recovered + 1, ArmHold)
  /\ UNCHANGED <<now, phase, rx, inputs, driveCfg, driveOutputs, motor, servo, waived>>

Next == \/ Setup \/ BeginPass
        \/ SetRx \/ SetDrive \/ SetMotor \/ SetServo \/ Restore
        \/ TickHeard \/ TickSilent \/ Advance

Spec == Init /\ [][Next]_vars
-----------------------------------------------------------------------------
TypeOK ==
  /\ clock \in Time /\ now \in Time
  /\ phase \in {"setup", "top", "body"}
  /\ motor \in [Motors -> DriverSpace]
  /\ servo \in Servo!ServoSpace
  /\ inputs \in [vals : [Channels -> PulseUs], fresh : Time]
  /\ driveOutputs \in [vals : [0 .. 4 -> PulseUs], fresh : Time]
  /\ driveCfg \in DriveParamSpace
  /\ silence \in 0 .. LongSilence
  /\ recovered \in 0 .. ArmHold
  /\ waived \subseteq Motors

Moving(i) == ~Disabled(motor[i].cfg) /\ ~AtNeutral(motor[i])

FollowsLink(i) == motor[i].cfg.mode = "input"

(* docs/reference/arming-and-modes.md: disarmed, the motors cannot turn,     *)
(* whatever the sticks, the modes and the arm states are.                  *)
SwitchStops ==
  phase = "top" /\ driveOutputs.vals[ArmSlot] = 0 => \A i \in Motors : ~Moving(i)

(* Nothing the link drives outlives it, and after a long silence nothing    *)
(* moves again without a hold, but what waived its hold: what FailSafe        *)
(* promises.  When the clock wraps a stale stamp looks fresh again for       *)
(* RxStale, and the mixer's own for InputStale more; a hold may begin in     *)
(* that phantom link, so what a returning link is sure to cost is the hold   *)
(* less those, and less the three passes by which stamps lag.               *)
AssuredHold == ArmHold - (RxStale + InputStale + 3 * MaxPass)

Promise ==
  INSTANCE FailSafe WITH
    Outputs   <- Motors,
    moving    <- {i \in Motors : FollowsLink(i) /\ Moving(i)},
    Limit     <- RxStale + 2 * MaxPass,
    Long      <- LongSilence,
    Hold      <- AssuredHold,
    recovered <- UpTo(recovered, AssuredHold)

ImplementsFailSafe == Promise!Spec

(* drive_driver.cpp: a stale link never leaves the mixer commanding motion;  *)
(* a lost one is lost until a frame arrives.                               *)
SilentMixerCentred ==
  phase = "top" /\ silence >= RxStale + MaxPass =>
    /\ driveOutputs.vals[LeftSlot] \in {0, CenterUs}
    /\ driveOutputs.vals[RightSlot] \in {0, CenterUs}

(* A slot of the receiver's bus that carries no data moves nothing.         *)
NoDataNoMotion ==
  phase = "top" /\ inputs.vals = NoData => \A i \in Motors : FollowsLink(i) => ~Moving(i)

(* arming-and-modes.md, "The link-loss clamp": the outputs go to neutral once *)
(* frames stop for longer than the protocol's timeout.                     *)
TimeoutStops ==
  phase = "top" /\ silence > rx.cfg.timeout + MaxPass => \A i \in Motors : ~Moving(i)

(* arming-and-modes.md, "Arm-hold": flipping the switch with the stick away  *)
(* from neutral does not start the vehicle.                                *)
ArmingNeverLurches ==
  [][driveOutputs.vals[ArmSlot] = 0 /\ driveOutputs'.vals[ArmSlot] = 1
       => \A i \in Motors : ~Moving(i)']_vars

(* servo_params.cpp: the reading is the commanded pulse, or 0 when detached. *)
ServoReadingHonest == servo.attached => servo.us = servo.compare
=============================================================================
