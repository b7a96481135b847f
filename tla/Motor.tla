-------------------------------- MODULE Motor --------------------------------
(***************************************************************************)
(* One motor output inside the firmware's loop.  loop() reads millis() once *)
(* at its top, handles the commands waiting on the serial port, and then   *)
(* ticks the modules with that one reading; a command that reaches          *)
(* MotorDriver::apply reads millis() again.  The producers of the two buses *)
(* (rx and drive, both registered before the motors) are the environment:  *)
(* they publish before the motor's tick of the same pass.                  *)
(***************************************************************************)
EXTENDS MotorDriver

CONSTANTS
  MotorParams,      \* the configurations a client may store
  ChannelUs,        \* what a channel may read once a frame was decoded
  MaxPass           \* a pass of loop() lasts at most this many milliseconds

ASSUME MotorAssumption ==
  /\ MotorParams \subseteq MotorParamSpace
  /\ MotorParams # {}
  /\ ChannelUs \subseteq PulseUs \ {0}
  /\ ChannelUs # {}
  /\ MaxPass \in Nat \ {0}
  /\ MaxPass < ArmHold
  /\ ArmHold + MaxPass < Wrap

VARIABLES
  clock,            \* millis()
  now,              \* loop()'s local: millis() at the top of the pass
  phase,            \* setup(), the top of loop(), or inside a pass
  inputs,           \* rx's bus
  driveOutputs,     \* drive's bus
  motor,            \* the driver
  lowFor            \* history: real milliseconds since the hold last had to
                    \* restart, up to ArmHold

vars == <<clock, now, phase, inputs, driveOutputs, motor, lowFor>>

RawSlots   == {p.src : p \in {q \in MotorParams : q.src < DriveSrcBase}}
MotorSlots == {p.src - DriveSrcBase : p \in {q \in MotorParams : q.src >= DriveSrcBase}}
DriveSlots == MotorSlots \cup {ArmSlot}
EmptyBus(slots) == [vals |-> [s \in slots |-> 0], fresh |-> 0]

Bus(slots, values) == [vals : [slots -> values], fresh : Time]

TypeOK ==
  /\ clock \in Time
  /\ now \in Time
  /\ phase \in {"setup", "top", "body"}
  /\ inputs \in Bus(RawSlots, ChannelUs \cup {0})
  /\ driveOutputs \in Bus(DriveSlots, ChannelUs \cup {0, 1, 1500})
  /\ motor \in DriverSpace
  /\ lowFor \in 0 .. ArmHold

Init ==
  /\ clock \in Time
  /\ now = 0
  /\ phase = "setup"
  /\ inputs = EmptyBus(RawSlots)
  /\ driveOutputs = EmptyBus(DriveSlots)
  /\ motor = BootMotor
  /\ lowFor = 0
-----------------------------------------------------------------------------
(* The history restarts exactly where the code says the hold must: on every *)
(* evaluation that starts the hold or finds the command away from neutral.  *)
NextLowFor(m, at, in, drv) ==
  IF motor.arm = "ARMING" /\ m.arm = "ARMING" /\ CommandedLow(m.cfg, at, in, drv)
  THEN lowFor ELSE 0

(* setup() notifies every module with the stored parameters.               *)
Setup ==
  /\ phase = "setup"
  /\ \E p \in MotorParams :
       motor' = Apply(motor, p, clock, inputs, driveOutputs)
  /\ lowFor' = 0
  /\ phase' = "top"
  /\ UNCHANGED <<clock, now, inputs, driveOutputs>>

BeginPass ==
  /\ phase = "top"
  /\ now' = clock
  /\ phase' = "body"
  /\ UNCHANGED <<clock, inputs, driveOutputs, motor, lowFor>>

(* set, defaults or revert: any of the stored parameters may have changed.   *)
(* The pass may have read its own millis() a while ago.                     *)
Command ==
  /\ phase = "body"
  /\ \E p \in MotorParams :
       /\ motor' = Apply(motor, p, clock, inputs, driveOutputs)
       /\ lowFor' = NextLowFor(motor', clock, inputs, driveOutputs)
  /\ UNCHANGED <<clock, now, phase, inputs, driveOutputs>>

(* rx decodes a frame; or none came and its channels hold, or a change of    *)
(* protocol or source has emptied them, under the stamp of the last frame.   *)
Published ==
  {inputs, [inputs EXCEPT !.vals = EmptyBus(RawSlots).vals]}
    \cup [vals : [RawSlots -> ChannelUs], fresh : {now}]

(* drive mixes a live link into the motor slots and publishes the switch;   *)
(* on a dead link it centres the motor slots, takes the steering slot's     *)
(* data away, disarms and leaves its bus stale.                            *)
Mixed(in) ==
  IF LinkFresh(in.fresh, now, InputStale)
  THEN {[vals  |-> [s \in DriveSlots |-> IF s = ArmSlot THEN armed ELSE us[s]],
         fresh |-> now] : us \in [MotorSlots -> ChannelUs], armed \in {0, 1}}
  ELSE {[vals  |-> [s \in DriveSlots |-> IF s \in {LeftSlot, RightSlot} THEN 1500 ELSE 0],
         fresh |-> driveOutputs.fresh]}

Tick ==
  /\ phase = "body"
  /\ inputs' \in Published
  /\ driveOutputs' \in Mixed(inputs')
  /\ motor' = TickMotor(motor, now, inputs', driveOutputs')
  /\ lowFor' = NextLowFor(motor', now, inputs', driveOutputs')
  /\ phase' = "top"
  /\ UNCHANGED <<clock, now>>

Advance ==
  /\ phase # "setup"
  /\ Elapsed(clock, now) < MaxPass
  /\ clock' = NextMs(clock)
  /\ lowFor' = IF motor.arm = "ARMING" /\ lowFor < ArmHold THEN lowFor + 1 ELSE lowFor
  /\ UNCHANGED <<now, phase, inputs, driveOutputs, motor>>

Next == Setup \/ BeginPass \/ Command \/ Tick \/ Advance

Spec == Init /\ [][Next]_vars

(* The loop never stops, be it in setup(), between two passes or inside one,  *)
(* and time passes; clients promise nothing.                                *)
LoopGoesOn == phase' = IF phase = "top" THEN "body" ELSE "top"
TimePasses == clock' = NextMs(clock)

FairSpec == Spec /\ WF_phase(LoopGoesOn) /\ WF_clock(TimePasses)
-----------------------------------------------------------------------------
(* The pins follow the configuration: an output that is off, or has no      *)
(* type, runs no timer channel at all and reads 0, and an enabled one runs  *)
(* its own stage and never the other one beside it.                        *)
PinsFollowConfig ==
  IF Disabled(motor.cfg)
  THEN motor.driving = {} /\ motor.arm = "OFF" /\ motor.lastUs = 0
  ELSE motor.driving = {StageOf(motor.cfg.type)} /\ motor.arm # "OFF"

(* Until the hold is complete the pin carries neutral, whatever the client, *)
(* the radio and the previous electronics type left on it.                  *)
NeutralUntilArmed ==
  ~Disabled(motor.cfg) /\ motor.arm # "ARMED" => AtNeutral(motor)

(* No pass ends with an input-mode output running on a link that was dead   *)
(* in that pass.                                                           *)
DeadLinkIsNeutral ==
  phase = "top" /\ ~Disabled(motor.cfg) /\ motor.cfg.mode = "input"
    /\ ~InputFresh(motor.cfg, now, inputs, driveOutputs)
  => motor.arm = "ARMING" /\ AtNeutral(motor)

(* motor0_driver.cpp, tick: no command handed to an ESC outruns the frame it   *)
(* is sent in, through changes of rate and type, and while a channel without   *)
(* data leaves the last command where it was.                               *)
CommandLeavesLow ==
  "esc" \in motor.driving =>
    motor.lastUs + MinLowUs <= FrameUsForRate(motor.cfg.rate)

(* motor_math.h: the ESC always sees a pulse train, never a line held high.   *)
(* The pulse on the pin, which inversion has mirrored.                      *)
FrameLeavesLow ==
  "esc" \in motor.driving =>
    motor.pulse + MinLowUs <= FrameUsForRate(motor.cfg.rate)

(* motor_math.h: ARMING holds until the command has been at neutral for the *)
(* whole hold.  lowFor is real time; the loop's stamps are up to a pass old. *)
ArmHoldRespected ==
  [][motor.arm # "ARMED" /\ motor'.arm = "ARMED" => lowFor + MaxPass >= ArmHold]_vars

(* The stamp of the hold lies after the reading that the pass's tick will     *)
(* compare it with: a command stamped it in a later millisecond.             *)
Ahead == Elapsed(clock, motor.t0) < Elapsed(clock, now)

(* There is one way around the hold: a stamp that a command left ahead of the *)
(* pass it came in, and that the tick of the same pass still finds there.     *)
HoldUnlessAhead ==
  [][motor.arm # "ARMED" /\ motor'.arm = "ARMED" =>
       \/ lowFor + MaxPass >= ArmHold
       \/ phase = "body" /\ Ahead /\ motor'.t0 = motor.t0]_vars

(* An output that stays armed in input mode is never re-pointed, re-timed   *)
(* or re-wired under the pilot: any of them costs a fresh hold.             *)
ChangeCostsAHold ==
  [][motor.arm = "ARMED" /\ motor'.arm = "ARMED" /\ motor'.cfg # motor.cfg =>
       /\ motor'.cfg.rate = motor.cfg.rate
       /\ motor'.cfg.type = motor.cfg.type
       /\ motor'.cfg.mode = "input" => motor'.cfg.src = motor.cfg.src]_vars

(* A command that stays at neutral is honoured in the end: the hold, which   *)
(* is restarted by so many events, always completes.                       *)
HoldCompletes ==
  ~<>[](motor.arm = "ARMING" /\ CommandedLow(motor.cfg, now, inputs, driveOutputs))
=============================================================================
