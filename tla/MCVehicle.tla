------------------------------ MODULE MCVehicle ------------------------------
EXTENDS Vehicle

(* Channel 0 steers, 1 is the throttle, 2 the arm switch. *)
Frame(steer, throttle, switch) ==
  [c \in 0 .. 2 |-> CASE c = 0 -> steer [] c = 1 -> throttle [] c = 2 -> switch]

MCFrames == {Frame(1500, 1500, 1800), Frame(1500, 1900, 1800), Frame(1500, 1500, 1000)}
MCOn     == {Frame(1500, 1500, 1800), Frame(1500, 1900, 1800)}
MCStick  == {Frame(1500, 1500, 1000), Frame(1500, 1900, 1000), Frame(1500, 1900, 1800)}
MCDriven == {Frame(1900, 1900, 1800), Frame(1900, 1900, 1000)}

Rx == [protocol |-> "elrs", source |-> "uart", deadband |-> 0, timeout |-> 1]

Full == [forward |-> 100, reverse |-> 100, steer |-> 100]

Drive(mode, armSrc) ==
  [mode |-> mode, throttleSrc |-> 1, steerSrc |-> 0, ratios |-> Full,
   armSrc |-> armSrc, armMin |-> 1700, armMax |-> 2000]

Esc(mode, slot) ==
  [type |-> "brushless", mode |-> mode, throttle |-> 1540, min |-> 1000, max |-> 2000,
   src |-> DriveSrcBase + slot, rate |-> 50, invert |-> FALSE, brake |-> FALSE]

SteeringServo == [min |-> 1000, max |-> 2000, reversed |-> FALSE, trim |-> 0]

Skid(mode0, mode1) ==
  [rx |-> Rx, drive |-> Drive("skid", 3), servo |-> SteeringServo,
   motor |-> [i \in {0, 1} |-> Esc(IF i = 0 THEN mode0 ELSE mode1, i)]]

MCBench == {Skid("input", "off"),
            [Skid("input", "off") EXCEPT !.motor[0].mode = "armed", !.motor[0].throttle = 1500]}
MCReset == {Skid("input", "off"), [Skid("input", "off") EXCEPT !.rx.protocol = "crossfire"]}
MCNone  == {[c EXCEPT !.drive = Drive("skid", 0)] : c \in MCReset}
MCSkid  == {Skid("input", "input")}
MCModes == {Skid("input", "armed"),
            [Skid("input", "armed") EXCEPT !.drive = Drive("car", 3),
                                           !.rx.protocol = "crossfire"]}
MCTrims == {[c EXCEPT !.rx = Rx, !.servo = s] : c \in MCModes,
              s \in {SteeringServo, [SteeringServo EXCEPT !.reversed = TRUE, !.trim = 40]}}

(* The histories decide nothing; SwitchStops does not read them.            *)
Program == <<clock, now, phase, rx, inputs, driveCfg, driveOutputs, motor, servo>>
=============================================================================
