------------------------------- MODULE MCMotor -------------------------------
EXTENDS Motor

(* A calibration, then what a configuration varies on it. *)
Param(type, mode, src) ==
  [type |-> type, mode |-> mode, throttle |-> 1500, min |-> 1000, max |-> 2000,
   src |-> src, rate |-> 50, invert |-> FALSE, brake |-> TRUE]

(* The span and the frame at their limits. *)
Wide(rate, invert) ==
  [Param("brushless", "input", 0) EXCEPT
     !.min = 500, !.max = 2500, !.rate = rate, !.invert = invert]

MCParams ==
  { Param("none", "input", 0),
    Param("brushless", "off", 0),
    Param("brushless", "input", 12),
    Param("brushed", "input", 0),
    [Param("brushless", "armed", 0) EXCEPT !.throttle = 2000],
    [Param("brushless", "input", 0) EXCEPT !.invert = TRUE, !.min = 500, !.max = 2441],
    Wide(400, TRUE) }
=============================================================================
