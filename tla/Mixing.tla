------------------------------- MODULE Mixing -------------------------------
(***************************************************************************)
(* mix() (drive_math.cpp) over everything a pilot can ask of it: two sticks  *)
(* that move, three ratios that are changed one at a time as drive.*         *)
(* parameters, and the two tracks that come out.                            *)
(***************************************************************************)
EXTENDS DriveMath

CONSTANTS
  Sticks,           \* what a channel may carry, in microseconds
  Percents          \* what a ratio may be set to

ASSUME MixingAssumption ==
  CenterUs \in Sticks /\ Sticks \subseteq Int /\ 100 \in Percents /\ Percents \subseteq Int

VARIABLES throttle, steer, ratios

mixVars == <<throttle, steer, ratios>>

MixInit ==
  /\ throttle = CenterUs /\ steer = CenterUs
  /\ ratios = [forward |-> 100, reverse |-> 100, steer |-> 100]

MoveThrottle == throttle' \in Sticks /\ UNCHANGED <<steer, ratios>>

MoveSteer == steer' \in Sticks /\ UNCHANGED <<throttle, ratios>>

SetRatio ==
  /\ \E r \in DOMAIN ratios, p \in Percents : ratios' = [ratios EXCEPT ![r] = p]
  /\ UNCHANGED <<throttle, steer>>

MixNext == MoveThrottle \/ MoveSteer \/ SetRatio

MixSpec == MixInit /\ [][MixNext]_mixVars
-----------------------------------------------------------------------------
Magnitude(x) == IF x < 0 THEN -x ELSE x

(* What the tracks would be without the stops, off centre.                  *)
Left  == ThrottleOffset(throttle, ratios.forward, ratios.reverse) + SteerOffset(steer, ratios.steer)
Right == ThrottleOffset(throttle, ratios.forward, ratios.reverse) - SteerOffset(steer, ratios.steer)

Tracks == Mix(throttle, steer, ratios, 0)

(* How far the track that asks for more goes, and no less than the stop.     *)
Most ==
  LET farther == IF Magnitude(Left) > Magnitude(Right) THEN Magnitude(Left) ELSE Magnitude(Right)
  IN  IF farther > 500 THEN farther ELSE 500

(* Off centre, out is 500/m of offset: whole percents cost a hundredth of it *)
(* and a microsecond.                                                       *)
Near(out, offset, m) ==
  100 * Magnitude((out - CenterUs) * m - 500 * offset) <= m * (Magnitude(offset) + 100)

(* drive_math.h's proportional clamp, exactly: the larger track is brought   *)
(* to the stop and the other shrinks in proportion, so the turn survives.   *)
ClampIsProportional == Near(Tracks.left, Left, Most) /\ Near(Tracks.right, Right, Most)

(* Reversing both sticks reverses both tracks to the microsecond, when the   *)
(* two directions are capped alike: a vehicle backs along the line it came.  *)
ReverseMirrors ==
  ratios.forward = ratios.reverse =>
    LET back == Mix(2 * CenterUs - throttle, 2 * CenterUs - steer, ratios, 0)
    IN  /\ back.left - CenterUs = CenterUs - Tracks.left
        /\ back.right - CenterUs = CenterUs - Tracks.right
=============================================================================
