------------------------------- MODULE Millis -------------------------------
(***************************************************************************)
(* The firmware's only clock.  millis() is a uint32_t that wraps, and every *)
(* timer in the firmware compares differences of two readings, computed in *)
(* unsigned arithmetic.  The modulus is a parameter: 2^32 in the code, small *)
(* in a model, so that a model run goes through the wraparound.            *)
(***************************************************************************)
EXTENDS Naturals

CONSTANT Wrap        \* the modulus of millis()

ASSUME WrapAssumption == Wrap \in Nat \ {0}

Time == 0 .. Wrap - 1

(* The reading one millisecond after t. *)
NextMs(t) == IF t = Wrap - 1 THEN 0 ELSE t + 1

(* The reading d < Wrap milliseconds after t. *)
Later(t, d) == IF t + d >= Wrap THEN (t + d) - Wrap ELSE t + d

(* (uint32_t)(now - then).  A then that lies after now does not give a     *)
(* negative number, it gives one close to Wrap.                            *)
Elapsed(now, then) == IF now >= then THEN now - then ELSE (now + Wrap) - then

(* isLinkFresh and linkFresh: 0 is core::Inputs' "never marked".           *)
LinkFresh(lastFresh, now, stale) ==
  /\ lastFresh # 0
  /\ Elapsed(now, lastFresh) < stale
=============================================================================
