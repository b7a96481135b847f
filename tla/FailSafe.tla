------------------------------- MODULE FailSafe -------------------------------
(***************************************************************************)
(* What the vehicle promises about its radio link, with none of the        *)
(* machinery: an output moves only while the link was heard from recently,  *)
(* and after a long silence only once the link has been back for a whole    *)
(* hold.  Two things waive the hold: one that ran on the bench, and a        *)
(* command that is newer than the pass handling it.  A waived output still  *)
(* stops; but a silence so long that its age can no longer be told from a    *)
(* short one may find it moving.                                           *)
(***************************************************************************)
EXTENDS Naturals

CONSTANTS
  Outputs,
  Limit,        \* silence after which nothing moves
  Long,         \* silence after which moving again costs a hold
  Hold          \* milliseconds that hold takes

VARIABLES
  moving,       \* the outputs that command motion
  waived,       \* the outputs whose hold is waived
  silence,      \* milliseconds since a frame was last applied, up to Long
  recovered     \* milliseconds since the silence last was Long, up to Hold

vars == <<moving, waived, silence, recovered>>

TypeOK ==
  /\ moving \subseteq Outputs /\ waived \subseteq Outputs
  /\ silence \in 0 .. Long /\ recovered \in 0 .. Hold

Init == moving = {} /\ waived = {} /\ silence = Long /\ recovered = 0

UpTo(n, cap) == IF n < cap THEN n ELSE cap

(* Whether the outputs in m may move, w waived, after such a silence.       *)
MayMove(m, w, quiet, back) ==
  /\ m # {} => quiet < Limit \/ quiet = Long
  /\ m \subseteq w \/ (quiet < Limit /\ back >= Hold)

(* A millisecond passes; the outputs are stopped in time, none is waived.   *)
Millisecond ==
  /\ silence' = UpTo(silence + 1, Long)
  /\ recovered' = IF silence' = Long THEN 0 ELSE UpTo(recovered + 1, Hold)
  /\ UNCHANGED <<moving, waived>>
  /\ MayMove(moving, waived, silence', recovered')

(* A frame is applied, or the outputs change without one.                   *)
Hear ==
  /\ silence' = 0
  /\ recovered' = recovered
  /\ moving' \subseteq Outputs
  /\ waived' \subseteq Outputs
  /\ MayMove(moving', waived', 0, recovered)

Command ==
  /\ UNCHANGED <<silence, recovered>>
  /\ moving' \subseteq Outputs
  /\ waived' \subseteq Outputs
  /\ MayMove(moving', waived', silence, recovered)

Next == Millisecond \/ Hear \/ Command

Spec == Init /\ [][Next]_vars
-----------------------------------------------------------------------------
(* The two promises.  Silence stops: nothing moves once the link has been    *)
(* silent for Limit; only an output whose hold was waived may move again      *)
(* once the silence is Long.                                               *)
SilenceStops ==
  silence >= Limit => /\ moving \subseteq waived
                      /\ silence < Long => moving = {}

(* Silence costs a hold: after a long one, nothing moves until the link has  *)
(* been back for Hold, but what was waived.                                *)
SilenceCostsAHold == recovered < Hold => moving \subseteq waived
=============================================================================
