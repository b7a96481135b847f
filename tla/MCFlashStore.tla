---------------------------- MODULE MCFlashStore ----------------------------
EXTENDS FlashStore

MCBuilds == {"full", "widened", "lean"}

(* Three builds: two parameters, the first with a wider range, and the      *)
(* second alone.                                                           *)
MCLayout == [b \in MCBuilds |-> IF b = "lean" THEN <<"rate">> ELSE <<"trim", "rate">>]

MCAccepts == [b \in MCBuilds |->
  [k \in {"trim", "rate"} |-> CASE k = "trim" /\ b = "widened" -> {0, 1, 2}
                                [] k = "trim" /\ b # "widened" -> {0, 1}
                                [] k = "rate" -> {1, 2}]]

MCDefault == [b \in MCBuilds |->
  [k \in {MCLayout[b][i] : i \in 1 .. Len(MCLayout[b])} |-> IF k = "trim" THEN 0 ELSE 1]]
=============================================================================
