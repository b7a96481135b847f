------------------------------ MODULE MCSession ------------------------------
EXTENDS Session, TLC

MCFactory == [k \in Keys |-> 0]

(* Handlers are alike, and so are the keys of these defaults.               *)
Alike == Permutations(Tasks) \cup Permutations(Keys)
=============================================================================
