------------------------------ MODULE MCRxLink ------------------------------
(* Small instances of RxLink: one protocol has two timeouts to choose from. *)
EXTENDS RxLink

MCTimeouts ==
  {[elrs |-> 1, crossfire |-> 2], [elrs |-> 2, crossfire |-> 2]}
MCOneTimeout == {[elrs |-> 1]}
=============================================================================
