\* DirtyHonest: a set during a revert's reload.  Without "revert" in Ops: Timeouts = TRUE
\* shows a set that timed out, MayDisconnect = TRUE one that the Disconnect button hides.
\* ReconnectsOnOneClick: a write that fails while the cable is out.
SPECIFICATION Spec
CONSTANTS
  Keys = {a}
  Values = {0, 1}
  Factory <- MCFactory
  Nothing = Nothing
  Tasks = {t1, t2}
  Ops = {"set", "save", "revert"}
  MaxId = 5
  MaxWire = 3
  Timeouts = FALSE
  MayUnplug = TRUE
  MayDisconnect = FALSE
  OwnPower = {FALSE}
INVARIANTS
  DirtyHonest
\* or ReconnectsOnOneClick
