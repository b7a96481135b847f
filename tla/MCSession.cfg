SPECIFICATION Spec
CONSTANTS
  Keys = {a, b}
  Values = {0, 1}
  Factory <- MCFactory
  Nothing = Nothing
  Tasks = {t1, t2}
  Ops = {"set", "save", "termsave", "defaults", "revert"}
  MaxId = 4
  MaxWire = 2
  Timeouts = TRUE
  MayUnplug = TRUE
  MayDisconnect = TRUE
  OwnPower = {TRUE, FALSE}
INVARIANTS
  AnswersMatch
  ValuesHonest
SYMMETRY Alike
