SPECIFICATION FairSpec
CONSTANTS
  Wrap = 4
  Taps = {0, 1000, 1954}
  SimMvs = {13200}
  Scales = {11000, 11100}
  Selections = {0, 5}
  ConfirmMs = 2
  BatteryFrameMs = 2
  MaxPass = 1
INVARIANTS
  BusIsSelected
PROPERTIES
  CountIsConfirmed
  PackIsCounted
