SPECIFICATION Spec
CONSTANTS
  Wrap = 12
  ArmHold = 7
  InputStale = 3
  RxStale = 3
  MaxPass = 1
  HasDrive = TRUE
  Configs <- MCSkid
  Frames <- MCStick
PROPERTIES
  ArmingNeverLurches
\* or INVARIANTS SilentMixerCentred, or INVARIANTS TimeoutStops
