SPECIFICATION Spec
CONSTANTS
  Wrap = 11
  ArmHold = 9
  InputStale = 2
  RxStale = 2
  MaxPass = 1
  HasDrive = TRUE
  Configs <- MCBench
  Frames <- MCOn
PROPERTIES
  ImplementsFailSafe
