SPECIFICATION Spec
CONSTANTS
  Wrap = 5
  ArmHold = 2
  InputStale = 2
  RxStale = 2
  MaxPass = 1
  HasDrive = TRUE
  Configs <- MCTrims
  Frames <- MCDriven
INVARIANTS
  ServoReadingHonest
