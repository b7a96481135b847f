SPECIFICATION Spec
CONSTANTS
  Wrap = 10
  ArmHold = 5
  InputStale = 2
  RxStale = 2
  MaxPass = 1
  HasDrive = TRUE
  Configs <- MCNone
  Frames <- MCFrames
INVARIANTS
  NoDataNoMotion
