SPECIFICATION Spec
CONSTANTS
  Wrap = 4
  ArmHold = 2
  InputStale = 2
  RxStale = 2
  MaxPass = 1
  HasDrive = TRUE
  Configs <- MCModes
  Frames <- MCDriven
INVARIANTS
  SwitchStops
VIEW Program
