SPECIFICATION Spec
CONSTANTS
  Wrap = 9
  ArmHold = 4
  InputStale = 2
  MaxPass = 2
  HasDrive = TRUE
  MotorParams <- MCParams
  ChannelUs = {1470, 2500}
INVARIANTS FrameLeavesLow
