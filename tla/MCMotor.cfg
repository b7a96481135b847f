SPECIFICATION FairSpec
CONSTANTS
  Wrap = 7
  ArmHold = 4
  InputStale = 3
  MaxPass = 2
  HasDrive = TRUE
  MotorParams <- MCParams
  ChannelUs = {1470, 2500}
INVARIANTS
  TypeOK
  PinsFollowConfig
  NeutralUntilArmed
  DeadLinkIsNeutral
  CommandLeavesLow
PROPERTIES
  HoldUnlessAhead
  ChangeCostsAHold
  HoldCompletes
