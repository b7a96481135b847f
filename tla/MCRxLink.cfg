SPECIFICATION FairSpec
CONSTANTS
  Wrap = 4
  Protocols = {"elrs", "crossfire"}
  Timeouts <- MCTimeouts
  Sources = {"uart", "sim"}
  MaxTimeout = 2
  WindowMs = 2
  SimMs = 2
  RingFrames = 2
  MaxPass = 1
  MaxErr = 1
INVARIANTS
  RateMeasured
  ShownIsReal
PROPERTIES
  LinkHonest
  SilenceIsNoticed
