SPECIFICATION Spec
CONSTANTS
  Wrap = 6
  Protocols = {"elrs"}
  Timeouts <- MCOneTimeout
  Sources = {"uart", "sim"}
  MaxTimeout = 1
  WindowMs = 3
  SimMs = 2
  RingFrames = 2
  MaxPass = 1
  MaxErr = 1
PROPERTIES
  DeadRadioIsDown
