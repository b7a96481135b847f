SPECIFICATION Spec
CONSTANTS
  SectorSizes <- MCSectorSizes
  BlockUnits = 2
  ImageLengths = {1, 2, 3, 5, 7}
  MaxFaults = 2
INVARIANTS DoneIsWholeImage NothingSpoilt MagicIsAsked
PROPERTIES OnlyItsSectors FlashEnds
