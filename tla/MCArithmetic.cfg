SPECIFICATION Spec
CONSTANTS
  Sticks = {880, 988, 1000, 1250, 1499, 1500, 1501, 1777, 2000, 2012, 2160}
  Percents = {0, 33, 67, 100}
  ParamCounts = {0, 1, 2}
  TlmCounts = {0, 1, 2}
  MaxAdds = 4
  MaxModules = 3
  MaxParams = 3
  MaxTlm = 3
  MaxLines = 2
  Wire = {200, 2, 3, 4, 105, 127, 255}
  MaxLen = 4
  Payloads <- MCPayloads
  Letters = {"a", "b"}
  Chunks <- MCChunks
  MaxLineIn = 2
  MaxTyped = 4
  MaxSent = 2
  MaxText = 7
INVARIANTS
  ClampIsProportional
  ReverseMirrors
  RegistryHonest
  FramesAreWhole
  ChannelsAreSlices
  LinesAreWhole
