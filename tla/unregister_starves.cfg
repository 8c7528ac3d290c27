SPECIFICATION FairSpec
CONSTANTS
  Sources <- TwoSources
  MaxSizePerQue = 1
  MaxFrames = 1
  FrameKinds = {"decoded"}
  Strategies = {"order"}
PROPERTY
  UnregisterCompletes
