SPECIFICATION FairSpec
CONSTANTS
  Sources <- TwoSources
  MaxSizePerQue = 1
  MaxFrames = 2
  FrameKinds = {"decoded", "faulty"}
  Strategies = {"order"}
PROPERTY
  EveryFrontAnswered
