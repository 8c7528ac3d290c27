SPECIFICATION Spec
CONSTANTS
  Sources <- TwoSources
  MaxSizePerQue = 2
  MaxFrames = 2
  FrameKinds = {"decoded"}
  Strategies = {"order"}
INVARIANT
  NoEndDereference
