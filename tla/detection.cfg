SPECIFICATION FairSpec
CONSTANTS
  Sources <- TwoSources
  MaxSizePerQue = 2
  MaxFrames = 3
  FrameKinds = {"decoded", "faulty"}
  Strategies = {"order", "load"}
INVARIANTS
  TypeOK
  QueueBound
  FrontIsProcessed
  MapsAgree
  QueueMutexHolders
  ResultsInOrder
  WaitingIsNewer
PROPERTIES
  AbstractSpec
  HealthyFrontAnswered
