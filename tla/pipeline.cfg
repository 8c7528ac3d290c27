SPECIFICATION FairSpec
CONSTANTS
  NoSrcId = NoSrcId
  LastClass = 1
  Leftovers <- SomeLeftovers
  Files <- SomeFiles
  SRC = 99
  Video <- ParkVideo
  MaxSent = 2
  MaxSizePerQue = 1
  Starts <- SomeStarts
  OtherMessages <- Others
  MaxOthers = 1
  SetterCalls <- SomeCalls
CHECK_DEADLOCK FALSE
INVARIANTS
  PipelineTypeOK
  AnswersShowThePicture
  ClearObjectsAreAnswered
  KeptAreNotAnswered
  ReceivedInOrder
  EnvironmentNeverDecides
  FilterFollowsCalls
PROPERTIES
  QueuedIsReceived
  AnnouncedIsFed
  PublisherQuits
  ConsumerQuits
