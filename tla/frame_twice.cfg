SPECIFICATION ConsumerSpec
CONSTANTS
  Exchanges = {"feed1", "available", "obsolete", ""}
  Sources = {"feed1"}
  OtherBodies = {}
  OtherType = {""}
  NamedQueues = {"available", "obsolete"}
  GeneratedNames = {"gen1", "gen2"}
  MaxCalls = 0
  MaxMessages = 3
  MaxFrames = 1
  MaxFailures = 1
  BrokerRestarts = TRUE
INVARIANT
  FrameIsQueuedOnce
