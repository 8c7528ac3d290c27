SPECIFICATION ConsumerFairSpec
CONSTANTS
  Exchanges = {"feed1", "available", "obsolete", "", "no source", "bad id"}
  Sources = {"feed1"}
  OtherBodies = {"no source", "bad id"}
  OtherType = {""}
  NamedQueues = {"available", "obsolete"}
  GeneratedNames = {"gen1", "gen2"}
  MaxCalls = 0
  MaxMessages = 3
  MaxFrames = 1
  MaxFailures = 1
  BrokerRestarts = TRUE
INVARIANTS
  ConsumerTypeOK
  RegisteredIsListenedTo
  AvailableIsAcknowledged
PROPERTY
  AnnouncementIsHandled
