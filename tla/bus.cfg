SPECIFICATION FairSpec
CONSTANTS
  Exchanges = {"feed", "sources"}
  OtherType = {"sources"}
  NamedQueues = {"named"}
  GeneratedNames = {"gen1", "gen2", "gen3"}
  MaxCalls = 4
  MaxFailures = 2
  BrokerRestarts = TRUE
INVARIANTS
  TypeOK
  NothingForgotten
  CallsAreInEffect
  OneQueuePerCall
  BindedQueuesExist
PROPERTIES
  RestoresCalls
  Recovers
