SPECIFICATION FairSpec
CONSTANTS
  Exchanges = {"feed", "sources"}
  OtherType = {"sources"}
  NamedQueues = {"named"}
  GeneratedNames = {"gen1", "gen2", "gen3"}
  MaxCalls = 1
  MaxFailures = 0
  BrokerRestarts = TRUE
PROPERTY
  ErrorIsRestored
