SPECIFICATION PublisherSpec
CONSTANTS
  Exchanges = {"out0", "out1", "out2"}
  WarmUp = "out0"
  OtherType = {}
  NamedQueues = {}
  GeneratedNames = {}
  MaxCalls = 0
  MaxResults = 2
  MaxFailures = 2
  BrokerRestarts = TRUE
INVARIANT
  OutputExchangeExists
