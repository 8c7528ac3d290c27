SPECIFICATION PublisherFairSpec
CONSTANTS
  Exchanges = {"out0", "out1", "out2"}
  WarmUp = "out0"
  OtherType = {}
  NamedQueues = {}
  GeneratedNames = {}
  MaxCalls = 0
  MaxResults = 2
  MaxFailures = 1
  BrokerRestarts = TRUE
INVARIANTS
  PublisherTypeOK
  DeliveredInOrderOnce
PROPERTY
  ResultIsPublished
