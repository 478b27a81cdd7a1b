SPECIFICATION FairSpec
CONSTANTS
  alice = alice
  bob = bob
  Quoting = FALSE
  User = {alice, bob}
  c1 = c1
  c2 = c2
  Call = {c1, c2}
  Scenario <- LiveScenario
  Consumer = consumer
  MaxMsgs = 3
  MaxBatch = 3
  DocSize = 2
  PageLimit = 3
  Sender <- MCSender
  Quote <- MCQuote
  MaxRedeliver = 0
CHECK_DEADLOCK FALSE
PROPERTIES EveryCallReturns EverythingStored
