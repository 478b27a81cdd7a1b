SPECIFICATION Spec
CONSTANTS
  alice = alice
  bob = bob
  Quoting = TRUE
  User = {alice, bob}
  c1 = c1
  c2 = c2
  Call = {c1, c2}
  Scenario <- MCScenario
  Consumer = consumer
  MaxMsgs = 3
  MaxBatch = 3
  DocSize = 2
  PageLimit = 3
  Sender <- MCSender
  Quote <- MCQuote
  MaxRedeliver = 1
INVARIANTS Readable MarksLast   DeletedStaysHidden 
CHECK_DEADLOCK FALSE
