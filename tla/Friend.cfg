SPECIFICATION Spec
CONSTANTS
  ann = ann
  bob = bob
  User = {ann, bob}
  Call = {c1, c2, c3}
  FriendVerify = TRUE
  Scenario <- MCScenario
INVARIANTS CacheFresh  FriendsBothWays
CHECK_DEADLOCK FALSE
