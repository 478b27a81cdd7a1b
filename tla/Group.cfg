SPECIFICATION Spec
CONSTANTS
  own = own
  adm = adm
  usr = usr
  User = {own, adm, usr}
  Call = {c1, c2}
  Scenario <- MCScenario
  MaxMsgs = 2
INVARIANTS CacheFresh   SilencedCannotSend
CHECK_DEADLOCK FALSE
