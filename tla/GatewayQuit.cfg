SPECIFICATION Spec
CONSTANTS
  n1 = n1
  n2 = n2
  n3 = n3
  c1 = c1
  c2 = c2
  c3 = c3
  alice = alice
  bob = bob
  phone = phone
  pc = pc
  Conn = {n1, n2, n3}
  Client = {c1, c2, c3}
  User = {alice, bob}
  Platform = {phone, pc}
  Token <- MCToken
  UserOf <- MCUserOf
  PlatformOf <- MCPlatformOf
  TokenOf <- MCTokenOf
  Remote <- MCRemote
  k1 = k1
  Kick = {}
  KickUser <- MCKickUser
  KickPlatform <- MCKickPlatform
  KickPolicy = "none"
  PC = {pc}
  Quits = {n1, n2, n3}
  Early = FALSE
  Asks = {n1, n3}
  Reuse = TRUE
  MaxFaults = 1
  MaxConn = 2
  ChanCap = 3
  Bobs = {n3}
  Pcs = {n2}
  Shared = {}
  RemoteUsers = {}
INVARIANTS TypeOK GaugeCountsUsers StatusInSync 
SYMMETRY MCClients
CHECK_DEADLOCK FALSE
