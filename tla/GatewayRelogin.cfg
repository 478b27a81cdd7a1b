SPECIFICATION Spec
CONSTANTS
  n1 = n1
  n2 = n2
  n3 = n3
  c1 = c1
  c2 = c2
  c3 = c3
  alice = alice
  bob = bob
  phone = phone
  pc = pc
  Conn = {n1, n2, n3}
  Client = {c1, c2, c3}
  User = {alice, bob}
  Platform = {phone, pc}
  Token <- MCToken
  UserOf <- MCUserOf
  PlatformOf <- MCPlatformOf
  TokenOf <- MCTokenOf
  Remote <- MCRemote
  k1 = k1
  Kick = {}
  KickUser <- MCKickUser
  KickPlatform <- MCKickPlatform
  KickPolicy = "sameTerminal"
  PC = {pc}
  Quits = {}
  Early = FALSE
  Asks = {n1}
  Reuse = FALSE
  MaxFaults = 1
  MaxConn = 3
  ChanCap = 3
  Bobs = {}
  Pcs = {}
  Shared = {n1, n2}
  RemoteUsers = {alice}
INVARIANTS TableHoldsOpen ConnNumCountsOpen SameTerminalExclusive ReplacedTokenDead
SYMMETRY MCClients
CHECK_DEADLOCK FALSE
