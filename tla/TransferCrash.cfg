SPECIFICATION Spec
CONSTANTS
  m1 = m1
  m2 = m2
  m3 = m3
  k1 = k1
  k2 = k2
  alice = alice
  bob = bob
  GroupMsg = {}
  OfBob = {m2}
  Msg = {m1, m2}
  Key = {k1, k2}
  Conv <- MCConv
  User = {alice, bob}
  Partition = {1}
  Channel = {1}
  KeyOf <- MCKeyOf
  ChatConv <- MCChatConv
  NotifConv <- MCNotifConv
  ConvKey <- MCConvKey
  SendID <- MCSendID
  PartitionOf <- MCPartitionOf
  ChannelOf <- MCChannelOf
  NotNotification = {m1}
  History = {m1, m2}
  SendMsgOpt = {m2}
  Reaction = {m2}
  ChanCap = 1
  Split = 2
  SingleGocMsgNum = 2
  MaxFaults = 0
  MaxCrashes = 1
  MaxSession = 2
INVARIANTS TypeOK PushedIsDurable CacheServesIssued
CHECK_DEADLOCK FALSE
