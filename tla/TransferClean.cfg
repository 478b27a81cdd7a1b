SPECIFICATION FairSpec
CONSTANTS
  m1 = m1
  m2 = m2
  m3 = m3
  k1 = k1
  k2 = k2
  alice = alice
  bob = bob
  GroupMsg = {m3}
  OfBob = {m2}
  Msg = {m1, m2, m3}
  Key = {k1, k2}
  Conv <- MCConv
  User = {alice, bob}
  Partition = {1}
  Channel = {1, 2}
  KeyOf <- MCKeyOf
  ChatConv <- MCChatConv
  NotifConv <- MCNotifConv
  ConvKey <- MCConvKey
  SendID <- MCSendID
  PartitionOf <- MCPartitionOf
  ChannelOf <- MCChannelOf
  NotNotification = {m1, m3}
  History = {m1, m2}
  SendMsgOpt = {m2}
  Reaction = {}
  ChanCap = 1
  Split = 2
  SingleGocMsgNum = 2
  MaxFaults = 0
  MaxCrashes = 0
  MaxSession = 1
INVARIANTS NumberedInSendOrder NoGap ConversationBeforePush
 
CHECK_DEADLOCK FALSE
