-------------------------- MODULE MsgTransferProofs --------------------------
(***************************************************************************)
(* Proofs about MsgTransfer, for every set of messages, keys, partitions   *)
(* and channels and for any number of faults, crashes and sessions.        *)
(***************************************************************************)
EXTENDS MsgTransfer, TLAPS

\* A batch reaches the channel its key hashes to.  The conversation a goroutine
\* works on is derived from the first message of its batch, so two goroutines
\* never work on the same conversation.
DistRouting  == \A k \in Key : \A n \in 1 .. Len(dist[k]) : KeyOf[dist[k][n]] = k
ChanRouting  == \A i \in Channel : \A j \in 1 .. Len(ch[i]) :
                    ch[i][j] # <<>> /\ ChannelOf[KeyOf[ch[i][j][1]]] = i
BatchRouting == \A i \in Channel :
                    pc[i] # "idle" => batch[i] # <<>> /\ ChannelOf[KeyOf[batch[i][1]]] = i
Routing == DistRouting /\ ChanRouting /\ BatchRouting

TypeInv == TypeOK /\ Routing

-----------------------------------------------------------------------------
(* Facts about sequences and about the helpers.                             *)

LEMMA TailFacts ==
    ASSUME NEW S, NEW s \in Seq(S), s # <<>>
    PROVE  /\ Tail(s) \in Seq(S)
           /\ Len(s) \in Nat \ {0}
           /\ Len(Tail(s)) = Len(s) - 1
           /\ \A j \in 1 .. Len(s) - 1 : j + 1 \in 1 .. Len(s) /\ Tail(s)[j] = s[j + 1]
OBVIOUS

LEMMA AppendFacts ==
    ASSUME NEW S, NEW s \in Seq(S), NEW x \in S
    PROVE  /\ Append(s, x) \in Seq(S)
           /\ Len(Append(s, x)) = Len(s) + 1
           /\ \A j \in 1 .. Len(s) : Append(s, x)[j] = s[j]
           /\ Append(s, x)[Len(s) + 1] = x
OBVIOUS

LEMMA PrefixType ==
    ASSUME NEW S, NEW s \in Seq(S), NEW n \in 0 .. Len(s)
    PROVE  SubSeq(s, 1, n) \in Seq(S)
OBVIOUS

LEMMA UpdateType ==
    ASSUME NEW S, NEW T, NEW f \in [S -> T], NEW x \in S, NEW v \in T
    PROVE  [f EXCEPT ![x] = v] \in [S -> T]
OBVIOUS

LEMMA UpdateType2 ==
    ASSUME NEW R, NEW S, NEW T, NEW f \in [R -> [S -> T]],
           NEW r \in R, NEW x \in S, NEW v \in T
    PROVE  [f EXCEPT ![r][x] = v] \in [R -> [S -> T]]
OBVIOUS

\* The conversation of a goroutine at work is well defined, and belongs to the
\* key whose channel the goroutine serves.
LEMMA WorkConvType ==
    ASSUME TypeInv, NEW i \in Channel, pc[i] # "idle"
    PROVE  /\ WorkConv(i) \in Conv
           /\ ChannelOf[ConvKey[WorkConv(i)]] = i
           /\ WorkPart(i) \in Partition
<1>1. batch[i] \in Seq(Msg) /\ batch[i] # <<>> /\ batch[i][1] \in Msg
  BY DEF TypeInv, TypeOK, WorkOK, Routing, BatchRouting
<1>2. stage[i] \in {"msg", "notif"}
  BY DEF TypeInv, TypeOK, WorkOK
<1>3. WorkConv(i) \in Conv /\ ConvKey[WorkConv(i)] = KeyOf[batch[i][1]]
  BY <1>1, <1>2, ConstantsAssumption, ConvKeyAssumption DEF WorkConv, ConvOf
<1>4. ChannelOf[KeyOf[batch[i][1]]] = i
  BY DEF TypeInv, Routing, BatchRouting
<1> QED BY <1>1, <1>3, <1>4, ConstantsAssumption DEF WorkPart

\* Two goroutines at work are on different conversations.
LEMMA WorkConvDisjoint ==
    ASSUME TypeInv, NEW i \in Channel, NEW j \in Channel,
           pc[i] # "idle", pc[j] # "idle", WorkConv(i) = WorkConv(j)
    PROVE  i = j
BY WorkConvType

LEMMA BatchEntriesType ==
    ASSUME NEW b \in MongoBatch PROVE BatchEntries(b) \subseteq Entry
BY DEF MongoBatch, BatchEntries, Entry

LEMMA OverwriteType ==
    ASSUME NEW S, NEW store \in SUBSET S, NEW new \in SUBSET S
    PROVE  Overwrite(store, new) \subseteq S
BY DEF Overwrite

LEMMA WorkBatchType ==
    ASSUME TypeInv, NEW i \in Channel, pc[i] # "idle"
    PROVE  WorkBatch(i) \in MongoBatch
BY WorkConvType DEF WorkBatch, MongoBatch, TypeInv, TypeOK, WorkOK

-----------------------------------------------------------------------------
(* Type correctness.                                                        *)

LEMMA InitTypeInv == Init => TypeInv
<1> SUFFICES ASSUME Init PROVE TypeInv
  OBVIOUS
<1>1. TypeOK
  BY ConstantsAssumption DEF Init, TypeOK, KafkaOK, IntakeOK, DistOK, ChanOK, WorkOK, MongoOK, RedisOK,
     StoreOK, BoundOK, PCs, Session
<1>2. Routing
  BY DEF Init, Routing, DistRouting, ChanRouting, BatchRouting
<1> QED BY <1>1, <1>2 DEF TypeInv

LEMMA ReceiveType == ASSUME TypeInv, NEW i \in Channel, Receive(i) PROVE TypeInv'
<1> USE ConstantsAssumption DEF TypeInv, TypeOK, Receive
<1>1. ChanOK' /\ WorkOK'
  BY DEF ChanOK, WorkOK, PCs, Goto
<1>2. (KafkaOK /\ IntakeOK /\ DistOK /\ MongoOK /\ RedisOK /\ StoreOK /\ BoundOK)'
  BY DEF KafkaOK, IntakeOK, DistOK, MongoOK, RedisOK, StoreOK, BoundOK, kafkaVars, intakeVars, distVars, redisVars, storeVars, boundVars
<1>3. ChanRouting'
  <2> SUFFICES ASSUME NEW c \in Channel, NEW j \in 1 .. Len(ch'[c])
               PROVE  ch'[c][j] # <<>> /\ ChannelOf[KeyOf[ch'[c][j][1]]] = c
    BY DEF ChanRouting
  <2>1. CASE c = i
    <3>1. ch'[c] = Tail(ch[c]) /\ ch[c] \in Seq(Seq(Msg)) /\ ch[c] # <<>>
      BY <2>1 DEF ChanOK
    <3>2. j + 1 \in 1 .. Len(ch[c]) /\ ch'[c][j] = ch[c][j + 1]
      BY <3>1, TailFacts
    <3> QED BY <3>2 DEF Routing, ChanRouting
  <2>2. CASE c # i
    BY <2>2 DEF ChanOK, Routing, ChanRouting
  <2> QED BY <2>1, <2>2
<1>4. BatchRouting'
  <2> SUFFICES ASSUME NEW c \in Channel, pc'[c] # "idle"
               PROVE  batch'[c] # <<>> /\ ChannelOf[KeyOf[batch'[c][1]]] = c
    BY DEF BatchRouting
  <2>1. CASE c = i
    <3>1. batch'[c] = ch[c][1] /\ 1 \in 1 .. Len(ch[c])
      BY <2>1 DEF ChanOK, WorkOK
    <3> QED BY <3>1 DEF Routing, ChanRouting
  <2>2. CASE c # i
    BY <2>2 DEF WorkOK, Routing, BatchRouting, Goto
  <2> QED BY <2>1, <2>2
<1>5. DistRouting'
  BY DEF Routing, DistRouting, distVars
<1> QED BY <1>1, <1>2, <1>3, <1>4, <1>5 DEF Routing
LEMMA RawType ==
    ASSUME TypeInv, NEW i \in Channel, pc[i] # "idle", pos[i] < Len(batch[i])
    PROVE  RawEntry(i) \in Entry
BY WorkConvType DEF RawEntry, Entry, TypeInv, TypeOK, WorkOK

LEMMA PushEntryType ==
    ASSUME TypeInv, NEW i \in Channel, pc[i] # "idle", pos[i] < Len(list[i])
    PROVE  PushEntry(i) \in Entry
BY WorkConvType DEF PushEntry, Entry, TypeInv, TypeOK, WorkOK

LEMMA CacheType ==
    ASSUME TypeInv, NEW i \in Channel, pc[i] # "idle",
           NEW part \in SUBSET BatchEntries(WorkBatch(i))
    PROVE  Overwrite(cache, part) \subseteq Entry
BY WorkBatchType, BatchEntriesType, OverwriteType DEF TypeInv, TypeOK, RedisOK

LEMMA InsertType ==
    ASSUME TypeInv, NEW p \in Partition, mongoNext[p] < Len(toMongo[p]),
           NEW n \in 0 .. Len(MongoMsg(p).list)
    PROVE  Overwrite(mongo, BatchEntries([MongoMsg(p) EXCEPT !.list = SubSeq(@, 1, n)]))
               \subseteq Entry
<1>1. MongoMsg(p) \in MongoBatch
  BY DEF TypeInv, TypeOK, KafkaOK, MongoMsg
<1>2. [MongoMsg(p) EXCEPT !.list = SubSeq(@, 1, n)] \in MongoBatch
  <2>1. MongoMsg(p).list \in Seq(Msg)
    BY <1>1 DEF MongoBatch
  <2>2. SubSeq(MongoMsg(p).list, 1, n) \in Seq(Msg)
    BY <2>1, PrefixType
  <2> QED BY <1>1, <2>2 DEF MongoBatch
<1> QED BY <1>2, BatchEntriesType, OverwriteType DEF TypeInv, TypeOK, StoreOK

\* Leaving a handler keeps the goroutine's variables typed and its batch.
LEMMA LeaveType ==
    ASSUME TypeInv, NEW i \in Channel, pc[i] # "idle", Leave(i)
    PROVE  WorkOK' /\ BatchRouting'
<1> USE DEF TypeInv, TypeOK
<1>1. <<>> \in Seq(Msg)
  OBVIOUS
<1>2. /\ list' \in [Channel -> Seq(Msg)]
      /\ cur' \in [Channel -> Nat]
      /\ pos' \in [Channel -> Nat]
  BY <1>1, UpdateType DEF WorkOK, Leave
<1>3. /\ stage' \in [Channel -> {"msg", "notif"}]
      /\ pc' \in [Channel -> PCs]
  BY DEF WorkOK, Leave, Goto, PCs
<1>4. batch' = batch
  BY DEF Leave
<1>5. \A c \in Channel : pc'[c] # "idle" => pc[c] # "idle"
  BY DEF WorkOK, Leave, Goto
<1>6. BatchRouting'
  BY <1>4, <1>5 DEF Routing, BatchRouting
<1> QED BY <1>2, <1>3, <1>4, <1>6 DEF WorkOK

LEMMA MsgToMQType == ASSUME TypeInv, NEW m \in Msg, MsgToMQ(m) PROVE TypeInv'
<1> USE ConstantsAssumption DEF TypeInv, TypeOK, MsgToMQ
<1>1. KafkaOK' /\ MongoOK'
  <2>1. PartitionOf[KeyOf[m]] \in Partition
    OBVIOUS
  <2>2. Append(topic[PartitionOf[KeyOf[m]]], m) \in Seq(Msg)
    BY <2>1, AppendFacts DEF KafkaOK
  <2>3. topic' \in [Partition -> Seq(Msg)]
    BY <2>1, <2>2, UpdateType DEF KafkaOK
  <2> QED BY <2>3 DEF KafkaOK, MongoOK
<1>2. (IntakeOK /\ DistOK /\ ChanOK /\ WorkOK /\ RedisOK /\ StoreOK /\ BoundOK)'
  BY DEF IntakeOK, DistOK, ChanOK, WorkOK, RedisOK, StoreOK, BoundOK, intakeVars, distVars, workVars, redisVars, storeVars, boundVars
<1>3. (DistRouting /\ ChanRouting /\ BatchRouting)'
  BY DEF Routing, DistRouting, ChanRouting, BatchRouting, distVars, workVars
<1> QED BY <1>1, <1>2, <1>3 DEF Routing

LEMMA ConsumeOneType == ASSUME TypeInv, NEW p \in Partition, ConsumeOne(p) PROVE TypeInv'
<1> USE ConstantsAssumption DEF TypeInv, TypeOK, ConsumeOne
<1>1. KafkaOK' /\ IntakeOK' /\ MongoOK'
  <2>1. topic[p][next[p] + 1] \in Msg
    BY DEF KafkaOK
  <2>2. Append(messages[p][session], topic[p][next[p] + 1]) \in Seq(Msg)
    BY <2>1, AppendFacts DEF IntakeOK
  <2>3. messages' \in [Partition -> [Session -> Seq(Msg)]]
    BY <2>2, UpdateType2 DEF IntakeOK
  <2>4. next' \in [Partition -> Nat]
    <3>1. next' = [next EXCEPT ![p] = next[p] + 1] /\ next \in [Partition -> Nat]
      BY DEF KafkaOK
    <3> HIDE DEF ConsumeOne
    <3> QED BY <3>1
  <2> QED BY <2>3, <2>4 DEF KafkaOK, IntakeOK, MongoOK
<1>2. (DistOK /\ ChanOK /\ WorkOK /\ RedisOK /\ StoreOK /\ BoundOK)'
  BY DEF DistOK, ChanOK, WorkOK, RedisOK, StoreOK, BoundOK, distVars, workVars, redisVars, storeVars, boundVars
<1>3. (DistRouting /\ ChanRouting /\ BatchRouting)'
  BY DEF Routing, DistRouting, ChanRouting, BatchRouting, distVars, workVars
<1> QED BY <1>1, <1>2, <1>3 DEF Routing

LEMMA TickType == ASSUME TypeInv, NEW p \in Partition, NEW s \in Session, Tick(p, s) PROVE TypeInv'
<1> USE ConstantsAssumption DEF TypeInv, TypeOK, Tick
<1>1. IntakeOK'
  <2>1. messages[p][s] \in Seq(Msg) /\ <<>> \in Seq(Msg)
    BY DEF IntakeOK
  <2>2. flush' \in [Partition -> [Session -> Seq(Msg)]]
    BY <2>1, UpdateType2 DEF IntakeOK
  <2>3. messages' \in [Partition -> [Session -> Seq(Msg)]]
    BY <2>1, UpdateType2 DEF IntakeOK
  <2> QED BY <2>2, <2>3 DEF IntakeOK
<1>2. (KafkaOK /\ DistOK /\ ChanOK /\ WorkOK /\ MongoOK /\ RedisOK /\ StoreOK /\ BoundOK)'
  BY DEF KafkaOK, DistOK, ChanOK, WorkOK, MongoOK, RedisOK, StoreOK, BoundOK, kafkaVars, distVars, workVars, redisVars, storeVars, boundVars
<1>3. (DistRouting /\ ChanRouting /\ BatchRouting)'
  BY DEF Routing, DistRouting, ChanRouting, BatchRouting, distVars, workVars
<1> QED BY <1>1, <1>2, <1>3 DEF Routing

LEMMA SendSliceType == ASSUME TypeInv, NEW p \in Partition, NEW s \in Session, SendSlice(p, s) PROVE TypeInv'
<1> USE ConstantsAssumption DEF TypeInv, TypeOK, SendSlice
<1>1. IntakeOK' /\ DistOK'
  BY DEF IntakeOK, DistOK, HasSlice, SliceLen, intakeVars, distVars
<1>2. (KafkaOK /\ ChanOK /\ WorkOK /\ MongoOK /\ RedisOK /\ StoreOK /\ BoundOK)'
  BY DEF KafkaOK, ChanOK, WorkOK, MongoOK, RedisOK, StoreOK, BoundOK, kafkaVars, workVars, redisVars, storeVars, boundVars
<1>3. (DistRouting /\ ChanRouting /\ BatchRouting)'
  BY DEF Routing, DistRouting, ChanRouting, BatchRouting, distVars, workVars
<1> QED BY <1>1, <1>2, <1>3 DEF Routing

LEMMA AggregateType == ASSUME TypeInv, Aggregate PROVE TypeInv'
<1> USE ConstantsAssumption DEF TypeInv, TypeOK, Aggregate
<1>1. DistOK'
  BY DEF DistOK, Behind, distVars
<1>2. (KafkaOK /\ IntakeOK /\ ChanOK /\ WorkOK /\ MongoOK /\ RedisOK /\ StoreOK /\ BoundOK)'
  BY DEF KafkaOK, IntakeOK, ChanOK, WorkOK, MongoOK, RedisOK, StoreOK, BoundOK, kafkaVars, intakeVars, workVars, redisVars, storeVars, boundVars
<1>3. DistRouting'
  <2> DEFINE m == Head(slice)
             k == KeyOf[m]
  <2>1. m \in Msg /\ k \in Key /\ dist[k] \in Seq(Msg)
    BY DEF DistOK
  <2>2. /\ dist'[k] = Append(dist[k], m)
        /\ \A x \in Key \ {k} : dist'[x] = dist[x]
    BY <2>1 DEF DistOK, Behind
  <2> HIDE ConstantsAssumption DEF Aggregate, m, k
  <2>8. /\ Len(dist'[k]) = Len(dist[k]) + 1 /\ Len(dist[k]) \in Nat
        /\ \A j \in 1 .. Len(dist[k]) : dist'[k][j] = dist[k][j]
        /\ dist'[k][Len(dist[k]) + 1] = m
    BY <2>1, <2>2, AppendFacts
  <2>9. KeyOf[m] = k
    BY DEF k
  <2> SUFFICES ASSUME NEW x \in Key, NEW n \in 1 .. Len(dist'[x])
               PROVE  KeyOf[dist'[x][n]] = x
    BY DEF DistRouting
  <2>3. CASE x = k
    BY <2>1, <2>3, <2>8, <2>9 DEF Routing, DistRouting
  <2>4. CASE x # k
    BY <2>2, <2>4 DEF Routing, DistRouting
  <2> QED BY <2>3, <2>4
<1>4. (ChanRouting /\ BatchRouting)'
  BY DEF Routing, ChanRouting, BatchRouting, distVars, workVars
<1> QED BY <1>1, <1>2, <1>3, <1>4 DEF Routing

LEMMA DistributeType == ASSUME TypeInv, NEW k \in Key, Distribute(k) PROVE TypeInv'
<1> USE ConstantsAssumption DEF TypeInv, TypeOK, Distribute
<1>1. DistOK' /\ ChanOK'
  <2>1. ChannelOf[k] \in Channel /\ dist[k] \in Seq(Msg) /\ <<>> \in Seq(Msg)
    BY DEF DistOK
  <2>2. Append(ch[ChannelOf[k]], dist[k]) \in Seq(Seq(Msg))
    BY <2>1, AppendFacts DEF ChanOK
  <2>3. ch' \in [Channel -> Seq(Seq(Msg))]
    BY <2>1, <2>2, UpdateType DEF ChanOK
  <2>4. dist' \in [Key -> Seq(Msg)]
    BY <2>1, UpdateType DEF DistOK
  <2> QED BY <2>3, <2>4 DEF DistOK, ChanOK
<1>2. (KafkaOK /\ IntakeOK /\ WorkOK /\ MongoOK /\ RedisOK /\ StoreOK /\ BoundOK)'
  BY DEF KafkaOK, IntakeOK, WorkOK, MongoOK, RedisOK, StoreOK, BoundOK, kafkaVars, intakeVars, workVars, redisVars, storeVars, boundVars
<1>3. DistRouting'
  BY DEF Routing, DistRouting, DistOK, Behind
<1>4. ChanRouting'
  <2> DEFINE i == ChannelOf[k]
  <2>1. i \in Channel /\ dist[k] \in Seq(Msg) /\ dist[k] # <<>> /\ ch[i] \in Seq(Seq(Msg))
    BY DEF DistOK, ChanOK
  <2>2. /\ ch'[i] = Append(ch[i], dist[k])
        /\ \A c \in Channel \ {i} : ch'[c] = ch[c]
    BY <2>1 DEF ChanOK
  <2>3. KeyOf[dist[k][1]] = k
    BY <2>1 DEF Routing, DistRouting
  <2> HIDE ConstantsAssumption DEF Distribute, i
  <2>8. /\ Len(ch'[i]) = Len(ch[i]) + 1 /\ Len(ch[i]) \in Nat
        /\ \A j \in 1 .. Len(ch[i]) : ch'[i][j] = ch[i][j]
        /\ ch'[i][Len(ch[i]) + 1] = dist[k]
    BY <2>1, <2>2, AppendFacts
  <2>9. ChannelOf[k] = i
    BY DEF i
  <2> SUFFICES ASSUME NEW c \in Channel, NEW j \in 1 .. Len(ch'[c])
               PROVE  ch'[c][j] # <<>> /\ ChannelOf[KeyOf[ch'[c][j][1]]] = c
    BY DEF ChanRouting
  <2>4. CASE c = i /\ j \in 1 .. Len(ch[i])
    BY <2>4, <2>8 DEF Routing, ChanRouting
  <2>5. CASE c = i /\ j = Len(ch[i]) + 1
    BY <2>1, <2>3, <2>5, <2>8, <2>9
  <2>6. CASE c # i
    BY <2>2, <2>6 DEF Routing, ChanRouting
  <2>7. c = i => j \in 1 .. Len(ch[i]) \/ j = Len(ch[i]) + 1
    BY <2>8
  <2> QED BY <2>4, <2>5, <2>6, <2>7
<1>5. (BatchRouting)'
  BY DEF Routing, BatchRouting, distVars, workVars
<1> QED BY <1>1, <1>2, <1>3, <1>4, <1>5 DEF Routing

LEMMA ClassifyType == ASSUME TypeInv, NEW i \in Channel, Classify(i) PROVE TypeInv'
<1> USE ConstantsAssumption DEF TypeInv, TypeOK, Classify
<1>1. WorkOK'
  <2>1. batch[i][pos[i] + 1] \in Msg
    BY DEF WorkOK
  <2>2. Append(list[i], batch[i][pos[i] + 1]) \in Seq(Msg)
    BY <2>1, AppendFacts DEF WorkOK
  <2>3. /\ list' \in {list, [list EXCEPT ![i] = Append(list[i], batch[i][pos[i] + 1])]}
        /\ pos' = [pos EXCEPT ![i] = pos[i] + 1]
        /\ UNCHANGED <<pc, stage, batch, cur>>
    OBVIOUS
  <2> HIDE ConstantsAssumption DEF Classify
  <2>4. list' \in [Channel -> Seq(Msg)]
    BY <2>2, <2>3, UpdateType DEF WorkOK
  <2>5. pos' \in [Channel -> Nat]
    BY <2>3 DEF WorkOK
  <2> QED BY <2>3, <2>4, <2>5 DEF WorkOK
<1>2. BoundOK'
  BY DEF BoundOK, Ok, Fails, boundVars
<1>3. KafkaOK' /\ MongoOK'
  <2>1. WorkPart(i) \in Partition /\ RawEntry(i) \in Entry
    BY WorkConvType, RawType
  <2>2. Append(toPush[WorkPart(i)], RawEntry(i)) \in Seq(Entry)
    BY <2>1, AppendFacts DEF KafkaOK
  <2>3. toPush' \in {toPush, [toPush EXCEPT ![WorkPart(i)] = Append(toPush[WorkPart(i)], RawEntry(i))]}
    OBVIOUS
  <2>4. toPush' \in [Partition -> Seq(Entry)]
    <3> HIDE ConstantsAssumption DEF Classify
    <3> QED BY <2>1, <2>2, <2>3, UpdateType DEF KafkaOK
  <2> QED BY <2>4 DEF KafkaOK, MongoOK
<1>4. (IntakeOK /\ DistOK /\ ChanOK /\ RedisOK /\ StoreOK)'
  BY DEF IntakeOK, DistOK, ChanOK, RedisOK, StoreOK, intakeVars, distVars, redisVars, storeVars
<1>5. BatchRouting'
  BY DEF Routing, BatchRouting, WorkOK, Goto, Leave, GetMaxSeqError
<1>6. (DistRouting /\ ChanRouting)'
  BY DEF Routing, DistRouting, ChanRouting, distVars, workVars
<1> QED BY <1>1, <1>2, <1>3, <1>4, <1>5, <1>6 DEF Routing

LEMMA ClassifiedType == ASSUME TypeInv, NEW i \in Channel, Classified(i) PROVE TypeInv'
<1> USE ConstantsAssumption DEF TypeInv, TypeOK, Classified
<1>1. WorkOK'
  <2>1. CASE list[i] = <<>>
    BY <2>1, LeaveType
  <2>2. CASE list[i] # <<>>
    <3>1. /\ pc' = [pc EXCEPT ![i] = "getMaxSeq"]
          /\ pos' = [pos EXCEPT ![i] = 0]
          /\ UNCHANGED <<stage, batch, list, cur>>
      BY <2>2 DEF Goto
    <3> HIDE ConstantsAssumption DEF Classified
    <3> QED BY <3>1 DEF WorkOK, PCs
  <2> QED BY <2>1, <2>2
<1>2. (KafkaOK /\ IntakeOK /\ DistOK /\ ChanOK /\ MongoOK /\ RedisOK /\ StoreOK /\ BoundOK)'
  BY DEF KafkaOK, IntakeOK, DistOK, ChanOK, MongoOK, RedisOK, StoreOK, BoundOK, kafkaVars, intakeVars, distVars, redisVars, storeVars, boundVars
<1>3. BatchRouting'
  BY DEF Routing, BatchRouting, WorkOK, Goto, Leave, GetMaxSeqError
<1>4. (DistRouting /\ ChanRouting)'
  BY DEF Routing, DistRouting, ChanRouting, distVars, workVars
<1> QED BY <1>1, <1>2, <1>3, <1>4 DEF Routing

LEMMA GetMaxSeqType == ASSUME TypeInv, NEW i \in Channel, GetMaxSeq(i) PROVE TypeInv'
<1> USE ConstantsAssumption DEF TypeInv, TypeOK, GetMaxSeq
<1>1. WorkOK'
  <2>1. MaxSeqRead(i) \in Nat
    BY WorkConvType DEF RedisOK, MaxSeqRead
  <2>2. CASE Leave(i)
    BY <2>2, LeaveType
  <2>3. CASE ~Leave(i)
    <3>1. /\ cur' = [cur EXCEPT ![i] = MaxSeqRead(i)]
          /\ Goto(i, "setCache")
          /\ UNCHANGED <<stage, batch, list, pos>>
      BY <2>3 DEF GetMaxSeqError
    <3> QED BY <2>1, <3>1 DEF WorkOK, PCs, Goto
  <2> QED BY <2>2, <2>3
<1>2. BoundOK'
  BY DEF BoundOK, Ok, Fails, boundVars
<1>3. (KafkaOK /\ IntakeOK /\ DistOK /\ ChanOK /\ MongoOK /\ RedisOK /\ StoreOK)'
  BY DEF KafkaOK, IntakeOK, DistOK, ChanOK, MongoOK, RedisOK, StoreOK, kafkaVars, intakeVars, distVars, redisVars, storeVars
<1>4. BatchRouting'
  BY DEF Routing, BatchRouting, WorkOK, Goto, Leave, GetMaxSeqError
<1>5. (DistRouting /\ ChanRouting)'
  BY DEF Routing, DistRouting, ChanRouting, distVars, workVars
<1> QED BY <1>1, <1>2, <1>3, <1>4, <1>5 DEF Routing

LEMMA SetMessageToCacheType == ASSUME TypeInv, NEW i \in Channel, SetMessageToCache(i) PROVE TypeInv'
<1> USE ConstantsAssumption DEF TypeInv, TypeOK, SetMessageToCache
<1>1. WorkOK'
  BY DEF WorkOK, PCs, Goto, workVars
<1>2. BoundOK'
  BY DEF BoundOK, Ok, Fails, boundVars
<1>3. RedisOK'
  BY CacheType DEF RedisOK, WorkOK, redisVars
<1>4. (KafkaOK /\ IntakeOK /\ DistOK /\ ChanOK /\ MongoOK /\ StoreOK)'
  BY DEF KafkaOK, IntakeOK, DistOK, ChanOK, MongoOK, StoreOK, kafkaVars, intakeVars, distVars, storeVars
<1>5. BatchRouting'
  BY DEF Routing, BatchRouting, WorkOK, Goto, Leave, GetMaxSeqError
<1>6. (DistRouting /\ ChanRouting)'
  BY DEF Routing, DistRouting, ChanRouting, distVars, workVars
<1> QED BY <1>1, <1>2, <1>3, <1>4, <1>5, <1>6 DEF Routing

LEMMA SetMaxSeqType == ASSUME TypeInv, NEW i \in Channel, SetMaxSeq(i) PROVE TypeInv'
<1> USE ConstantsAssumption DEF TypeInv, TypeOK, SetMaxSeq
<1>1. WorkOK'
  BY DEF WorkOK, PCs, Goto, AfterSetMaxSeqError, workVars
<1>2. BoundOK'
  BY DEF BoundOK, Ok, Fails, boundVars
<1>3. RedisOK'
  <2>1. WorkConv(i) \in Conv
    BY WorkConvType
  <2>2. NewMaxSeq(i) \in Nat
    BY DEF WorkOK, NewMaxSeq
  <2>3. maxSeq' \in [Conv -> Nat]
    BY <2>1, <2>2, UpdateType DEF RedisOK
  <2> QED BY <2>3 DEF RedisOK
<1>4. (KafkaOK /\ IntakeOK /\ DistOK /\ ChanOK /\ MongoOK /\ StoreOK)'
  BY DEF KafkaOK, IntakeOK, DistOK, ChanOK, MongoOK, StoreOK, kafkaVars, intakeVars, distVars, storeVars
<1>5. BatchRouting'
  BY DEF Routing, BatchRouting, WorkOK, Goto, Leave, GetMaxSeqError
<1>6. (DistRouting /\ ChanRouting)'
  BY DEF Routing, DistRouting, ChanRouting, distVars, workVars
<1> QED BY <1>1, <1>2, <1>3, <1>4, <1>5, <1>6 DEF Routing

LEMMA SetHasReadSeqsType == ASSUME TypeInv, NEW i \in Channel, SetHasReadSeqs(i) PROVE TypeInv'
<1> USE ConstantsAssumption DEF TypeInv, TypeOK, SetHasReadSeqs
<1>1. WorkOK'
  <2>1. CASE pc[i] = "setHasReadFailed"
    BY <2>1, LeaveType
  <2>2. CASE pc[i] # "setHasReadFailed"
    BY <2>2 DEF WorkOK, PCs, Goto
  <2> QED BY <2>1, <2>2
<1>2. BoundOK'
  BY DEF BoundOK, Ok, Fails, boundVars
<1>3. RedisOK'
  <2>1. PICK last \in [Senders(i) -> DOMAIN list[i]], us \in SUBSET Senders(i) :
           hasRead' = [u \in User |-> IF u \in us
                            THEN [hasRead[u] EXCEPT ![WorkConv(i)] = SeqOf(i, last[u])]
                            ELSE hasRead[u]]
    OBVIOUS
  <2>2. \A u \in us : SeqOf(i, last[u]) \in Nat
    <3> HIDE ConstantsAssumption DEF SetHasReadSeqs
    <3>1. list[i] \in Seq(Msg) /\ cur[i] \in Nat
      BY DEF WorkOK
    <3>2. \A u \in us : last[u] \in DOMAIN list[i]
      BY <2>1
    <3> QED BY <3>1, <3>2 DEF SeqOf
  <2>3. WorkConv(i) \in Conv
    BY WorkConvType
  <2>4. hasRead' \in [User -> [Conv -> Nat]]
    BY <2>1, <2>2, <2>3 DEF RedisOK
  <2> QED BY <2>4 DEF RedisOK
<1>4. (KafkaOK /\ IntakeOK /\ DistOK /\ ChanOK /\ MongoOK /\ StoreOK)'
  BY DEF KafkaOK, IntakeOK, DistOK, ChanOK, MongoOK, StoreOK, kafkaVars, intakeVars, distVars, storeVars
<1>5. BatchRouting'
  BY DEF Routing, BatchRouting, WorkOK, Goto, Leave, GetMaxSeqError
<1>6. (DistRouting /\ ChanRouting)'
  BY DEF Routing, DistRouting, ChanRouting, distVars, workVars
<1> QED BY <1>1, <1>2, <1>3, <1>4, <1>5, <1>6 DEF Routing

LEMMA CreateConversationType == ASSUME TypeInv, NEW i \in Channel, CreateConversation(i) PROVE TypeInv'
<1> USE ConstantsAssumption DEF TypeInv, TypeOK, CreateConversation
<1>1. WorkOK'
  BY DEF WorkOK, PCs, Goto, workVars
<1>2. BoundOK'
  BY DEF BoundOK, Ok, Fails, boundVars
<1>3. StoreOK'
  BY WorkConvType DEF StoreOK, storeVars
<1>4. (KafkaOK /\ IntakeOK /\ DistOK /\ ChanOK /\ MongoOK /\ RedisOK)'
  BY DEF KafkaOK, IntakeOK, DistOK, ChanOK, MongoOK, RedisOK, kafkaVars, intakeVars, distVars, redisVars
<1>5. BatchRouting'
  BY DEF Routing, BatchRouting, WorkOK, Goto, Leave, GetMaxSeqError
<1>6. (DistRouting /\ ChanRouting)'
  BY DEF Routing, DistRouting, ChanRouting, distVars, workVars
<1> QED BY <1>1, <1>2, <1>3, <1>4, <1>5, <1>6 DEF Routing

LEMMA MsgToMongoMQType == ASSUME TypeInv, NEW i \in Channel, MsgToMongoMQ(i) PROVE TypeInv'
<1> USE ConstantsAssumption DEF TypeInv, TypeOK, MsgToMongoMQ
<1>1. WorkOK'
  BY DEF WorkOK, PCs, Goto, workVars
<1>2. BoundOK'
  BY DEF BoundOK, Ok, Fails, boundVars
<1>3. KafkaOK' /\ MongoOK'
  <2>1. WorkPart(i) \in Partition /\ WorkBatch(i) \in MongoBatch
    BY WorkConvType, WorkBatchType
  <2>2. Append(toMongo[WorkPart(i)], WorkBatch(i)) \in Seq(MongoBatch)
    BY <2>1, AppendFacts DEF KafkaOK
  <2>3. toMongo' \in {toMongo, [toMongo EXCEPT ![WorkPart(i)] = Append(toMongo[WorkPart(i)], WorkBatch(i))]}
    OBVIOUS
  <2>4. /\ toMongo' \in [Partition -> Seq(MongoBatch)]
        /\ \A p \in Partition : Len(toMongo'[p]) >= Len(toMongo[p])
    <3> HIDE ConstantsAssumption DEF MsgToMongoMQ
    <3>1. toMongo \in [Partition -> Seq(MongoBatch)]
      BY DEF KafkaOK
    <3>2. Len(Append(toMongo[WorkPart(i)], WorkBatch(i))) = Len(toMongo[WorkPart(i)]) + 1
      BY <2>1, <3>1, AppendFacts
    <3>3. \A p \in Partition : Len(toMongo[p]) \in Nat
      BY <3>1
    <3>4. \A p \in Partition : \/ toMongo'[p] = toMongo[p]
                               \/ p = WorkPart(i) /\ toMongo'[p] = Append(toMongo[p], WorkBatch(i))
      BY <2>1, <2>3, <3>1
    <3>5. toMongo' \in [Partition -> Seq(MongoBatch)]
      BY <2>1, <2>2, <2>3, <3>1, UpdateType
    <3> QED BY <3>2, <3>3, <3>4, <3>5
  <2>5. MongoOK'
    BY <2>4 DEF KafkaOK, MongoOK
  <2> QED BY <2>4, <2>5 DEF KafkaOK
<1>4. (IntakeOK /\ DistOK /\ ChanOK /\ RedisOK /\ StoreOK)'
  BY DEF IntakeOK, DistOK, ChanOK, RedisOK, StoreOK, intakeVars, distVars, redisVars, storeVars
<1>5. BatchRouting'
  BY DEF Routing, BatchRouting, WorkOK, Goto, Leave, GetMaxSeqError
<1>6. (DistRouting /\ ChanRouting)'
  BY DEF Routing, DistRouting, ChanRouting, distVars, workVars
<1> QED BY <1>1, <1>2, <1>3, <1>4, <1>5, <1>6 DEF Routing

LEMMA PushType == ASSUME TypeInv, NEW i \in Channel, Push(i) PROVE TypeInv'
<1> USE ConstantsAssumption DEF TypeInv, TypeOK, Push
<1>1. WorkOK'
  <2>1. pos' = [pos EXCEPT ![i] = pos[i] + 1] /\ UNCHANGED <<pc, stage, batch, list, cur>>
    OBVIOUS
  <2> HIDE ConstantsAssumption DEF Push
  <2> QED BY <2>1 DEF WorkOK
<1>2. BoundOK'
  BY DEF BoundOK, Ok, Fails, boundVars
<1>3. KafkaOK' /\ MongoOK'
  <2>1. WorkPart(i) \in Partition /\ PushEntry(i) \in Entry
    BY WorkConvType, PushEntryType
  <2>2. Append(toPush[WorkPart(i)], PushEntry(i)) \in Seq(Entry)
    BY <2>1, AppendFacts DEF KafkaOK
  <2>3. toPush' \in {toPush, [toPush EXCEPT ![WorkPart(i)] = Append(toPush[WorkPart(i)], PushEntry(i))]}
    OBVIOUS
  <2>4. toPush' \in [Partition -> Seq(Entry)]
    <3> HIDE ConstantsAssumption DEF Push
    <3> QED BY <2>1, <2>2, <2>3, UpdateType DEF KafkaOK
  <2> QED BY <2>4 DEF KafkaOK, MongoOK
<1>4. (IntakeOK /\ DistOK /\ ChanOK /\ RedisOK /\ StoreOK)'
  BY DEF IntakeOK, DistOK, ChanOK, RedisOK, StoreOK, intakeVars, distVars, redisVars, storeVars
<1>5. BatchRouting'
  BY DEF Routing, BatchRouting, WorkOK, Goto, Leave, GetMaxSeqError
<1>6. (DistRouting /\ ChanRouting)'
  BY DEF Routing, DistRouting, ChanRouting, distVars, workVars
<1> QED BY <1>1, <1>2, <1>3, <1>4, <1>5, <1>6 DEF Routing

LEMMA PushedType == ASSUME TypeInv, NEW i \in Channel, Pushed(i) PROVE TypeInv'
<1> USE ConstantsAssumption DEF TypeInv, TypeOK, Pushed
<1>1. WorkOK'
  BY LeaveType
<1>2. BoundOK'
  BY DEF BoundOK, Ok, Fails, boundVars
<1>3. RedisOK'
  <2>1. Append(esMQ, WorkBatch(i)) \in Seq(MongoBatch)
    BY WorkBatchType, AppendFacts DEF RedisOK
  <2> QED BY <2>1 DEF RedisOK
<1>4. (KafkaOK /\ IntakeOK /\ DistOK /\ ChanOK /\ MongoOK /\ StoreOK)'
  BY DEF KafkaOK, IntakeOK, DistOK, ChanOK, MongoOK, StoreOK, kafkaVars, intakeVars, distVars, storeVars
<1>5. BatchRouting'
  BY DEF Routing, BatchRouting, WorkOK, Goto, Leave, GetMaxSeqError
<1>6. (DistRouting /\ ChanRouting)'
  BY DEF Routing, DistRouting, ChanRouting, distVars, workVars
<1> QED BY <1>1, <1>2, <1>3, <1>4, <1>5, <1>6 DEF Routing

LEMMA BatchDoneType == ASSUME TypeInv, NEW i \in Channel, BatchDone(i) PROVE TypeInv'
<1> USE ConstantsAssumption DEF TypeInv, TypeOK, BatchDone
<1>1. WorkOK'
  BY DEF WorkOK, PCs, Goto, workVars
<1>2. (KafkaOK /\ IntakeOK /\ DistOK /\ ChanOK /\ MongoOK /\ RedisOK /\ StoreOK /\ BoundOK)'
  BY DEF KafkaOK, IntakeOK, DistOK, ChanOK, MongoOK, RedisOK, StoreOK, BoundOK, kafkaVars, intakeVars, distVars, redisVars, storeVars, boundVars
<1>3. BatchRouting'
  BY DEF Routing, BatchRouting, WorkOK, Goto, Leave, GetMaxSeqError
<1>4. (DistRouting /\ ChanRouting)'
  BY DEF Routing, DistRouting, ChanRouting, distVars, workVars
<1> QED BY <1>1, <1>2, <1>3, <1>4 DEF Routing

LEMMA BatchInsertChat2DBType == ASSUME TypeInv, NEW p \in Partition, BatchInsertChat2DB(p) PROVE TypeInv'
<1> USE ConstantsAssumption DEF TypeInv, TypeOK, BatchInsertChat2DB
<1>1. MongoOK'
  BY DEF MongoOK, kafkaVars
<1>2. BoundOK'
  BY DEF BoundOK, Ok, Fails, boundVars
<1>3. StoreOK'
  <2>1. MongoMsg(p) \in MongoBatch
    BY DEF KafkaOK, MongoMsg
  <2>2. Overwrite(mongo, BatchEntries(MongoMsg(p))) \subseteq Entry
    BY <2>1, BatchEntriesType, OverwriteType DEF StoreOK
  <2>3. \A n \in 0 .. Len(MongoMsg(p).list) - 1 :
           Overwrite(mongo, BatchEntries([MongoMsg(p) EXCEPT !.list = SubSeq(@, 1, n)])) \subseteq Entry
    <3> SUFFICES ASSUME NEW n \in 0 .. Len(MongoMsg(p).list) - 1
                 PROVE  Overwrite(mongo, BatchEntries([MongoMsg(p) EXCEPT !.list = SubSeq(@, 1, n)]))
                           \subseteq Entry
      OBVIOUS
    <3>1. n \in 0 .. Len(MongoMsg(p).list)
      BY <2>1 DEF MongoBatch
    <3> QED BY <3>1, InsertType
  <2> QED BY <2>2, <2>3 DEF StoreOK
<1>4. (KafkaOK /\ IntakeOK /\ DistOK /\ ChanOK /\ WorkOK /\ RedisOK)'
  BY DEF KafkaOK, IntakeOK, DistOK, ChanOK, WorkOK, RedisOK, kafkaVars, intakeVars, distVars, workVars, redisVars
<1>5. (DistRouting /\ ChanRouting /\ BatchRouting)'
  BY DEF Routing, DistRouting, ChanRouting, BatchRouting, distVars, workVars
<1> QED BY <1>1, <1>2, <1>3, <1>4, <1>5 DEF Routing

LEMMA DeleteMessagesFromCacheType == ASSUME TypeInv, NEW p \in Partition, DeleteMessagesFromCache(p) PROVE TypeInv'
<1> USE ConstantsAssumption DEF TypeInv, TypeOK, DeleteMessagesFromCache
<1>1. MongoOK' /\ KafkaOK'
  BY DEF MongoOK, KafkaOK, kafkaVars
<1>2. BoundOK'
  BY DEF BoundOK, Ok, Fails, boundVars
<1>3. RedisOK'
  BY DEF RedisOK, redisVars
<1>4. (IntakeOK /\ DistOK /\ ChanOK /\ WorkOK /\ StoreOK)'
  BY DEF IntakeOK, DistOK, ChanOK, WorkOK, StoreOK, intakeVars, distVars, workVars, storeVars
<1>5. (DistRouting /\ ChanRouting /\ BatchRouting)'
  BY DEF Routing, DistRouting, ChanRouting, BatchRouting, distVars, workVars
<1> QED BY <1>1, <1>2, <1>3, <1>4, <1>5 DEF Routing

LEMMA CommitOffsetsType == ASSUME TypeInv, NEW p \in Partition, CommitOffsets(p) PROVE TypeInv'
<1> USE ConstantsAssumption DEF TypeInv, TypeOK, CommitOffsets
<1>1. KafkaOK' /\ MongoOK'
  BY DEF KafkaOK, MongoOK, MongoMarked, kafkaVars
<1>2. (IntakeOK /\ DistOK /\ ChanOK /\ WorkOK /\ RedisOK /\ StoreOK /\ BoundOK)'
  BY DEF IntakeOK, DistOK, ChanOK, WorkOK, RedisOK, StoreOK, BoundOK, intakeVars, distVars, workVars, redisVars, storeVars, boundVars
<1>3. (DistRouting /\ ChanRouting /\ BatchRouting)'
  BY DEF Routing, DistRouting, ChanRouting, BatchRouting, distVars, workVars
<1> QED BY <1>1, <1>2, <1>3 DEF Routing

LEMMA RebalanceType == ASSUME TypeInv, Rebalance PROVE TypeInv'
<1> USE ConstantsAssumption DEF TypeInv, TypeOK, Rebalance
<1>1. KafkaOK' /\ IntakeOK' /\ MongoOK'
  BY DEF KafkaOK, IntakeOK, MongoOK, Session, kafkaVars, intakeVars
<1>2. (DistOK /\ ChanOK /\ WorkOK /\ RedisOK /\ StoreOK /\ BoundOK)'
  BY DEF DistOK, ChanOK, WorkOK, RedisOK, StoreOK, BoundOK, distVars, workVars, redisVars, storeVars, boundVars
<1>3. (DistRouting /\ ChanRouting /\ BatchRouting)'
  BY DEF Routing, DistRouting, ChanRouting, BatchRouting, distVars, workVars
<1> QED BY <1>1, <1>2, <1>3 DEF Routing

\* A process that starts again has empty memory and resumes at the committed
\* offsets, which are offsets it once reached.
LEMMA RestartType == ASSUME TypeInv, Restart PROVE TypeInv'
<1> USE DEF TypeInv, TypeOK, Restart
<1>1. KafkaOK' /\ MongoOK'
  BY DEF KafkaOK, MongoOK
<1>2. IntakeOK'
  BY ConstantsAssumption DEF IntakeOK, Session
<1>3. DistOK' /\ ChanOK'
  BY DEF DistOK, ChanOK
<1>4. WorkOK'
  BY DEF WorkOK, PCs
<1>5. RedisOK' /\ StoreOK' /\ BoundOK'
  BY DEF RedisOK, StoreOK, BoundOK, redisVars, storeVars
<1>6. Routing'
  BY DEF Routing, DistRouting, ChanRouting, BatchRouting
<1> QED BY <1>1, <1>2, <1>3, <1>4, <1>5, <1>6

LEMMA StutterType == ASSUME TypeInv, UNCHANGED vars PROVE TypeInv'
BY DEF TypeInv, TypeOK, KafkaOK, IntakeOK, DistOK, ChanOK, WorkOK, MongoOK, RedisOK, StoreOK, BoundOK,
       Routing, DistRouting, ChanRouting, BatchRouting, vars, kafkaVars, intakeVars, distVars, workVars,
       redisVars, storeVars, boundVars

LEMMA NextTypeInv == TypeInv /\ [Next]_vars => TypeInv'
<1> SUFFICES ASSUME TypeInv, [Next]_vars PROVE TypeInv'
  OBVIOUS
<1>1. CASE \E m \in Msg : MsgToMQ(m)
  BY <1>1, MsgToMQType
<1>2. CASE Intake
  BY <1>2, ConsumeOneType, TickType, SendSliceType, AggregateType, DistributeType DEF Intake
<1>3. ASSUME NEW i \in Channel, Work(i) PROVE TypeInv'
  BY <1>3, ReceiveType, ClassifyType, ClassifiedType, GetMaxSeqType, SetMessageToCacheType,
     SetMaxSeqType, SetHasReadSeqsType, CreateConversationType, MsgToMongoMQType, PushType, PushedType,
     BatchDoneType DEF Work
<1>4. ASSUME NEW i \in Channel, ModifyPanic(i) PROVE TypeInv'
  BY <1>4, RestartType DEF ModifyPanic
<1>5. ASSUME NEW p \in Partition, MongoWork(p) \/ CommitOffsets(p) PROVE TypeInv'
  BY <1>5, BatchInsertChat2DBType, DeleteMessagesFromCacheType, CommitOffsetsType DEF MongoWork
<1>6. CASE Rebalance \/ Crash
  BY <1>6, RebalanceType, RestartType DEF Crash
<1>7. CASE UNCHANGED vars
  BY <1>7, StutterType
<1> QED BY <1>1, <1>2, <1>3, <1>4, <1>5, <1>6, <1>7 DEF Next

\* TypeInv holds in every reachable state.
THEOREM TypeInvariant == Spec => []TypeInv
BY InitTypeInv, NextTypeInv, PTL DEF Spec

\* Every variable of the pipeline keeps its type, the seqs and offsets it
\* computes stay natural numbers, and the Mongo consumer never deletes from the
\* cache for a batch it has not taken.
THEOREM TypeCorrect == Spec => []TypeOK
<1>1. TypeInv => TypeOK
  BY DEF TypeInv
<1> QED BY <1>1, TypeInvariant, PTL

-----------------------------------------------------------------------------
(***************************************************************************)
(* The numbering of conversations is sound for every set of messages, keys *)
(* and channels, and whatever fails or restarts: UniqueSeq, PushInSeqOrder *)
(* and the implementation of ConversationLog are theorems of MsgTransfer.  *)
(*                                                                         *)
(* None of them is inductive.  The strengthening, NumberingInv, says what  *)
(* a goroutine between GetMaxSeq and the end of its pushes knows about     *)
(* MAX_SEQ and about what left the process under its conversation.  It is  *)
(* preserved because no other goroutine is on that conversation (Routing). *)
(***************************************************************************)

\* The value read from MAX_SEQ is still the one stored there.
Fresh    == {"setCache", "setMaxSeq"}
\* The seqs of the list are reserved.
Reserved == {"setHasRead", "create", "toMongo", "push"}
Numbers  == {"getMaxSeq"} \cup Fresh \cup Reserved

\* How many messages of the list were handed to the push topic.
Done(i) == IF pc[i] = "push" THEN pos[i] ELSE 0

ReservedInv(i) ==
    /\ cur[i] + Len(list[i]) = maxSeq[WorkConv(i)]
    /\ Done(i) <= Len(list[i])
    /\ \A e \in Issued :
          e.conv = WorkConv(i) /\ e.seq > cur[i] => e.msg = list[i][e.seq - cur[i]]
    /\ \A e \in PushedEntries : e.conv = WorkConv(i) => e.seq <= cur[i] + Done(i)

GoroutineInv(i) ==
    /\ pc[i] \in Numbers  => list[i] # <<>>
    /\ pc[i] \in Fresh    => cur[i] = maxSeq[WorkConv(i)]
    /\ pc[i] \in Reserved => ReservedInv(i)

\* Nothing is issued above MAX_SEQ.
WithinMaxSeq == \A e \in Issued : e.conv \in Conv /\ e.seq \in 1 .. maxSeq[e.conv]

NumberingInv ==
    /\ TypeInv
    /\ \A i \in Channel : GoroutineInv(i)
    /\ WithinMaxSeq
    /\ UniqueSeq
    /\ PushInSeqOrder

-----------------------------------------------------------------------------
(* What leaves the process.                                                 *)

LEMMA IssuedUnchanged ==
    ASSUME UNCHANGED <<toPush, toMongo>>
    PROVE  Issued' = Issued /\ PushedEntries' = PushedEntries
BY DEF Issued, PushedEntries, QueuedEntries

\* An entry is pushed iff it is a numbered element of the push topic.
LEMMA PushedMember ==
    ASSUME NEW e
    PROVE  e \in PushedEntries <=>
              /\ e.seq > 0
              /\ \E p \in Partition : \E n \in DOMAIN toPush[p] : e = toPush[p][n]
BY DEF PushedEntries

\* Appending x to a partition of the push topic adds at most x.
LEMMA PushAppends ==
    ASSUME TypeInv, NEW q \in Partition, NEW x \in Entry,
           toPush' = [toPush EXCEPT ![q] = Append(toPush[q], x)], UNCHANGED toMongo
    PROVE  /\ \A e \in PushedEntries' : e \in PushedEntries \/ (e = x /\ x.seq > 0)
           /\ \A e \in Issued' : e \in Issued \/ (e = x /\ x.seq > 0)
           /\ PushedEntries \subseteq PushedEntries'
           /\ Issued \subseteq Issued'
<1>1. toPush \in [Partition -> Seq(Entry)]
  BY DEF TypeInv, TypeOK, KafkaOK
<1>2. /\ Len(Append(toPush[q], x)) = Len(toPush[q]) + 1 /\ Len(toPush[q]) \in Nat
      /\ \A j \in 1 .. Len(toPush[q]) : Append(toPush[q], x)[j] = toPush[q][j]
      /\ Append(toPush[q], x)[Len(toPush[q]) + 1] = x
      /\ DOMAIN Append(toPush[q], x) = 1 .. Len(toPush[q]) + 1
      /\ DOMAIN toPush[q] = 1 .. Len(toPush[q])
  BY <1>1, AppendFacts
<1>3. toPush'[q] = Append(toPush[q], x) /\ \A p \in Partition \ {q} : toPush'[p] = toPush[p]
  BY <1>1
<1>4. \A e \in PushedEntries' : e \in PushedEntries \/ (e = x /\ x.seq > 0)
  <2> SUFFICES ASSUME NEW e \in PushedEntries' PROVE e \in PushedEntries \/ (e = x /\ x.seq > 0)
    OBVIOUS
  <2>1. PICK p \in Partition : \E n \in DOMAIN toPush'[p] : e = toPush'[p][n]
    BY DEF PushedEntries
  <2>2. PICK n \in DOMAIN toPush'[p] : e = toPush'[p][n]
    BY <2>1
  <2>3. e.seq > 0
    BY DEF PushedEntries
  <2>4. CASE p # q
    BY <1>3, <2>2, <2>3, <2>4, PushedMember
  <2>5. CASE p = q /\ n \in 1 .. Len(toPush[q])
    <3>1. e = toPush[q][n] /\ n \in DOMAIN toPush[q]
      BY <1>2, <1>3, <2>2, <2>5
    <3> QED BY <3>1, <2>3, PushedMember
  <2>6. CASE p = q /\ n \notin 1 .. Len(toPush[q])
    <3>1. n = Len(toPush[q]) + 1
      BY <1>2, <1>3, <2>2, <2>6
    <3> QED BY <3>1, <1>2, <1>3, <2>2, <2>3, <2>6
  <2> QED BY <2>4, <2>5, <2>6
<1>5. PushedEntries \subseteq PushedEntries'
  <2> SUFFICES ASSUME NEW e \in PushedEntries PROVE e \in PushedEntries'
    OBVIOUS
  <2>1. PICK p \in Partition : \E n \in DOMAIN toPush[p] : e = toPush[p][n]
    BY PushedMember
  <2>2. PICK n \in DOMAIN toPush[p] : e = toPush[p][n]
    BY <2>1
  <2>3. e.seq > 0
    BY PushedMember
  <2>4. n \in DOMAIN toPush'[p] /\ e = toPush'[p][n]
    BY <1>2, <1>3, <2>2
  <2> QED BY <2>3, <2>4 DEF PushedEntries
<1>6. QueuedEntries' = QueuedEntries
  BY DEF QueuedEntries
<1> QED BY <1>4, <1>5, <1>6 DEF Issued

\* Appending b to a partition of the Mongo topic adds at most its entries.
LEMMA QueueAppends ==
    ASSUME TypeInv, NEW q \in Partition, NEW b \in MongoBatch,
           toMongo' = [toMongo EXCEPT ![q] = Append(toMongo[q], b)], UNCHANGED toPush
    PROVE  /\ PushedEntries' = PushedEntries
           /\ \A e \in Issued' : e \in Issued \/ e \in BatchEntries(b)
           /\ Issued \subseteq Issued'
<1>1. toMongo \in [Partition -> Seq(MongoBatch)]
  BY DEF TypeInv, TypeOK, KafkaOK
<1>2. /\ Len(Append(toMongo[q], b)) = Len(toMongo[q]) + 1 /\ Len(toMongo[q]) \in Nat
      /\ \A j \in 1 .. Len(toMongo[q]) : Append(toMongo[q], b)[j] = toMongo[q][j]
      /\ Append(toMongo[q], b)[Len(toMongo[q]) + 1] = b
      /\ DOMAIN Append(toMongo[q], b) = 1 .. Len(toMongo[q]) + 1
      /\ DOMAIN toMongo[q] = 1 .. Len(toMongo[q])
  BY <1>1, AppendFacts
<1>3. toMongo'[q] = Append(toMongo[q], b) /\ \A p \in Partition \ {q} : toMongo'[p] = toMongo[p]
  BY <1>1
<1>4. PushedEntries' = PushedEntries
  BY DEF PushedEntries
<1>5. \A e \in QueuedEntries' : e \in QueuedEntries \/ e \in BatchEntries(b)
  <2> SUFFICES ASSUME NEW e \in QueuedEntries' PROVE e \in QueuedEntries \/ e \in BatchEntries(b)
    OBVIOUS
  <2>1. PICK p \in Partition : \E n \in DOMAIN toMongo'[p] : e \in BatchEntries(toMongo'[p][n])
    BY DEF QueuedEntries, BatchEntries
  <2>2. PICK n \in DOMAIN toMongo'[p] : e \in BatchEntries(toMongo'[p][n])
    BY <2>1
  <2>3. toMongo'[p][n] = b \/ (n \in DOMAIN toMongo[p] /\ toMongo'[p][n] = toMongo[p][n])
    BY <1>2, <1>3, <2>2
  <2> QED BY <2>2, <2>3 DEF QueuedEntries
<1>6. QueuedEntries \subseteq QueuedEntries'
  <2> SUFFICES ASSUME NEW e \in QueuedEntries PROVE e \in QueuedEntries'
    OBVIOUS
  <2>1. PICK p \in Partition : \E n \in DOMAIN toMongo[p] : e \in BatchEntries(toMongo[p][n])
    BY DEF QueuedEntries
  <2>2. PICK n \in DOMAIN toMongo[p] : e \in BatchEntries(toMongo[p][n])
    BY <2>1
  <2>3. n \in DOMAIN toMongo'[p] /\ toMongo'[p][n] = toMongo[p][n]
    BY <1>2, <1>3, <2>2
  <2> QED BY <2>2, <2>3 DEF QueuedEntries, BatchEntries
<1> QED BY <1>4, <1>5, <1>6 DEF Issued

-----------------------------------------------------------------------------
(* A step of one goroutine as the others see it.                            *)

SameWork(j) == /\ pc'[j] = pc[j] /\ stage'[j] = stage[j] /\ batch'[j] = batch[j]
               /\ list'[j] = list[j] /\ cur'[j] = cur[j] /\ pos'[j] = pos[j]

\* A goroutine keeps its invariant through a step that leaves its variables
\* and what is stored and issued for its conversation alone.
LEMMA GoroutineUndisturbed ==
    ASSUME NEW j \in Channel, GoroutineInv(j), SameWork(j),
           pc[j] \in Numbers =>
               /\ maxSeq'[WorkConv(j)] = maxSeq[WorkConv(j)]
               /\ \A e \in Issued' : e.conv = WorkConv(j) => e \in Issued
               /\ \A e \in PushedEntries' : e.conv = WorkConv(j) => e \in PushedEntries
    PROVE  GoroutineInv(j)'
<1>1. WorkConv(j)' = WorkConv(j)
  BY DEF SameWork, WorkConv, ConvOf
<1>2. Done(j)' = Done(j)
  BY DEF SameWork, Done
<1>3. pc[j] \in Reserved \/ pc[j] \in Fresh => pc[j] \in Numbers
  BY DEF Numbers
<1>4. pc[j] \in Reserved => ReservedInv(j)'
  <2> SUFFICES ASSUME pc[j] \in Reserved PROVE ReservedInv(j)'
    OBVIOUS
  <2>1. ReservedInv(j)
    BY DEF GoroutineInv
  <2>2. (cur[j] + Len(list[j]) = maxSeq[WorkConv(j)])' /\ (Done(j) <= Len(list[j]))'
    BY <1>1, <1>2, <1>3, <2>1 DEF ReservedInv, SameWork
  <2>3. \A e \in Issued' : e.conv = WorkConv(j) /\ e.seq > cur[j] => e.msg = list[j][e.seq - cur[j]]
    BY <1>3, <2>1 DEF ReservedInv
  <2>4. \A e \in PushedEntries' : e.conv = WorkConv(j) => e.seq <= cur[j] + Done(j)
    BY <1>3, <2>1 DEF ReservedInv
  <2> QED BY <1>1, <1>2, <2>2, <2>3, <2>4 DEF ReservedInv, SameWork
<1>5. pc[j] \in Fresh => (cur[j] = maxSeq[WorkConv(j)])'
  BY <1>1, <1>3 DEF GoroutineInv, SameWork
<1>6. pc[j] \in Numbers => list'[j] # <<>>
  BY DEF GoroutineInv, SameWork
<1> QED BY <1>4, <1>5, <1>6 DEF GoroutineInv, SameWork

\* A goroutine outside the numbering part of a handler has nothing to keep.
LEMMA GoroutineOutside ==
    ASSUME NEW j \in Channel, pc'[j] \notin Numbers
    PROVE  GoroutineInv(j)'
BY DEF GoroutineInv, Numbers

\* A step that issues nothing and leaves MAX_SEQ alone only has to keep the
\* invariant of the goroutines.
LEMMA QuietStep ==
    ASSUME NumberingInv, TypeInv', UNCHANGED <<toPush, toMongo, maxSeq>>,
           \A j \in Channel : GoroutineInv(j)'
    PROVE  NumberingInv'
<1>1. Issued' = Issued
  BY IssuedUnchanged
<1>2. WithinMaxSeq'
  BY <1>1 DEF NumberingInv, WithinMaxSeq
<1>3. UniqueSeq'
  BY <1>1 DEF NumberingInv, UniqueSeq
<1>4. PushInSeqOrder'
  BY DEF NumberingInv, PushInSeqOrder
<1> QED BY <1>2, <1>3, <1>4 DEF NumberingInv

\* A quiet step of goroutine i.
LEMMA QuietGoroutine ==
    ASSUME NumberingInv, TypeInv', UNCHANGED <<toPush, toMongo, maxSeq>>,
           NEW i \in Channel, GoroutineInv(i)', \A j \in Channel \ {i} : SameWork(j)
    PROVE  NumberingInv'
<1>1. Issued' = Issued /\ PushedEntries' = PushedEntries
  BY IssuedUnchanged
<1>2. \A j \in Channel : GoroutineInv(j)'
  <2> SUFFICES ASSUME NEW j \in Channel, j # i PROVE GoroutineInv(j)'
    OBVIOUS
  <2>1. GoroutineInv(j) /\ SameWork(j)
    BY DEF NumberingInv
  <2> QED BY <1>1, <2>1, GoroutineUndisturbed
<1> QED BY <1>2, QuietStep

\* A step outside the goroutines that neither issues nor numbers anything.
LEMMA IdleStep ==
    ASSUME NumberingInv, TypeInv', UNCHANGED <<toPush, toMongo, maxSeq, workVars>>
    PROVE  NumberingInv'
<1>1. Issued' = Issued /\ PushedEntries' = PushedEntries
  BY IssuedUnchanged
<1>2. ASSUME NEW j \in Channel PROVE GoroutineInv(j)'
  <2>1. GoroutineInv(j) /\ SameWork(j)
    BY DEF NumberingInv, SameWork, workVars
  <2> QED BY <1>1, <2>1, GoroutineUndisturbed
<1> QED BY <1>2, QuietStep

LEMMA RestartNumbering ==
    ASSUME NumberingInv, TypeInv', Restart PROVE NumberingInv'
<1>1. UNCHANGED <<toPush, toMongo, maxSeq>>
  BY DEF Restart, redisVars
<1>2. ASSUME NEW j \in Channel PROVE GoroutineInv(j)'
  <2>1. pc'[j] \notin Numbers
    BY DEF Restart, Numbers, Fresh, Reserved
  <2> QED BY <2>1, GoroutineOutside
<1> QED BY <1>1, <1>2, QuietStep

-----------------------------------------------------------------------------
(* The steps of a goroutine.                                                *)

LEMMA LeaveNumbering ==
    ASSUME NumberingInv, TypeInv', UNCHANGED <<toPush, toMongo, maxSeq>>,
           NEW i \in Channel, Leave(i)
    PROVE  NumberingInv'
<1>1. WorkOK
  BY DEF NumberingInv, TypeInv, TypeOK
<1>2. \A j \in Channel \ {i} : SameWork(j)
  BY <1>1 DEF Leave, Goto, WorkOK, SameWork
<1>3. pc'[i] \notin Numbers
  BY <1>1 DEF Leave, Goto, WorkOK, Numbers, Fresh, Reserved
<1> QED BY <1>2, <1>3, GoroutineOutside, QuietGoroutine

LEMMA ReceiveNumbering ==
    ASSUME NumberingInv, TypeInv', NEW i \in Channel, Receive(i) PROVE NumberingInv'
<1>1. WorkOK
  BY DEF NumberingInv, TypeInv, TypeOK
<1>2. \A j \in Channel \ {i} : SameWork(j)
  BY <1>1 DEF Receive, Goto, WorkOK, SameWork
<1>3. pc'[i] \notin Numbers
  BY <1>1 DEF Receive, Goto, WorkOK, Numbers, Fresh, Reserved
<1>4. UNCHANGED <<toPush, toMongo, maxSeq>>
  BY DEF Receive, kafkaVars, redisVars
<1> QED BY <1>2, <1>3, <1>4, GoroutineOutside, QuietGoroutine

LEMMA BatchDoneNumbering ==
    ASSUME NumberingInv, TypeInv', NEW i \in Channel, BatchDone(i) PROVE NumberingInv'
<1>1. WorkOK
  BY DEF NumberingInv, TypeInv, TypeOK
<1>2. \A j \in Channel \ {i} : SameWork(j)
  BY <1>1 DEF BatchDone, Goto, WorkOK, SameWork
<1>3. pc'[i] \notin Numbers
  BY <1>1 DEF BatchDone, Goto, WorkOK, Numbers, Fresh, Reserved
<1>4. UNCHANGED <<toPush, toMongo, maxSeq>>
  BY DEF BatchDone, kafkaVars, redisVars
<1> QED BY <1>2, <1>3, <1>4, GoroutineOutside, QuietGoroutine

LEMMA ClassifiedNumbering ==
    ASSUME NumberingInv, TypeInv', NEW i \in Channel, Classified(i) PROVE NumberingInv'
<1>1. WorkOK
  BY DEF NumberingInv, TypeInv, TypeOK
<1>2. UNCHANGED <<toPush, toMongo, maxSeq>>
  BY DEF Classified, kafkaVars, redisVars
<1>3. CASE list[i] = <<>>
  BY <1>2, <1>3, LeaveNumbering DEF Classified
<1>4. CASE list[i] # <<>>
  <2>1. \A j \in Channel \ {i} : SameWork(j)
    BY <1>1, <1>4 DEF Classified, Goto, WorkOK, SameWork
  <2>2. pc'[i] = "getMaxSeq" /\ list'[i] # <<>>
    BY <1>1, <1>4 DEF Classified, Goto, WorkOK
  <2>3. GoroutineInv(i)'
    BY <2>2 DEF GoroutineInv, Numbers, Fresh, Reserved
  <2> QED BY <1>2, <2>1, <2>3, QuietGoroutine
<1> QED BY <1>3, <1>4

\* The value read is the value stored: nobody else numbers this conversation.
LEMMA GetMaxSeqNumbering ==
    ASSUME NumberingInv, TypeInv', NEW i \in Channel, GetMaxSeq(i) PROVE NumberingInv'
<1>1. WorkOK
  BY DEF NumberingInv, TypeInv, TypeOK
<1>2. UNCHANGED <<toPush, toMongo, maxSeq>>
  BY DEF GetMaxSeq, kafkaVars, redisVars
<1>3. CASE Leave(i)
  BY <1>2, <1>3, LeaveNumbering
<1>4. CASE ~Leave(i)
  <2>1. /\ cur' = [cur EXCEPT ![i] = MaxSeqRead(i)]
        /\ pc' = [pc EXCEPT ![i] = "setCache"]
        /\ UNCHANGED <<stage, batch, list, pos>>
        /\ pc[i] = "getMaxSeq"
    BY <1>4 DEF GetMaxSeq, GetMaxSeqError, Goto
  <2>2. \A j \in Channel \ {i} : SameWork(j)
    BY <1>1, <2>1 DEF WorkOK, SameWork
  <2>3. pc'[i] = "setCache" /\ cur'[i] = maxSeq[WorkConv(i)] /\ list'[i] = list[i]
    BY <1>1, <2>1 DEF WorkOK, MaxSeqRead
  <2>4. WorkConv(i)' = WorkConv(i)
    BY <2>1 DEF WorkConv, ConvOf
  <2>5. list[i] # <<>>
    BY <2>1 DEF NumberingInv, GoroutineInv, Numbers
  <2>6. GoroutineInv(i)'
    BY <1>2, <2>3, <2>4, <2>5 DEF GoroutineInv, Numbers, Fresh, Reserved
  <2> QED BY <1>2, <2>2, <2>6, QuietGoroutine
<1> QED BY <1>3, <1>4

LEMMA SetMessageToCacheNumbering ==
    ASSUME NumberingInv, TypeInv', NEW i \in Channel, SetMessageToCache(i) PROVE NumberingInv'
<1>1. WorkOK
  BY DEF NumberingInv, TypeInv, TypeOK
<1>2. /\ pc' = [pc EXCEPT ![i] = "setMaxSeq"]
      /\ UNCHANGED <<stage, batch, list, cur, pos, toPush, toMongo, maxSeq>>
      /\ pc[i] = "setCache"
  BY DEF SetMessageToCache, Goto, kafkaVars
<1>3. \A j \in Channel \ {i} : SameWork(j)
  BY <1>1, <1>2 DEF WorkOK, SameWork
<1>4. WorkConv(i)' = WorkConv(i)
  BY <1>2 DEF WorkConv, ConvOf
<1>5. list[i] # <<>> /\ cur[i] = maxSeq[WorkConv(i)]
  BY <1>2 DEF NumberingInv, GoroutineInv, Numbers, Fresh
<1>6. pc'[i] = "setMaxSeq"
  BY <1>1, <1>2 DEF WorkOK
<1>7. GoroutineInv(i)'
  BY <1>2, <1>4, <1>5, <1>6 DEF GoroutineInv, Numbers, Fresh, Reserved
<1> QED BY <1>2, <1>3, <1>7, QuietGoroutine

\* A step within the reserved part that issues nothing.
LEMMA StayReserved ==
    ASSUME NumberingInv, TypeInv', NEW i \in Channel, pc[i] \in Reserved \ {"push"},
           UNCHANGED <<stage, batch, list, cur, pos, toPush, toMongo, maxSeq>>,
           NEW l \in Reserved \ {"push"}, pc' = [pc EXCEPT ![i] = l]
    PROVE  NumberingInv'
<1>1. WorkOK
  BY DEF NumberingInv, TypeInv, TypeOK
<1>2. \A j \in Channel \ {i} : SameWork(j)
  BY <1>1 DEF WorkOK, SameWork
<1>3. pc'[i] = l
  BY <1>1 DEF WorkOK
<1>4. Issued' = Issued /\ PushedEntries' = PushedEntries
  BY IssuedUnchanged
<1>5. WorkConv(i)' = WorkConv(i) /\ Done(i)' = Done(i)
  BY <1>3 DEF WorkConv, ConvOf, Done
<1>6. list[i] # <<>> /\ ReservedInv(i)
  BY DEF NumberingInv, GoroutineInv, Numbers
<1>7. ReservedInv(i)'
  BY <1>4, <1>5, <1>6 DEF ReservedInv
<1>8. GoroutineInv(i)'
  BY <1>3, <1>6, <1>7 DEF GoroutineInv, Fresh, Reserved
<1> QED BY <1>2, <1>8, QuietGoroutine

LEMMA SetHasReadSeqsNumbering ==
    ASSUME NumberingInv, TypeInv', NEW i \in Channel, SetHasReadSeqs(i) PROVE NumberingInv'
<1>1. UNCHANGED <<toPush, toMongo, maxSeq>>
  BY DEF SetHasReadSeqs, kafkaVars
<1>2. CASE pc[i] = "setHasReadFailed"
  BY <1>1, <1>2, LeaveNumbering DEF SetHasReadSeqs
<1>3. CASE pc[i] = "setHasRead"
  <2>1. UNCHANGED <<stage, batch, list, cur, pos>>
    BY <1>3 DEF SetHasReadSeqs
  <2>2. \E l \in {"create", "toMongo"} : pc' = [pc EXCEPT ![i] = l]
    BY <1>3 DEF SetHasReadSeqs, Goto
  <2>3. pc[i] \in Reserved \ {"push"} /\ {"create", "toMongo"} \subseteq Reserved \ {"push"}
    BY <1>3 DEF Reserved
  <2> QED BY <1>1, <2>1, <2>2, <2>3, StayReserved
<1> QED BY <1>2, <1>3 DEF SetHasReadSeqs

LEMMA CreateConversationNumbering ==
    ASSUME NumberingInv, TypeInv', NEW i \in Channel, CreateConversation(i) PROVE NumberingInv'
<1>1. UNCHANGED <<stage, batch, list, cur, pos, toPush, toMongo, maxSeq>>
  BY DEF CreateConversation, kafkaVars, redisVars
<1>2. pc[i] = "create" /\ pc' = [pc EXCEPT ![i] = "toMongo"]
  BY DEF CreateConversation, Goto
<1>3. pc[i] \in Reserved \ {"push"} /\ "toMongo" \in Reserved \ {"push"}
  BY <1>2 DEF Reserved
<1> QED BY <1>1, <1>2, <1>3, StayReserved

LEMMA PushedNumbering ==
    ASSUME NumberingInv, TypeInv', NEW i \in Channel, Pushed(i) PROVE NumberingInv'
<1>1. UNCHANGED <<toPush, toMongo, maxSeq>>
  BY DEF Pushed, kafkaVars
<1> QED BY <1>1, LeaveNumbering DEF Pushed

-----------------------------------------------------------------------------
(* The steps that move MAX_SEQ or issue something.                          *)

\* Goroutines at work on the numbering of something are on different
\* conversations.
LEMMA NumbersDisjoint ==
    ASSUME NumberingInv, NEW i \in Channel, NEW j \in Channel, i # j,
           pc[i] \in Numbers, pc[j] \in Numbers
    PROVE  WorkConv(i) # WorkConv(j)
BY WorkConvDisjoint DEF NumberingInv, Numbers, Fresh, Reserved

LEMMA SetMaxSeqNumbering ==
    ASSUME NumberingInv, TypeInv', NEW i \in Channel, SetMaxSeq(i) PROVE NumberingInv'
<1> DEFINE c == WorkConv(i)
           new == cur[i] + Len(list[i])
<1>1. WorkOK /\ RedisOK
  BY DEF NumberingInv, TypeInv, TypeOK
<1>2. pc[i] = "setMaxSeq" /\ pc[i] \in Numbers /\ pc[i] # "idle"
  BY DEF SetMaxSeq, Numbers, Fresh
<1>3. cur[i] = maxSeq[c] /\ list[i] # <<>>
  BY <1>2 DEF NumberingInv, GoroutineInv, Fresh
<1>4. c \in Conv
  BY <1>2, WorkConvType DEF NumberingInv
<1>5. /\ UNCHANGED <<stage, batch, list, cur, pos, toPush, toMongo>>
      /\ \/ maxSeq' = [maxSeq EXCEPT ![c] = new] /\ pc' = [pc EXCEPT ![i] = "setHasRead"]
         \/ maxSeq' \in {maxSeq, [maxSeq EXCEPT ![c] = new]} /\ pc' = [pc EXCEPT ![i] = "setHasReadFailed"]
  BY DEF SetMaxSeq, NewMaxSeq, AfterSetMaxSeqError, Goto, kafkaVars
<1>6. new \in Nat /\ new > maxSeq[c] /\ Len(list[i]) \in Nat
  BY <1>1, <1>3, <1>4 DEF WorkOK, RedisOK
<1> HIDE DEF c, new
<1>7. \A x \in Conv : maxSeq[x] \in Nat /\ maxSeq'[x] \in Nat /\ maxSeq'[x] >= maxSeq[x]
                      /\ (x # c => maxSeq'[x] = maxSeq[x])
  BY <1>1, <1>4, <1>5, <1>6 DEF RedisOK
<1>8. Issued' = Issued /\ PushedEntries' = PushedEntries
  BY <1>5, IssuedUnchanged
<1>9. WithinMaxSeq'
  BY <1>7, <1>8 DEF NumberingInv, WithinMaxSeq
<1>10. UniqueSeq' /\ PushInSeqOrder'
  <2>1. UniqueSeq'
    BY <1>8 DEF NumberingInv, UniqueSeq
  <2>2. PushInSeqOrder'
    BY <1>5 DEF NumberingInv, PushInSeqOrder
  <2> QED BY <2>1, <2>2
<1>11. GoroutineInv(i)'
  <2>1. CASE pc' = [pc EXCEPT ![i] = "setHasReadFailed"]
    <3>1. pc'[i] \notin Numbers
      BY <1>1, <2>1 DEF WorkOK, Numbers, Fresh, Reserved
    <3> QED BY <3>1, GoroutineOutside
  <2>2. CASE maxSeq' = [maxSeq EXCEPT ![c] = new] /\ pc' = [pc EXCEPT ![i] = "setHasRead"]
    <3>1. pc'[i] = "setHasRead" /\ maxSeq'[c] = new
      BY <1>1, <1>4, <2>2 DEF WorkOK, RedisOK
    <3>2. WorkConv(i)' = c
      BY <1>5 DEF WorkConv, ConvOf, c
    <3>3. Done(i)' = 0
      BY <3>1 DEF Done
    <3>4. \A e \in Issued : e.conv = c => e.seq \in Nat /\ e.seq <= cur[i]
      BY <1>3, <1>4, <1>7 DEF NumberingInv, WithinMaxSeq
    <3>5. \A e \in PushedEntries : e.conv = c => e.seq <= cur[i] + 0
      BY <1>1, <3>4 DEF Issued, WorkOK
    <3>6. \A e \in Issued : ~(e.conv = c /\ e.seq > cur[i])
      BY <1>1, <3>4 DEF WorkOK
    <3>7. cur'[i] + Len(list'[i]) = maxSeq'[c] /\ 0 <= Len(list'[i])
      BY <1>5, <1>6, <3>1 DEF new
    <3>8. ReservedInv(i)'
      BY <1>5, <1>8, <3>2, <3>3, <3>5, <3>6, <3>7 DEF ReservedInv
    <3> QED BY <1>3, <1>5, <3>1, <3>8 DEF GoroutineInv, Fresh, Reserved
  <2> QED BY <1>5, <2>1, <2>2
<1>12. ASSUME NEW j \in Channel, j # i PROVE GoroutineInv(j)'
  <2>1. SameWork(j)
    BY <1>1, <1>5, <1>12 DEF WorkOK, SameWork
  <2>2. pc[j] \in Numbers => maxSeq'[WorkConv(j)] = maxSeq[WorkConv(j)]
    <3> SUFFICES ASSUME pc[j] \in Numbers PROVE maxSeq'[WorkConv(j)] = maxSeq[WorkConv(j)]
      OBVIOUS
    <3>1. WorkConv(j) # c
      BY <1>2, <1>12, NumbersDisjoint DEF c
    <3>2. WorkConv(j) \in Conv
      BY WorkConvType DEF NumberingInv, Numbers, Fresh, Reserved
    <3> QED BY <1>7, <3>1, <3>2
  <2>3. GoroutineInv(j)
    BY DEF NumberingInv
  <2> QED BY <1>8, <2>1, <2>2, <2>3, GoroutineUndisturbed
<1> QED BY <1>9, <1>10, <1>11, <1>12 DEF NumberingInv

\* Appending to the push topic what is above all that was pushed before.
LEMMA PushOrderAppend ==
    ASSUME TypeInv, PushInSeqOrder, NEW q \in Partition, NEW x \in Entry,
           toPush' = [toPush EXCEPT ![q] = Append(toPush[q], x)],
           x.seq > 0 => \A e \in PushedEntries : e.conv = x.conv => e.seq < x.seq
    PROVE  PushInSeqOrder'
<1>1. toPush \in [Partition -> Seq(Entry)]
  BY DEF TypeInv, TypeOK, KafkaOK
<1>2. /\ Len(toPush[q]) \in Nat
      /\ \A j \in 1 .. Len(toPush[q]) : Append(toPush[q], x)[j] = toPush[q][j]
      /\ Append(toPush[q], x)[Len(toPush[q]) + 1] = x
      /\ DOMAIN Append(toPush[q], x) = 1 .. Len(toPush[q]) + 1
      /\ DOMAIN toPush[q] = 1 .. Len(toPush[q])
  BY <1>1, AppendFacts
<1>3. toPush'[q] = Append(toPush[q], x) /\ \A p \in Partition \ {q} : toPush'[p] = toPush[p]
  BY <1>1
<1> SUFFICES ASSUME NEW p \in Partition, NEW n1 \in DOMAIN toPush'[p], NEW n2 \in DOMAIN toPush'[p],
                    n1 < n2, toPush'[p][n1].conv = toPush'[p][n2].conv,
                    toPush'[p][n1].seq > 0, toPush'[p][n2].seq > 0
             PROVE  toPush'[p][n1].seq < toPush'[p][n2].seq
  BY DEF PushInSeqOrder
<1>4. CASE p # q
  BY <1>3, <1>4 DEF PushInSeqOrder
<1>5. CASE p = q /\ n2 \in 1 .. Len(toPush[q])
  <2>1. n1 \in DOMAIN toPush[q] /\ n2 \in DOMAIN toPush[q]
    BY <1>2, <1>3, <1>5
  <2>2. toPush'[p][n1] = toPush[q][n1] /\ toPush'[p][n2] = toPush[q][n2]
    BY <1>2, <1>3, <1>5, <2>1
  <2> QED BY <1>5, <2>1, <2>2 DEF PushInSeqOrder
<1>6. CASE p = q /\ n2 \notin 1 .. Len(toPush[q])
  <2>1. n2 = Len(toPush[q]) + 1 /\ n1 \in DOMAIN toPush[q]
    BY <1>2, <1>3, <1>6
  <2>2. toPush'[p][n2] = x /\ toPush'[p][n1] = toPush[q][n1]
    BY <1>2, <1>3, <1>6, <2>1
  <2>3. toPush[q][n1] \in PushedEntries
    BY <2>1, <2>2, PushedMember
  <2> QED BY <2>2, <2>3
<1> QED BY <1>4, <1>5, <1>6

LEMMA ClassifyNumbering ==
    ASSUME NumberingInv, TypeInv', NEW i \in Channel, Classify(i) PROVE NumberingInv'
<1>1. WorkOK /\ TypeInv
  BY DEF NumberingInv, TypeInv, TypeOK
<1>2. /\ UNCHANGED <<pc, stage, batch, cur, maxSeq, toMongo>>
      /\ toPush' \in {toPush, [toPush EXCEPT ![WorkPart(i)] = Append(toPush[WorkPart(i)], RawEntry(i))]}
      /\ pos' = [pos EXCEPT ![i] = @ + 1]
      /\ list' = list \/ \E m : list' = [list EXCEPT ![i] = m]
      /\ pc[i] = "classify" /\ pos[i] < Len(batch[i])
  BY DEF Classify, redisVars
<1>3. \A j \in Channel \ {i} : SameWork(j)
  BY <1>1, <1>2 DEF WorkOK, SameWork
<1>4. GoroutineInv(i)'
  <2>1. pc'[i] \notin Numbers
    BY <1>2 DEF Numbers, Fresh, Reserved
  <2> QED BY <2>1, GoroutineOutside
<1>5. CASE toPush' = toPush
  BY <1>2, <1>3, <1>4, <1>5, QuietGoroutine
<1>6. CASE toPush' = [toPush EXCEPT ![WorkPart(i)] = Append(toPush[WorkPart(i)], RawEntry(i))]
  <2>1. WorkPart(i) \in Partition /\ RawEntry(i) \in Entry
    BY <1>1, <1>2, WorkConvType, RawType
  <2>2. ~(RawEntry(i).seq > 0)
    BY DEF RawEntry
  <2>3. Issued' = Issued /\ PushedEntries' = PushedEntries
    BY <1>1, <1>2, <1>6, <2>1, <2>2, PushAppends
  <2>4. PushInSeqOrder'
    BY <1>1, <1>6, <2>1, <2>2, PushOrderAppend DEF NumberingInv
  <2>5. WithinMaxSeq'
    BY <1>2, <2>3 DEF NumberingInv, WithinMaxSeq
  <2>6. UniqueSeq'
    BY <2>3 DEF NumberingInv, UniqueSeq
  <2>7. ASSUME NEW j \in Channel, j # i PROVE GoroutineInv(j)'
    <3>1. GoroutineInv(j) /\ SameWork(j)
      BY <1>3, <2>7 DEF NumberingInv
    <3> QED BY <1>2, <2>3, <3>1, GoroutineUndisturbed
  <2> QED BY <1>4, <2>4, <2>5, <2>6, <2>7 DEF NumberingInv
<1> QED BY <1>2, <1>5, <1>6

\* e is message n of the list of goroutine i, under the seq reserved for it.
Listed(i, e) == \E n \in 1 .. Len(list[i]) :
                   e.conv = WorkConv(i) /\ e.seq = cur[i] + n /\ e.msg = list[i][n]

\* Issuing messages of the list keeps the seqs of the conversation unique and
\* does not disturb the other goroutines.
LEMMA IssueListed ==
    ASSUME NumberingInv, NEW i \in Channel, pc[i] \in Reserved, UNCHANGED maxSeq,
           \A e \in Issued' : e \in Issued \/ Listed(i, e),
           \A e \in PushedEntries' : e \in PushedEntries \/ Listed(i, e),
           \A j \in Channel \ {i} : SameWork(j)
    PROVE  /\ WithinMaxSeq'
           /\ UniqueSeq'
           /\ \A j \in Channel \ {i} : GoroutineInv(j)'
           /\ \A e \in Issued' :
                 e.conv = WorkConv(i) /\ e.seq > cur[i] => e.msg = list[i][e.seq - cur[i]]
<1> DEFINE c == WorkConv(i)
<1>1. c \in Conv /\ pc[i] \in Numbers
  BY WorkConvType DEF NumberingInv, Reserved, Numbers
<1>2. /\ cur[i] \in Nat /\ Len(list[i]) \in Nat /\ maxSeq[c] \in Nat
      /\ cur[i] + Len(list[i]) = maxSeq[c]
      /\ \A e \in Issued : e.conv = c /\ e.seq > cur[i] => e.msg = list[i][e.seq - cur[i]]
  BY <1>1 DEF NumberingInv, TypeInv, TypeOK, WorkOK, RedisOK, GoroutineInv, ReservedInv
<1> HIDE DEF c
<1>3. \A e : Listed(i, e) => /\ e.conv = c /\ e.seq \in 1 .. maxSeq[c] /\ e.seq > cur[i]
                             /\ e.msg = list[i][e.seq - cur[i]]
  <2> SUFFICES ASSUME NEW e, Listed(i, e)
               PROVE  /\ e.conv = c /\ e.seq \in 1 .. maxSeq[c] /\ e.seq > cur[i]
                      /\ e.msg = list[i][e.seq - cur[i]]
    OBVIOUS
  <2>1. PICK n \in 1 .. Len(list[i]) : e.conv = c /\ e.seq = cur[i] + n /\ e.msg = list[i][n]
    BY DEF Listed, c
  <2>2. e.seq - cur[i] = n
    BY <1>2, <2>1
  <2>3. e.seq \in 1 .. maxSeq[c] /\ e.seq > cur[i]
    BY <1>2, <2>1
  <2> QED BY <2>1, <2>2, <2>3
<1>4. WithinMaxSeq'
  BY <1>1, <1>3 DEF NumberingInv, WithinMaxSeq
<1>5. \A e \in Issued' : e.conv = c /\ e.seq > cur[i] => e.msg = list[i][e.seq - cur[i]]
  BY <1>2, <1>3
<1>6. UniqueSeq'
  <2> SUFFICES ASSUME NEW e \in Issued', NEW f \in Issued', e.conv = f.conv, e.seq = f.seq
               PROVE  e.msg = f.msg
    BY DEF UniqueSeq
  <2>1. CASE e \in Issued /\ f \in Issued
    BY <2>1 DEF NumberingInv, UniqueSeq
  <2>2. CASE Listed(i, e)
    BY <1>3, <1>5, <2>2
  <2>3. CASE Listed(i, f)
    BY <1>3, <1>5, <2>3
  <2> QED BY <2>1, <2>2, <2>3
<1>7. ASSUME NEW j \in Channel, j # i PROVE GoroutineInv(j)'
  <2>1. GoroutineInv(j) /\ SameWork(j)
    BY <1>7 DEF NumberingInv
  <2>2. pc[j] \in Numbers => WorkConv(j) # c
    BY <1>1, <1>7, NumbersDisjoint DEF c
  <2>3. pc[j] \in Numbers => /\ \A e \in Issued' : e.conv = WorkConv(j) => e \in Issued
                             /\ \A e \in PushedEntries' : e.conv = WorkConv(j) => e \in PushedEntries
    BY <1>3, <2>2
  <2> QED BY <2>1, <2>3, GoroutineUndisturbed
<1> QED BY <1>4, <1>5, <1>6, <1>7 DEF c

LEMMA MsgToMongoMQNumbering ==
    ASSUME NumberingInv, TypeInv', NEW i \in Channel, MsgToMongoMQ(i) PROVE NumberingInv'
<1> DEFINE q == WorkPart(i)
           b == WorkBatch(i)
<1>1. WorkOK /\ TypeInv
  BY DEF NumberingInv, TypeInv, TypeOK
<1>2. /\ UNCHANGED <<stage, batch, list, cur, maxSeq, toPush>>
      /\ toMongo' \in {toMongo, [toMongo EXCEPT ![q] = Append(toMongo[q], b)]}
      /\ pos' = [pos EXCEPT ![i] = 0]
      /\ pc' = [pc EXCEPT ![i] = "push"]
      /\ pc[i] = "toMongo"
  BY DEF MsgToMongoMQ, Goto, redisVars
<1>3. q \in Partition /\ b \in MongoBatch
  BY <1>1, <1>2, WorkConvType, WorkBatchType
<1>4. \A e \in BatchEntries(b) : Listed(i, e)
  <2> SUFFICES ASSUME NEW e \in BatchEntries(b) PROVE Listed(i, e)
    OBVIOUS
  <2>1. PICK n \in DOMAIN list[i] :
           e = [conv |-> WorkConv(i), seq |-> cur[i] + n, msg |-> list[i][n]]
    BY DEF BatchEntries, WorkBatch
  <2>2. n \in 1 .. Len(list[i])
    BY <1>1 DEF WorkOK
  <2> QED BY <2>1, <2>2 DEF Listed
<1>5. /\ \A e \in Issued' : e \in Issued \/ Listed(i, e)
      /\ PushedEntries' = PushedEntries
  <2> HIDE DEF q, b
  <2>1. CASE toMongo' = toMongo
    BY <1>2, <2>1, IssuedUnchanged
  <2>2. CASE toMongo' = [toMongo EXCEPT ![q] = Append(toMongo[q], b)]
    BY <1>1, <1>2, <1>3, <1>4, <2>2, QueueAppends
  <2> QED BY <1>2, <2>1, <2>2
<1>6. \A j \in Channel \ {i} : SameWork(j)
  BY <1>1, <1>2 DEF WorkOK, SameWork
<1>7. pc[i] \in Reserved /\ pc[i] \in Numbers
  BY <1>2 DEF Reserved, Numbers
<1>8. /\ WithinMaxSeq' /\ UniqueSeq'
      /\ \A j \in Channel \ {i} : GoroutineInv(j)'
      /\ \A e \in Issued' :
            e.conv = WorkConv(i) /\ e.seq > cur[i] => e.msg = list[i][e.seq - cur[i]]
  BY <1>2, <1>5, <1>6, <1>7, IssueListed
<1>9. PushInSeqOrder'
  BY <1>2 DEF NumberingInv, PushInSeqOrder
<1>10. GoroutineInv(i)'
  <2>1. pc'[i] = "push" /\ pos'[i] = 0
    BY <1>1, <1>2 DEF WorkOK
  <2>2. WorkConv(i)' = WorkConv(i)
    BY <1>2 DEF WorkConv, ConvOf
  <2>3. Done(i) = 0 /\ Done(i)' = 0
    BY <1>2, <2>1 DEF Done
  <2>4. ReservedInv(i) /\ list[i] # <<>>
    BY <1>7 DEF NumberingInv, GoroutineInv
  <2>5. ReservedInv(i)'
    BY <1>2, <1>5, <1>8, <2>2, <2>3, <2>4 DEF ReservedInv
  <2> QED BY <1>2, <2>1, <2>4, <2>5 DEF GoroutineInv, Fresh, Reserved
<1> QED BY <1>8, <1>9, <1>10 DEF NumberingInv

LEMMA PushNumbering ==
    ASSUME NumberingInv, TypeInv', NEW i \in Channel, Push(i) PROVE NumberingInv'
<1> DEFINE q == WorkPart(i)
           x == PushEntry(i)
<1>1. WorkOK /\ TypeInv
  BY DEF NumberingInv, TypeInv, TypeOK
<1>2. /\ UNCHANGED <<pc, stage, batch, list, cur, maxSeq, toMongo>>
      /\ toPush' \in {toPush, [toPush EXCEPT ![q] = Append(toPush[q], x)]}
      /\ pos' = [pos EXCEPT ![i] = pos[i] + 1]
      /\ pc[i] = "push" /\ pos[i] < Len(list[i])
  BY DEF Push, redisVars
<1>3. q \in Partition /\ x \in Entry
  BY <1>1, <1>2, WorkConvType, PushEntryType
<1>4. /\ cur[i] \in Nat /\ pos[i] \in Nat /\ Len(list[i]) \in Nat
      /\ x.conv = WorkConv(i) /\ x.seq = cur[i] + pos[i] + 1 /\ x.msg = list[i][pos[i] + 1]
  BY <1>1 DEF WorkOK, PushEntry
<1>5. Listed(i, x)
  <2>1. pos[i] + 1 \in 1 .. Len(list[i]) /\ x.seq = cur[i] + (pos[i] + 1)
    BY <1>2, <1>4
  <2> QED BY <1>4, <2>1 DEF Listed
<1>6. pc[i] \in Reserved /\ pc[i] \in Numbers /\ Done(i) = pos[i]
  BY <1>2 DEF Reserved, Numbers, Done
<1>7. ReservedInv(i) /\ list[i] # <<>>
  BY <1>6 DEF NumberingInv, GoroutineInv
<1>8. \A e \in PushedEntries : e.seq \in Nat /\ (e.conv = WorkConv(i) => e.seq < x.seq)
  <2>1. \A e \in PushedEntries : e.seq \in Nat
    BY <1>1 DEF NumberingInv, WithinMaxSeq, Issued, TypeInv, TypeOK, RedisOK
  <2>2. \A e \in PushedEntries : e.conv = WorkConv(i) => e.seq <= cur[i] + pos[i]
    BY <1>6, <1>7 DEF ReservedInv
  <2> QED BY <1>4, <2>1, <2>2
<1> HIDE DEF q, x
<1>9. /\ \A e \in Issued' : e \in Issued \/ Listed(i, e)
      /\ \A e \in PushedEntries' : e \in PushedEntries \/ e = x
      /\ PushInSeqOrder'
  <2>1. CASE toPush' = toPush
    <3>1. Issued' = Issued /\ PushedEntries' = PushedEntries
      BY <1>2, <2>1, IssuedUnchanged
    <3>2. PushInSeqOrder'
      BY <2>1 DEF NumberingInv, PushInSeqOrder
    <3> QED BY <3>1, <3>2
  <2>2. CASE toPush' = [toPush EXCEPT ![q] = Append(toPush[q], x)]
    <3>1. /\ \A e \in Issued' : e \in Issued \/ e = x
          /\ \A e \in PushedEntries' : e \in PushedEntries \/ e = x
      BY <1>1, <1>2, <1>3, <2>2, PushAppends
    <3>2. PushInSeqOrder'
      BY <1>1, <1>3, <1>4, <1>8, <2>2, PushOrderAppend DEF NumberingInv
    <3> QED BY <1>5, <3>1, <3>2
  <2> QED BY <1>2, <2>1, <2>2
<1>10. \A j \in Channel \ {i} : SameWork(j)
  BY <1>1, <1>2 DEF WorkOK, SameWork
<1>11. /\ WithinMaxSeq' /\ UniqueSeq'
       /\ \A j \in Channel \ {i} : GoroutineInv(j)'
       /\ \A e \in Issued' :
             e.conv = WorkConv(i) /\ e.seq > cur[i] => e.msg = list[i][e.seq - cur[i]]
  BY <1>2, <1>5, <1>6, <1>9, <1>10, IssueListed
<1>12. GoroutineInv(i)'
  <2>1. pc'[i] = "push" /\ pos'[i] = pos[i] + 1
    BY <1>1, <1>2 DEF WorkOK
  <2>2. WorkConv(i)' = WorkConv(i)
    BY <1>2 DEF WorkConv, ConvOf
  <2>3. Done(i)' = pos[i] + 1
    BY <2>1 DEF Done
  <2>4. \A e \in PushedEntries' : e.conv = WorkConv(i) => e.seq <= cur[i] + (pos[i] + 1)
    BY <1>4, <1>8, <1>9
  <2>5. pos[i] + 1 <= Len(list[i])
    BY <1>2, <1>4
  <2>6. ReservedInv(i)'
    BY <1>2, <1>7, <1>11, <2>2, <2>3, <2>4, <2>5 DEF ReservedInv
  <2> QED BY <1>2, <1>7, <2>1, <2>6 DEF GoroutineInv, Fresh, Reserved
<1> QED BY <1>9, <1>11, <1>12 DEF NumberingInv

-----------------------------------------------------------------------------
(* The theorems.                                                            *)

LEMMA InitNumbering == Init => NumberingInv
<1> SUFFICES ASSUME Init PROVE NumberingInv
  OBVIOUS
<1>1. TypeInv
  BY InitTypeInv
<1>2. Issued = {}
  BY DEF Init, Issued, PushedEntries, QueuedEntries
<1>3. \A i \in Channel : GoroutineInv(i)
  BY DEF Init, GoroutineInv, Numbers, Fresh, Reserved
<1>4. PushInSeqOrder
  BY DEF Init, PushInSeqOrder
<1> QED BY <1>1, <1>2, <1>3, <1>4 DEF NumberingInv, WithinMaxSeq, UniqueSeq

\* The steps that are not a goroutine's: they issue and number nothing.
LEMMA BackgroundQuiet ==
    ASSUME \/ \E m \in Msg : MsgToMQ(m)
           \/ Intake
           \/ \E p \in Partition : MongoWork(p) \/ CommitOffsets(p)
           \/ Rebalance
           \/ UNCHANGED vars
    PROVE  UNCHANGED <<toPush, toMongo, maxSeq, workVars>>
<1>1. CASE \E m \in Msg : MsgToMQ(m)
  BY <1>1 DEF MsgToMQ, redisVars
<1>2. CASE Intake
  BY <1>2 DEF Intake, ConsumeOne, Tick, SendSlice, Aggregate, Distribute, kafkaVars, redisVars
<1>3. CASE \E p \in Partition : MongoWork(p) \/ CommitOffsets(p)
  BY <1>3 DEF MongoWork, BatchInsertChat2DB, DeleteMessagesFromCache, CommitOffsets, kafkaVars, redisVars
<1>4. CASE Rebalance
  BY <1>4 DEF Rebalance, redisVars
<1>5. CASE UNCHANGED vars
  BY <1>5 DEF vars, kafkaVars, redisVars
<1> QED BY <1>1, <1>2, <1>3, <1>4, <1>5

LEMMA NextNumbering == NumberingInv /\ [Next]_vars => NumberingInv'
<1> SUFFICES ASSUME NumberingInv, [Next]_vars PROVE NumberingInv'
  OBVIOUS
<1>1. TypeInv'
  BY NextTypeInv DEF NumberingInv
<1>2. ASSUME NEW i \in Channel, Work(i) PROVE NumberingInv'
  BY <1>1, <1>2, ReceiveNumbering, ClassifyNumbering, ClassifiedNumbering, GetMaxSeqNumbering,
     SetMessageToCacheNumbering, SetMaxSeqNumbering, SetHasReadSeqsNumbering,
     CreateConversationNumbering, MsgToMongoMQNumbering, PushNumbering, PushedNumbering,
     BatchDoneNumbering DEF Work
<1>3. CASE Crash \/ \E i \in Channel : ModifyPanic(i)
  BY <1>1, <1>3, RestartNumbering DEF Crash, ModifyPanic
<1>4. CASE \/ \E m \in Msg : MsgToMQ(m)
           \/ Intake
           \/ \E p \in Partition : MongoWork(p) \/ CommitOffsets(p)
           \/ Rebalance
           \/ UNCHANGED vars
  BY <1>1, <1>4, BackgroundQuiet, IdleStep
<1> QED BY <1>2, <1>3, <1>4 DEF Next

THEOREM NumberingInvariant == Spec => []NumberingInv
BY InitNumbering, NextNumbering, PTL DEF Spec

\* Two messages never get the same seq of a conversation, although MAX_SEQ is
\* read with GET and written with SET several calls later.
THEOREM UniqueSeqHolds == Spec => []UniqueSeq
<1>1. NumberingInv => UniqueSeq
  BY DEF NumberingInv
<1> QED BY <1>1, NumberingInvariant, PTL

\* A partition of the push topic has the stored messages of a conversation in
\* the order of their seqs, whatever calls fail and however often the process
\* restarts.
THEOREM PushOrderHolds == Spec => []PushInSeqOrder
<1>1. NumberingInv => PushInSeqOrder
  BY DEF NumberingInv
<1> QED BY <1>1, NumberingInvariant, PTL

\* A step of a goroutine moves MAX_SEQ of its conversation up, or adds to what
\* was issued, or does neither.
LEMMA WorkImplements ==
    ASSUME NumberingInv, NumberingInv', NEW i \in Channel, Work(i)
    PROVE  \/ Log!Reserve(WorkConv(i)) /\ WorkConv(i) \in Conv
           \/ UNCHANGED maxSeq /\ Issued \subseteq Issued'
<1>1. WorkOK /\ RedisOK /\ TypeInv
  BY DEF NumberingInv, TypeInv, TypeOK
<1>2. CASE SetMaxSeq(i)
  <2>1. Issued' = Issued
    BY <1>2, IssuedUnchanged DEF SetMaxSeq, kafkaVars
  <2>2. CASE maxSeq' = maxSeq
    BY <2>1, <2>2
  <2>3. CASE maxSeq' = [maxSeq EXCEPT ![WorkConv(i)] = NewMaxSeq(i)]
    <3>1. pc[i] = "setMaxSeq"
      BY <1>2 DEF SetMaxSeq
    <3>2. WorkConv(i) \in Conv
      BY <1>1, <3>1, WorkConvType
    <3>3. cur[i] = maxSeq[WorkConv(i)] /\ list[i] # <<>>
      BY <3>1 DEF NumberingInv, GoroutineInv, Numbers, Fresh
    <3>4. maxSeq'[WorkConv(i)] = NewMaxSeq(i)
      BY <1>1, <2>3, <3>2 DEF RedisOK
    <3>5. NewMaxSeq(i) > maxSeq[WorkConv(i)]
      BY <1>1, <3>3 DEF NewMaxSeq, WorkOK
    <3> QED BY <2>1, <2>3, <3>2, <3>4, <3>5 DEF Log!Reserve
  <2> QED BY <1>2, <2>2, <2>3 DEF SetMaxSeq
<1>3. CASE Classify(i)
  <2>1. UNCHANGED <<maxSeq, toMongo>> /\ pc[i] = "classify" /\ pos[i] < Len(batch[i])
    BY <1>3 DEF Classify, redisVars
  <2>2. toPush' \in {toPush, [toPush EXCEPT ![WorkPart(i)] = Append(toPush[WorkPart(i)], RawEntry(i))]}
    BY <1>3 DEF Classify
  <2>3. WorkPart(i) \in Partition /\ RawEntry(i) \in Entry
    BY <1>1, <2>1, WorkConvType, RawType
  <2> QED BY <1>1, <2>1, <2>2, <2>3, PushAppends, IssuedUnchanged
<1>4. CASE Push(i)
  <2>1. UNCHANGED <<maxSeq, toMongo>> /\ pc[i] = "push" /\ pos[i] < Len(list[i])
    BY <1>4 DEF Push, redisVars
  <2>2. toPush' \in {toPush, [toPush EXCEPT ![WorkPart(i)] = Append(toPush[WorkPart(i)], PushEntry(i))]}
    BY <1>4 DEF Push
  <2>3. WorkPart(i) \in Partition /\ PushEntry(i) \in Entry
    BY <1>1, <2>1, WorkConvType, PushEntryType
  <2> QED BY <1>1, <2>1, <2>2, <2>3, PushAppends, IssuedUnchanged
<1>5. CASE MsgToMongoMQ(i)
  <2>1. UNCHANGED <<maxSeq, toPush>> /\ pc[i] = "toMongo"
    BY <1>5 DEF MsgToMongoMQ, redisVars
  <2>2. toMongo' \in {toMongo, [toMongo EXCEPT ![WorkPart(i)] = Append(toMongo[WorkPart(i)], WorkBatch(i))]}
    BY <1>5 DEF MsgToMongoMQ
  <2>3. WorkPart(i) \in Partition /\ WorkBatch(i) \in MongoBatch
    BY <1>1, <2>1, WorkConvType, WorkBatchType
  <2> QED BY <1>1, <2>1, <2>2, <2>3, QueueAppends, IssuedUnchanged
<1>6. CASE \/ Receive(i) \/ Classified(i) \/ GetMaxSeq(i) \/ SetMessageToCache(i)
           \/ SetHasReadSeqs(i) \/ CreateConversation(i) \/ Pushed(i) \/ BatchDone(i)
  <2>1. UNCHANGED <<toPush, toMongo, maxSeq>>
    BY <1>6 DEF Receive, Classified, GetMaxSeq, SetMessageToCache, SetHasReadSeqs, CreateConversation,
                Pushed, BatchDone, kafkaVars, redisVars
  <2> QED BY <2>1, IssuedUnchanged
<1> QED BY <1>2, <1>3, <1>4, <1>5, <1>6 DEF Work

\* Every step of the pipeline is a step of the conversation log or changes
\* nothing the log shows.
LEMMA NextImplements ==
    ASSUME NumberingInv, NumberingInv', [Next]_vars PROVE [Log!Next]_(Log!vars)
<1>1. ASSUME UNCHANGED maxSeq, Issued \subseteq Issued' PROVE Log!Issue
  BY <1>1 DEF NumberingInv, WithinMaxSeq, UniqueSeq, Log!Issue
<1>2. ASSUME NEW i \in Channel, Work(i) PROVE Log!Next
  BY <1>1, <1>2, WorkImplements DEF Log!Next
<1>3. CASE Crash \/ \E i \in Channel : ModifyPanic(i)
  <2>1. UNCHANGED <<toPush, toMongo, maxSeq>>
    BY <1>3 DEF Crash, ModifyPanic, Restart, redisVars
  <2> QED BY <2>1, IssuedUnchanged DEF Log!vars
<1>4. CASE \/ \E m \in Msg : MsgToMQ(m)
           \/ Intake
           \/ \E p \in Partition : MongoWork(p) \/ CommitOffsets(p)
           \/ Rebalance
           \/ UNCHANGED vars
  BY <1>4, BackgroundQuiet, IssuedUnchanged DEF Log!vars
<1> QED BY <1>2, <1>3, <1>4 DEF Next

\* The pipeline implements ConversationLog: MAX_SEQ only grows, an issued seq
\* is within it and names one message for good.
THEOREM ImplementsLog == Spec => ImplementsConversationLog
<1>1. Init => Log!Init
  BY DEF Init, Log!Init, Issued, PushedEntries, QueuedEntries
<1>2. NumberingInv /\ NumberingInv' /\ [Next]_vars => [Log!Next]_(Log!vars)
  BY NextImplements
<1> QED BY <1>1, <1>2, NumberingInvariant, PTL DEF Spec, ImplementsConversationLog, Log!Spec
=============================================================================
