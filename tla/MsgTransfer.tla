----------------------------- MODULE MsgTransfer -----------------------------
(***************************************************************************)
(* The openim-msgtransfer process: internal/msgtransfer.                   *)
(*                                                                         *)
(* It consumes the topic the message RPC service produces to               *)
(* (latestMsgToRedis), aggregates what it consumed by Kafka key, gives     *)
(* every message of a conversation the next seq of that conversation       *)
(* (BatchInsertChat2Cache, a read-modify-write of the Redis key            *)
(* MAX_SEQ), and hands the numbered messages to the Mongo topic and to the *)
(* push topic.  A second consumer of the same process drains the Mongo     *)
(* topic into MongoDB and then empties the Redis cache.                    *)
(*                                                                         *)
(* Every Redis, Kafka, MongoDB and RPC call is a step of its own, so that  *)
(* goroutines interleave between calls, any call may fail (MaxFaults) and  *)
(* the process may die and restart between any two of them (MaxCrashes).   *)
(***************************************************************************)
EXTENDS Integers, Sequences, FiniteSets

CONSTANTS
    Msg,              \* the messages the RPC service hands to MsgToMQ
    Key,              \* Kafka keys: GenConversationUniqueKeyFor{Single,Group}
    Conv,             \* conversation IDs, chat ("si_", "sg_", "sn_") and "n_"
    User,             \* senders
    Partition,        \* partitions of the three topics
    Channel,          \* the indexes of chArrays
    KeyOf,            \* KeyOf[m]: the key m is produced with
    ChatConv,         \* ChatConv[m]: GetChatConversationIDByMsg(m)
    NotifConv,        \* NotifConv[m]: GetNotificationConversationIDByMsg(m)
    ConvKey,          \* ConvKey[c]: the one key whose messages map to c
    SendID,           \* SendID[m]: the sender of m
    PartitionOf,      \* PartitionOf[k]: sarama's hash partitioner
    ChannelOf,        \* ChannelOf[k]: GetHashCode(k) % ChannelNum
    NotNotification,  \* the messages with option IsNotNotification
    History,          \* the messages with option IsHistory
    SendMsgOpt,       \* the messages with option IsSendMsg
    Reaction,         \* the messages of a Reaction{Modifier,Deleter} type
    ChanCap,          \* capacity of each chArrays[i], 50 in the code
    Split,            \* split, 1000 in the code
    SingleGocMsgNum,  \* GetSingleGocMsgNum(), 100 in the code
    MaxFaults,        \* bound: calls to other services that fail
    MaxCrashes,       \* bound: deaths of the process
    MaxSession        \* bound: consumer group sessions of one process life

Session == 1 .. MaxSession

ASSUME ConstantsAssumption ==
    /\ KeyOf \in [Msg -> Key]
    /\ ChatConv \in [Msg -> Conv]
    /\ NotifConv \in [Msg -> Conv]
    /\ ConvKey \in [Conv -> Key]
    /\ SendID \in [Msg -> User]
    /\ PartitionOf \in [Key -> Partition]
    /\ ChannelOf \in [Key -> Channel]
    /\ NotNotification \subseteq Msg
    /\ History \subseteq Msg
    /\ SendMsgOpt \subseteq Msg
    /\ Reaction \subseteq Msg
    /\ ChanCap \in Nat \ {0}
    /\ Split \in Nat \ {0}
    /\ SingleGocMsgNum \in Nat \ {0}
    /\ MaxFaults \in Nat
    /\ MaxCrashes \in Nat
    /\ MaxSession \in Nat \ {0}

\* Both conversation IDs of a message are built from the same user IDs (or
\* group ID) as its Kafka key, so a conversation belongs to one key.
ASSUME ConvKeyAssumption ==
    \A m \in Msg : /\ ConvKey[ChatConv[m]] = KeyOf[m]
                   /\ ConvKey[NotifConv[m]] = KeyOf[m]

\* A notification conversation ID starts with "n_", no chat conversation ID
\* does.
ASSUME ConvKindAssumption == \A m, n \in Msg : ChatConv[m] # NotifConv[n]

VARIABLES
    \* Kafka: the topics and the consumer offsets
    topic,      \* topic[p]: latestMsgToRedis
    next,       \* next[p]: offset consumed and marked by ConsumeClaim
    committed,  \* committed[p]: offset the broker remembers
    toMongo,    \* toMongo[p]: msgToMongo
    toPush,     \* toPush[p]: msgToPush
    mongoNext, mongoCommitted,
    \* the memory of the process
    session,    \* the current consumer group session
    messages,   \* messages[p][s]: the buffer of ConsumeClaim
    flush,      \* flush[p][s]: what the ticker goroutine still has to send
    slice,      \* the slice MessagesDistributionHandle is aggregating
    dist,       \* dist[k]: aggregationMsgs[k] not yet put into a channel
    ch,         \* ch[i]: chArrays[i]
    pc, stage, batch, list, cur, pos,   \* the goroutine Run(i)
    mc,         \* mc[p]: where the Mongo consumer of partition p is
    \* Redis, MongoDB and the conversation service
    maxSeq,     \* maxSeq[c]: MAX_SEQ:c, 0 when the key does not exist
    hasRead,    \* hasRead[u][c]: HAS_READ_SEQ:u:c, 0 when it does not exist
    cache,      \* MESSAGE_CACHE:c_seq, a set of entries
    esMQ,       \* the list of batches pushed to ES
    mongo,      \* the messages stored in MongoDB, a set of entries
    created,    \* conversations the conversation service was told to create
    \* bounds
    faults, crashes

kafkaVars  == <<topic, next, committed, toMongo, toPush, mongoNext, mongoCommitted>>
intakeVars == <<session, messages, flush>>
distVars   == <<slice, dist>>
workVars   == <<pc, stage, batch, list, cur, pos>>
redisVars  == <<maxSeq, hasRead, cache, esMQ>>
storeVars  == <<mongo, created>>
boundVars  == <<faults, crashes>>
vars == <<kafkaVars, intakeVars, distVars, ch, workVars, mc, redisVars, storeVars, boundVars>>

\* A message as it sits in Redis, in MongoDB or in a downstream topic.
Entry == [conv : Conv, seq : Nat, msg : Msg]
\* A MsgDataToMongoByMQ: message i of list has seq lastSeq + i.
MongoBatch == [conv : Conv, lastSeq : Nat, list : Seq(Msg)]

BatchEntries(b) ==
    { [conv |-> b.conv, seq |-> b.lastSeq + i, msg |-> b.list[i]] : i \in DOMAIN b.list }

\* Mutant: SET NX instead of SET.
KeepExisting(store, new) ==
    store \cup { n \in new : \A e \in store : ~(n.conv = e.conv /\ n.seq = e.seq) }
\* What is stored under a (conversation, seq) pair is overwritten.
Overwrite(store, new) ==
    { e \in store : \A n \in new : ~(n.conv = e.conv /\ n.seq = e.seq) } \cup new

-----------------------------------------------------------------------------
(***************************************************************************)
(* getPushStorageMsgList: what handleMsg and handleNotification get.  A    *)
(* notification with IsSendMsg is cloned into the chat conversation as     *)
(* well.                                                                   *)
(***************************************************************************)
StoredAsMsg(m)    == IF m \in NotNotification THEN m \in History ELSE m \in SendMsgOpt
NotStoredMsg(m)   == m \in NotNotification /\ m \notin History
StoredAsNotif(m)  == m \notin NotNotification /\ m \in History
NotStoredNotif(m) == m \notin NotNotification /\ m \notin History

\* What the handler of a stage stores, and what it only pushes.
Stores(st, m)    == IF st = "msg" THEN StoredAsMsg(m) ELSE StoredAsNotif(m)
PushesRaw(st, m) == IF st = "msg" THEN NotStoredMsg(m) ELSE NotStoredNotif(m)

\* The conversation ID is taken from the first message of the batch.
ConvOf(st, b) == IF st = "msg" THEN ChatConv[b[1]] ELSE NotifConv[b[1]]
WorkConv(i)   == ConvOf(stage[i], batch[i])
WorkPart(i)   == PartitionOf[ConvKey[WorkConv(i)]]
WorkBatch(i)  == [conv |-> WorkConv(i), lastSeq |-> cur[i], list |-> list[i]]

\* The next message to push.  A message that is not stored keeps seq 0.
RawEntry(i)  == [conv |-> WorkConv(i), seq |-> 0, msg |-> batch[i][pos[i] + 1]]
PushEntry(i) == [conv |-> WorkConv(i), seq |-> cur[i] + pos[i] + 1, msg |-> list[i][pos[i] + 1]]

\* The seq of message n of the list.
SeqOf(i, n) == cur[i] + n
\* userSeqMap: the last message of each sender in the list.
Senders(i) == { SendID[list[i][n]] : n \in DOMAIN list[i] }
LastOfSender(i, u, n) ==
    /\ SendID[list[i][n]] = u
    /\ \A k \in DOMAIN list[i] : SendID[list[i][k]] = u => k <= n

-----------------------------------------------------------------------------
Init ==
    /\ topic = [p \in Partition |-> <<>>]
    /\ next = [p \in Partition |-> 0]
    /\ committed = [p \in Partition |-> 0]
    /\ toMongo = [p \in Partition |-> <<>>]
    /\ toPush = [p \in Partition |-> <<>>]
    /\ mongoNext = [p \in Partition |-> 0]
    /\ mongoCommitted = [p \in Partition |-> 0]
    /\ session = 1
    /\ messages = [p \in Partition |-> [s \in Session |-> <<>>]]
    /\ flush = [p \in Partition |-> [s \in Session |-> <<>>]]
    /\ slice = <<>>
    /\ dist = [k \in Key |-> <<>>]
    /\ ch = [i \in Channel |-> <<>>]
    /\ pc = [i \in Channel |-> "idle"]
    /\ stage = [i \in Channel |-> "msg"]
    /\ batch = [i \in Channel |-> <<>>]
    /\ list = [i \in Channel |-> <<>>]
    /\ cur = [i \in Channel |-> 0]
    /\ pos = [i \in Channel |-> 0]
    /\ mc = [p \in Partition |-> "insert"]
    /\ maxSeq = [c \in Conv |-> 0]
    /\ hasRead = [u \in User |-> [c \in Conv |-> 0]]
    /\ cache = {}
    /\ esMQ = <<>>
    /\ mongo = {}
    /\ created = {}
    /\ faults = 0
    /\ crashes = 0

Ok    == UNCHANGED faults
Fails == faults < MaxFaults /\ faults' = faults + 1

\* MsgToMQ, called by the message RPC service for every message it accepts.
MsgToMQ(m) ==
    LET p == PartitionOf[KeyOf[m]] IN
    /\ \A n \in DOMAIN topic[p] : topic[p][n] # m
    /\ topic' = [topic EXCEPT ![p] = Append(@, m)]
    /\ UNCHANGED <<next, committed, toMongo, toPush, mongoNext, mongoCommitted, intakeVars,
                   distVars, ch, workVars, mc, redisVars, storeVars, boundVars>>

-----------------------------------------------------------------------------
(* ConsumeClaim: the claim loop and its ticker goroutine.                  *)

\* The claim loop appends one message to the buffer and marks it at once.
ConsumeOne(p) ==
    /\ next[p] < Len(topic[p])
    /\ messages' = [messages EXCEPT ![p][session] = Append(@, topic[p][next[p] + 1])]
    /\ next' = [next EXCEPT ![p] = @ + 1]
    /\ UNCHANGED <<topic, committed, toMongo, toPush, mongoNext, mongoCommitted, session, flush,
                   distVars, ch, workVars, mc, redisVars, storeVars, boundVars>>

\* The ticker goroutine takes the buffer.  The goroutine of an earlier session
\* is never stopped and still drains that session's buffer.
Tick(p, s) ==
    /\ flush[p][s] = <<>>
    /\ messages[p][s] # <<>>
    /\ flush' = [flush EXCEPT ![p][s] = messages[p][s]]
    /\ messages' = [messages EXCEPT ![p][s] = <<>>]
    /\ UNCHANGED <<kafkaVars, session, distVars, ch, workVars, mc, redisVars, storeVars, boundVars>>

\* Mutant: only full slices are sent, the remainder never is.
FullSlice(buf) == Len(buf) >= Split
\* The loop over len(buffer)/split slices, then the remainder.
HasSlice(buf) == buf # <<>>
SliceLen(buf) == IF Len(buf) < Split THEN Len(buf) ELSE Split

DistIdle == slice = <<>> /\ \A k \in Key : dist[k] = <<>>

\* msgDistributionCh is unbuffered: a slice is handed over when
\* MessagesDistributionHandle is back at its select.
SendSlice(p, s) ==
    LET n == SliceLen(flush[p][s]) IN
    /\ HasSlice(flush[p][s])
    /\ DistIdle
    /\ slice' = SubSeq(flush[p][s], 1, n)
    /\ flush' = [flush EXCEPT ![p][s] = SubSeq(@, n + 1, Len(@))]
    /\ UNCHANGED <<kafkaVars, session, messages, dist, ch, workVars, mc, redisVars, storeVars,
                   boundVars>>

\* Mutant: a later message of the key is put in front.
InFront(l, m) == <<m>> \o l
\* oldM = append(oldM, ctxMsg)
Behind(l, m) == Append(l, m)

\* The aggregation loop: the next message joins the list of its key.
Aggregate ==
    /\ slice # <<>>
    /\ dist' = [dist EXCEPT ![KeyOf[Head(slice)]] = Behind(@, Head(slice))]
    /\ slice' = Tail(slice)
    /\ UNCHANGED <<kafkaVars, intakeVars, ch, workVars, mc, redisVars, storeVars, boundVars>>

\* One key of aggregationMsgs, in Go's random map order, goes to its channel;
\* the send blocks while the channel is full.
Distribute(k) ==
    LET i == ChannelOf[k] IN
    /\ slice = <<>>
    /\ dist[k] # <<>>
    /\ Len(ch[i]) < ChanCap
    /\ ch' = [ch EXCEPT ![i] = Append(@, dist[k])]
    /\ dist' = [dist EXCEPT ![k] = <<>>]
    /\ UNCHANGED <<kafkaVars, intakeVars, slice, workVars, mc, redisVars, storeVars, boundVars>>

-----------------------------------------------------------------------------
(* Run(i): handleMsg, then handleNotification, then MsgToModifyMQ.         *)

Goto(i, l)  == pc' = [pc EXCEPT ![i] = l]

Receive(i) ==
    /\ pc[i] = "idle"
    /\ ch[i] # <<>>
    /\ ch' = [ch EXCEPT ![i] = Tail(@)]
    /\ batch' = [batch EXCEPT ![i] = Head(ch[i])]
    /\ stage' = [stage EXCEPT ![i] = "msg"]
    /\ pos' = [pos EXCEPT ![i] = 0]
    /\ Goto(i, "classify")
    /\ UNCHANGED <<kafkaVars, intakeVars, distVars, list, cur, mc, redisVars, storeVars, boundVars>>

\* Classification and the first toPushTopic of a handler, one message of the
\* batch at a time: a message the handler does not store is pushed (an error of
\* MsgToPushMQ is only logged), one it stores joins the storage list.
Classify(i) ==
    LET m == batch[i][pos[i] + 1] IN
    /\ pc[i] = "classify"
    /\ pos[i] < Len(batch[i])
    /\ \/ /\ PushesRaw(stage[i], m)
          /\ \/ Ok /\ toPush' = [toPush EXCEPT ![WorkPart(i)] = Append(@, RawEntry(i))]
             \/ Fails /\ UNCHANGED toPush
          /\ UNCHANGED list
       \/ /\ Stores(stage[i], m)
          /\ list' = [list EXCEPT ![i] = Append(@, m)]
          /\ Ok /\ UNCHANGED toPush
       \/ /\ ~PushesRaw(stage[i], m) /\ ~Stores(stage[i], m)
          /\ Ok /\ UNCHANGED <<toPush, list>>
    /\ pos' = [pos EXCEPT ![i] = @ + 1]
    /\ UNCHANGED <<topic, next, committed, toMongo, mongoNext, mongoCommitted, intakeVars, distVars, ch,
                   pc, stage, batch, cur, mc, redisVars, storeVars, crashes>>

\* Return from handleMsg / handleNotification.
Leave(i) ==
    /\ IF stage[i] = "msg"
       THEN stage' = [stage EXCEPT ![i] = "notif"] /\ Goto(i, "classify")
       ELSE UNCHANGED stage /\ Goto(i, "modify")
    /\ pos' = [pos EXCEPT ![i] = 0]
    /\ list' = [list EXCEPT ![i] = <<>>]
    /\ cur' = [cur EXCEPT ![i] = 0]
    /\ UNCHANGED batch

\* if len(storageList) > 0
Classified(i) ==
    /\ pc[i] = "classify"
    /\ pos[i] = Len(batch[i])
    /\ IF list[i] = <<>>
       THEN Leave(i)
       ELSE /\ Goto(i, "getMaxSeq")
            /\ pos' = [pos EXCEPT ![i] = 0]
            /\ UNCHANGED <<stage, batch, list, cur>>
    /\ UNCHANGED <<kafkaVars, intakeVars, distVars, ch, mc, redisVars, storeVars, boundVars>>

\* Mutant: off by one.
MaxSeqReadLow(i) == maxSeq[WorkConv(i)] - 1
\* currentMaxSeq, 0 for redis.Nil.
MaxSeqRead(i) == maxSeq[WorkConv(i)]
\* Mutant: every error of GetMaxSeq is taken for redis.Nil.
ErrorAsNil(i) ==
    /\ cur' = [cur EXCEPT ![i] = 0]
    /\ Goto(i, "setCache")
    /\ UNCHANGED <<stage, batch, list, pos>>
\* GetMaxSeq returned an error other than redis.Nil.
GetMaxSeqError(i) == Leave(i)

\* BatchInsertChat2Cache: GetMaxSeq; an error, or more messages than one
\* document holds, loses the batch.
GetMaxSeq(i) ==
    /\ pc[i] = "getMaxSeq"
    /\ \/ /\ Ok
          /\ IF Len(list[i]) > SingleGocMsgNum
             THEN Leave(i)
             ELSE /\ cur' = [cur EXCEPT ![i] = MaxSeqRead(i)]
                  /\ Goto(i, "setCache")
                  /\ UNCHANGED <<stage, batch, list, pos>>
       \/ Fails /\ GetMaxSeqError(i)
    /\ UNCHANGED <<kafkaVars, intakeVars, distVars, ch, mc, redisVars, storeVars, crashes>>

\* SetMessageToCache: on an error any part of the batch may be cached; the
\* error is logged and the batch goes on.
SetMessageToCache(i) ==
    /\ pc[i] = "setCache"
    /\ \/ Ok /\ cache' = Overwrite(cache, BatchEntries(WorkBatch(i)))
       \/ /\ Fails
          /\ \E part \in SUBSET BatchEntries(WorkBatch(i)) : cache' = Overwrite(cache, part)
    /\ Goto(i, "setMaxSeq")
    /\ UNCHANGED <<kafkaVars, intakeVars, distVars, ch, stage, batch, list, cur, pos, mc,
                   maxSeq, hasRead, esMQ, storeVars, crashes>>

\* Mutants: the last message is not counted; one too many is.
OneLess(i) == cur[i] + Len(list[i]) - 1
OneMore(i) == cur[i] + Len(list[i]) + 1
\* currentMaxSeq after the loop that numbers the messages.
NewMaxSeq(i) == cur[i] + Len(list[i])
\* Mutant: the error of SetMaxSeq is ignored, like the one of SetHasReadSeqs.
IgnoreError == "setHasRead"
AfterSetMaxSeqError == "setHasReadFailed"

\* SetMaxSeq.  On an error the client cannot tell whether Redis stored the
\* value; SetHasReadSeqs still runs before the error is returned.
SetMaxSeq(i) ==
    /\ pc[i] = "setMaxSeq"
    /\ \/ /\ Ok
          /\ maxSeq' = [maxSeq EXCEPT ![WorkConv(i)] = NewMaxSeq(i)]
          /\ Goto(i, "setHasRead")
       \/ /\ Fails
          /\ maxSeq' \in {maxSeq, [maxSeq EXCEPT ![WorkConv(i)] = NewMaxSeq(i)]}
          /\ Goto(i, AfterSetMaxSeqError)
    /\ UNCHANGED <<kafkaVars, intakeVars, distVars, ch, stage, batch, list, cur, pos, mc,
                   hasRead, cache, esMQ, storeVars, crashes>>

\* Mutant: the key is taken to hold 1 in a new conversation.
IsNewAtOne(i) == cur[i] = 1
\* isNew: GetMaxSeq found no key (MAX_SEQ is never written with 0).
IsNew(i) == cur[i] = 0

\* SetHasReadSeqs: one SET per sender, in map order, up to the first error;
\* its error is dropped.  The outcome of BatchInsertChat2Cache is SetMaxSeq's.
SetHasReadSeqs(i) ==
    LET After(us, last) ==
            [u \in User |-> IF u \in us
                            THEN [hasRead[u] EXCEPT ![WorkConv(i)] = SeqOf(i, last[u])]
                            ELSE hasRead[u]]
    IN
    /\ pc[i] \in {"setHasRead", "setHasReadFailed"}
    /\ \E last \in [Senders(i) -> DOMAIN list[i]] :
          /\ \A u \in Senders(i) : LastOfSender(i, u, last[u])
          /\ \/ Ok /\ hasRead' = After(Senders(i), last)
             \/ Fails /\ \E us \in SUBSET Senders(i) : hasRead' = After(us, last)
    /\ IF pc[i] = "setHasReadFailed"
       THEN Leave(i)
       ELSE /\ Goto(i, IF stage[i] = "msg" /\ IsNew(i) THEN "create" ELSE "toMongo")
            /\ UNCHANGED <<stage, batch, list, cur, pos>>
    /\ UNCHANGED <<kafkaVars, intakeVars, distVars, ch, mc, maxSeq, cache, esMQ, storeVars, crashes>>

\* isNewConversation: {Group,Single}ChatFirstCreateConversation; an error is
\* only logged, and the conversation is not new the next time.
CreateConversation(i) ==
    /\ pc[i] = "create"
    /\ \/ Ok /\ created' = created \cup {WorkConv(i)}
       \/ Fails /\ UNCHANGED created
    /\ Goto(i, "toMongo")
    /\ UNCHANGED <<kafkaVars, intakeVars, distVars, ch, stage, batch, list, cur, pos, mc, redisVars,
                   mongo, crashes>>

\* MsgToMongoMQ; an error is only logged.
MsgToMongoMQ(i) ==
    /\ pc[i] = "toMongo"
    /\ \/ Ok /\ toMongo' = [toMongo EXCEPT ![WorkPart(i)] = Append(@, WorkBatch(i))]
       \/ Fails /\ UNCHANGED toMongo
    /\ pos' = [pos EXCEPT ![i] = 0]
    /\ Goto(i, "push")
    /\ UNCHANGED <<topic, next, committed, toPush, mongoNext, mongoCommitted, intakeVars, distVars, ch,
                   stage, batch, list, cur, mc, redisVars, storeVars, crashes>>

\* toPushTopic: one MsgToPushMQ per message; an error is only logged.
Push(i) ==
    /\ pc[i] = "push"
    /\ pos[i] < Len(list[i])
    /\ \/ Ok /\ toPush' = [toPush EXCEPT ![WorkPart(i)] = Append(@, PushEntry(i))]
       \/ Fails /\ UNCHANGED toPush
    /\ pos' = [pos EXCEPT ![i] = @ + 1]
    /\ UNCHANGED <<topic, next, committed, toMongo, mongoNext, mongoCommitted, intakeVars, distVars, ch,
                   pc, stage, batch, list, cur, mc, redisVars, storeVars, crashes>>

\* After the last push, handleMsg sends the batch to the ES list (the error is
\* ignored); handleNotification just returns.
Pushed(i) ==
    /\ pc[i] = "push"
    /\ pos[i] = Len(list[i])
    /\ \/ /\ Ok
          /\ esMQ' = IF stage[i] = "msg" THEN Append(esMQ, WorkBatch(i)) ELSE esMQ
       \/ stage[i] = "msg" /\ Fails /\ UNCHANGED esMQ
    /\ Leave(i)
    /\ UNCHANGED <<kafkaVars, intakeVars, distVars, ch, mc, maxSeq, hasRead, cache, storeVars, crashes>>

\* MsgToModifyMQ does nothing for an empty modifyMsgList.
BatchDone(i) ==
    /\ pc[i] = "modify"
    /\ \A n \in DOMAIN batch[i] : batch[i][n] \notin Reaction
    /\ Goto(i, "idle")
    /\ batch' = [batch EXCEPT ![i] = <<>>]
    /\ UNCHANGED <<kafkaVars, intakeVars, distVars, ch, stage, list, cur, pos, mc, redisVars, storeVars,
                   boundVars>>

-----------------------------------------------------------------------------
(* handleChatWs2Mongo: the consumer of the Mongo topic.                     *)

MongoMsg(p) == toMongo[p][mongoNext[p] + 1]

\* BatchInsertChat2DB; on an error only a prefix of the batch was written.
BatchInsertChat2DB(p) ==
    /\ mc[p] = "insert"
    /\ mongoNext[p] < Len(toMongo[p])
    /\ \/ Ok /\ mongo' = Overwrite(mongo, BatchEntries(MongoMsg(p)))
       \/ /\ Fails
          /\ \E n \in 0 .. Len(MongoMsg(p).list) - 1 :
                mongo' = Overwrite(mongo,
                            BatchEntries([MongoMsg(p) EXCEPT !.list = SubSeq(@, 1, n)]))
    /\ mc' = [mc EXCEPT ![p] = "delete"]
    /\ UNCHANGED <<kafkaVars, intakeVars, distVars, ch, workVars, redisVars, created, crashes>>

\* DeleteMessagesFromCache runs whether or not the insert succeeded; then the
\* Kafka message is marked.
DeleteMessagesFromCache(p) ==
    /\ mc[p] = "delete"
    /\ \/ /\ Ok
          /\ cache' = { e \in cache : \A d \in BatchEntries(MongoMsg(p)) :
                                          ~(d.conv = e.conv /\ d.seq = e.seq) }
       \/ /\ Fails
          /\ \E kept \in SUBSET { e \in cache : \E d \in BatchEntries(MongoMsg(p)) :
                                                  d.conv = e.conv /\ d.seq = e.seq } :
                cache' = kept \cup { e \in cache : \A d \in BatchEntries(MongoMsg(p)) :
                                                     ~(d.conv = e.conv /\ d.seq = e.seq) }
    /\ mc' = [mc EXCEPT ![p] = "insert"]
    /\ mongoNext' = [mongoNext EXCEPT ![p] = @ + 1]
    /\ UNCHANGED <<topic, next, committed, toMongo, toPush, mongoCommitted, intakeVars, distVars, ch,
                   workVars, maxSeq, hasRead, esMQ, storeVars, crashes>>

-----------------------------------------------------------------------------
(* What happens to the process.                                             *)

\* Mutant: a message of the Mongo topic is marked before it is handled.
MarkedEarly(p) == IF mongoNext[p] < Len(toMongo[p]) THEN mongoNext[p] + 1 ELSE mongoNext[p]
\* The offset the Mongo consumer has marked.
MongoMarked(p) == mongoNext[p]

\* sarama commits the marked offsets in the background.
CommitOffsets(p) ==
    /\ <<committed[p], mongoCommitted[p]>> # <<next[p], MongoMarked(p)>>
    /\ committed' = [committed EXCEPT ![p] = next[p]]
    /\ mongoCommitted' = [mongoCommitted EXCEPT ![p] = MongoMarked(p)]
    /\ UNCHANGED <<topic, next, toMongo, toPush, mongoNext, intakeVars, distVars, ch, workVars, mc,
                   redisVars, storeVars, boundVars>>

\* The consumer group session ends and Consume starts the next one: marked
\* offsets are flushed, the new ConsumeClaim has a new buffer and a new ticker.
Rebalance ==
    /\ session < MaxSession
    /\ session' = session + 1
    /\ committed' = next
    /\ UNCHANGED <<topic, next, toMongo, toPush, mongoNext, mongoCommitted, messages, flush,
                   distVars, ch, workVars, mc, redisVars, storeVars, boundVars>>

\* The process dies and is started again: its memory is gone and consumption
\* resumes at the committed offsets.
Restart ==
    /\ crashes < MaxCrashes
    /\ crashes' = crashes + 1
    /\ next' = committed
    /\ mongoNext' = mongoCommitted
    /\ session' = 1
    /\ messages' = [p \in Partition |-> [s \in Session |-> <<>>]]
    /\ flush' = [p \in Partition |-> [s \in Session |-> <<>>]]
    /\ slice' = <<>>
    /\ dist' = [k \in Key |-> <<>>]
    /\ ch' = [i \in Channel |-> <<>>]
    /\ pc' = [i \in Channel |-> "idle"]
    /\ stage' = [i \in Channel |-> "msg"]
    /\ batch' = [i \in Channel |-> <<>>]
    /\ list' = [i \in Channel |-> <<>>]
    /\ cur' = [i \in Channel |-> 0]
    /\ pos' = [i \in Channel |-> 0]
    /\ mc' = [p \in Partition |-> "insert"]
    /\ UNCHANGED <<topic, committed, toMongo, toPush, mongoCommitted, redisVars, storeVars, faults>>

Crash == Restart

\* MsgToModifyMQ for a non-empty list: producerToModify is never constructed,
\* SendMessage dereferences nil and the panic ends the process.
ModifyPanic(i) ==
    /\ pc[i] = "modify"
    /\ \E n \in DOMAIN batch[i] : batch[i][n] \in Reaction
    /\ Restart

-----------------------------------------------------------------------------
Intake == \/ \E p \in Partition : ConsumeOne(p)
          \/ \E p \in Partition, s \in Session : Tick(p, s) \/ SendSlice(p, s)
          \/ Aggregate
          \/ \E k \in Key : Distribute(k)

Work(i) == \/ Receive(i) \/ Classify(i) \/ Classified(i) \/ GetMaxSeq(i)
           \/ SetMessageToCache(i) \/ SetMaxSeq(i) \/ SetHasReadSeqs(i)
           \/ CreateConversation(i) \/ MsgToMongoMQ(i) \/ Push(i) \/ Pushed(i) \/ BatchDone(i)

MongoWork(p) == BatchInsertChat2DB(p) \/ DeleteMessagesFromCache(p)

Next == \/ \E m \in Msg : MsgToMQ(m)
        \/ Intake
        \/ \E i \in Channel : Work(i) \/ ModifyPanic(i)
        \/ \E p \in Partition : MongoWork(p) \/ CommitOffsets(p)
        \/ Rebalance
        \/ Crash

Spec == Init /\ [][Next]_vars

\* Every goroutine that can run does; a ticker fires again and again.  Nothing
\* forces a client to send, a session to end or the process to die.
Fairness ==
    /\ \A p \in Partition : WF_vars(ConsumeOne(p)) /\ WF_vars(MongoWork(p))
    /\ \A p \in Partition, s \in Session : WF_vars(Tick(p, s)) /\ SF_vars(SendSlice(p, s))
    /\ WF_vars(Aggregate) /\ \A k \in Key : WF_vars(Distribute(k))
    /\ \A i \in Channel : WF_vars(Work(i))

FairSpec == Spec /\ Fairness

-----------------------------------------------------------------------------
(* Properties.                                                              *)

PCs == {"idle", "classify", "getMaxSeq", "setCache", "setMaxSeq", "setHasRead",
        "setHasReadFailed", "create", "toMongo", "push", "modify"}

KafkaOK  == /\ topic \in [Partition -> Seq(Msg)]
            /\ next \in [Partition -> Nat]
            /\ committed \in [Partition -> Nat]
            /\ toMongo \in [Partition -> Seq(MongoBatch)]
            /\ toPush \in [Partition -> Seq(Entry)]
            /\ mongoNext \in [Partition -> Nat]
            /\ mongoCommitted \in [Partition -> Nat]
IntakeOK == /\ session \in Session
            /\ messages \in [Partition -> [Session -> Seq(Msg)]]
            /\ flush \in [Partition -> [Session -> Seq(Msg)]]
DistOK   == /\ slice \in Seq(Msg)
            /\ dist \in [Key -> Seq(Msg)]
ChanOK   == ch \in [Channel -> Seq(Seq(Msg))]
WorkOK   == /\ pc \in [Channel -> PCs]
            /\ stage \in [Channel -> {"msg", "notif"}]
            /\ batch \in [Channel -> Seq(Msg)]
            /\ list \in [Channel -> Seq(Msg)]
            /\ cur \in [Channel -> Nat]
            /\ pos \in [Channel -> Nat]
MongoOK  == /\ mc \in [Partition -> {"insert", "delete"}]
            /\ \A p \in Partition : mc[p] = "delete" => mongoNext[p] < Len(toMongo[p])
RedisOK  == /\ maxSeq \in [Conv -> Nat]
            /\ hasRead \in [User -> [Conv -> Nat]]
            /\ cache \subseteq Entry
            /\ esMQ \in Seq(MongoBatch)
StoreOK  == mongo \subseteq Entry /\ created \subseteq Conv
BoundOK  == faults \in Nat /\ crashes \in Nat

TypeOK == /\ KafkaOK /\ IntakeOK /\ DistOK /\ ChanOK /\ WorkOK /\ MongoOK
          /\ RedisOK /\ StoreOK /\ BoundOK

PushedEntries ==
    { e \in UNION { { toPush[p][n] : n \in DOMAIN toPush[p] } : p \in Partition } : e.seq > 0 }
QueuedEntries ==
    UNION { UNION { BatchEntries(toMongo[p][n]) : n \in DOMAIN toMongo[p] } : p \in Partition }
\* What left msgtransfer with a seq.
Issued == PushedEntries \cup QueuedEntries

\* A seq of a conversation names one message: whatever failed or restarted in
\* between, the Mongo topic and the push topic never carry two messages under
\* the same (conversation, seq).  BatchInsertChat2Cache reads MAX_SEQ and
\* writes it back with plain GET and SET; that this is enough rests on
\* MessagesDistributionHandle giving a key to one channel, and on a batch whose
\* SetMaxSeq failed being dropped before it reaches a topic.
UniqueSeq ==
    \A e, f \in Issued : e.conv = f.conv /\ e.seq = f.seq => e.msg = f.msg

\* The push topic carries the stored messages of a conversation in seq order,
\* although they pass through a buffer, a map and a channel, and pushes fail.
PushInSeqOrder ==
    \A p \in Partition : \A n1, n2 \in DOMAIN toPush[p] :
        LET e == toPush[p][n1]
            f == toPush[p][n2]
        IN  n1 < n2 /\ e.conv = f.conv /\ e.seq > 0 /\ f.seq > 0 => e.seq < f.seq

Log == INSTANCE ConversationLog WITH max <- maxSeq, log <- Issued

\* The pipeline implements the conversation log its readers rely on: MAX_SEQ is
\* never moved back, although it is written from a value read several calls
\* earlier; nothing is issued above it; and an issued seq keeps its message.
ImplementsConversationLog == Log!Spec

PendingMongo ==
    UNION { UNION { BatchEntries(toMongo[p][n]) :
                    n \in { k \in DOMAIN toMongo[p] : k > mongoCommitted[p] } } : p \in Partition }

\* When no call fails, a message that was pushed to its receivers is in MongoDB
\* or will be: it is in the Mongo topic behind an offset not yet committed.
\* Holds across a crash because handleMsg queues for Mongo before it pushes and
\* the Mongo consumer marks a message after it has stored it.
PushedIsDurable == faults = 0 => PushedEntries \subseteq mongo \cup PendingMongo

\* When no call fails, the cache never serves, for a seq a reader may ask for,
\* another message than the one issued under that seq: what a crashed batch
\* left in the cache is overwritten before MAX_SEQ covers it.
CacheServesIssued ==
    faults = 0 => \A e \in cache, f \in Issued :
                     e.conv = f.conv /\ e.seq = f.seq /\ e.seq <= maxSeq[e.conv] => e.msg = f.msg

Before(m, n) ==
    \E p \in Partition : \E j, k \in DOMAIN topic[p] : j < k /\ topic[p][j] = m /\ topic[p][k] = n

\* Messages of one key are numbered in the order the RPC service produced them
\* when the process does not restart and its session does not change: the
\* buffer swap, the split, the aggregation map and the channel keep that order.
NumberedInSendOrder ==
    session = 1 /\ crashes = 0 =>
        \A e, f \in Issued : e.conv = f.conv /\ Before(e.msg, f.msg) => e.seq < f.seq

\* Without failures every seq up to MAX_SEQ belongs to a message that was
\* queued for MongoDB or is in the hands of the goroutine that numbered it, so
\* a client that pulls a range finds no hole in it.
NoGap ==
    faults = 0 /\ crashes = 0 =>
        \A c \in Conv : \A q \in 1 .. maxSeq[c] :
            \/ \E e \in QueuedEntries : e.conv = c /\ e.seq = q
            \/ \E i \in Channel : /\ pc[i] \in {"setHasRead", "create", "toMongo"}
                                  /\ WorkConv(i) = c
                                  /\ q \in cur[i] + 1 .. cur[i] + Len(list[i])

\* Without failures a receiver is pushed a stored chat message only after the
\* conversation service was told to create the conversation.
ConversationBeforePush ==
    faults = 0 /\ crashes = 0 =>
        \A e \in PushedEntries : e.conv = ChatConv[e.msg] => e.conv \in created

Stored(m) == (m \in History \/ (m \notin NotNotification /\ m \in SendMsgOpt))

\* Without failures and crashes every message handed to MsgToMQ is pushed, and
\* stored in MongoDB when its options ask for it, however buffers and channels
\* fill up on the way.
EveryMessageArrives ==
    \A m \in Msg :
        (\E p \in Partition : \E n \in DOMAIN topic[p] : topic[p][n] = m)
            ~> /\ \E p \in Partition : \E n \in DOMAIN toPush[p] : toPush[p][n].msg = m
               /\ Stored(m) => \E e \in mongo : e.msg = m
=============================================================================
