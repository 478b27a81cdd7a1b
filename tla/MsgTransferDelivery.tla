------------------------- MODULE MsgTransferDelivery -------------------------
(***************************************************************************)
(* What msgtransfer promises about the messages it numbered, for every set *)
(* of messages, keys and channels: without failing calls a pushed message  *)
(* is stored or queued behind an offset not yet committed, the cache       *)
(* serves what was issued, and without crashes the seqs of a conversation  *)
(* have no gap and its first message is pushed after its creation.         *)
(*                                                                         *)
(* Each has an inductive invariant of its own beside NumberingInv.         *)
(***************************************************************************)
EXTENDS MsgTransferProofs

\* The part of a handler between caching a batch and the end of its pushes.
Tracked == {"setMaxSeq"} \cup Reserved

stored == <<mongo, mongoNext, mongoCommitted, mc>>

-----------------------------------------------------------------------------
(* The steps of a goroutine, as far as they matter here.                    *)

\* A step of goroutine i that numbers, queues, caches and creates nothing.
Quiet(i) ==
    /\ UNCHANGED <<toMongo, maxSeq, cache, created>>
    /\ PushedEntries' = PushedEntries
    /\ pc[i] \notin {"setHasRead", "create", "toMongo"}
    /\ pc'[i] \notin Tracked

LEMMA QuietPush ==
    ASSUME NumberingInv, NEW i \in Channel,
           Receive(i) \/ Classify(i) \/ Classified(i) \/ GetMaxSeq(i) \/ Pushed(i) \/ BatchDone(i)
    PROVE  PushedEntries' = PushedEntries
<1>1. TypeInv
  BY DEF NumberingInv
<1>2. CASE UNCHANGED <<toPush, toMongo>>
  BY <1>2, IssuedUnchanged
<1>3. CASE Classify(i)
  <2>1. UNCHANGED toMongo /\ pc[i] = "classify" /\ pos[i] < Len(batch[i])
    BY <1>3 DEF Classify
  <2>2. toPush' \in {toPush, [toPush EXCEPT ![WorkPart(i)] = Append(toPush[WorkPart(i)], RawEntry(i))]}
    BY <1>3 DEF Classify
  <2>3. WorkPart(i) \in Partition /\ RawEntry(i) \in Entry
    BY <1>1, <2>1, WorkConvType, RawType
  <2>4. ~(RawEntry(i).seq > 0)
    BY DEF RawEntry
  <2> QED BY <1>1, <1>2, <2>1, <2>2, <2>3, <2>4, PushAppends
<1> QED BY <1>2, <1>3 DEF Receive, Classified, GetMaxSeq, Pushed, BatchDone, kafkaVars

\* Leaving a handler ends the numbering part.
LEMMA LeaveUntracked ==
    ASSUME TypeInv, NEW i \in Channel, Leave(i)
    PROVE  /\ pc'[i] \notin Tracked
           /\ \A j \in Channel \ {i} : SameWork(j)
BY DEF TypeInv, TypeOK, WorkOK, Leave, Goto, Tracked, Reserved, SameWork

LEMMA QuietWork ==
    ASSUME NumberingInv, NEW i \in Channel,
           \/ Receive(i) \/ Classify(i) \/ Classified(i) \/ GetMaxSeq(i) \/ Pushed(i) \/ BatchDone(i)
           \/ SetHasReadSeqs(i) /\ pc[i] = "setHasReadFailed"
    PROVE  /\ Quiet(i)
           /\ \A j \in Channel \ {i} : SameWork(j)
<1>1. TypeInv /\ WorkOK
  BY DEF NumberingInv, TypeInv, TypeOK
<1>2. PushedEntries' = PushedEntries
  BY QuietPush, IssuedUnchanged DEF SetHasReadSeqs, kafkaVars
<1>3. UNCHANGED <<toMongo, maxSeq, cache, created>>
  BY DEF Receive, Classify, Classified, GetMaxSeq, Pushed, BatchDone, SetHasReadSeqs, kafkaVars,
         redisVars, storeVars
<1>4. pc[i] \notin {"setHasRead", "create", "toMongo"}
  BY DEF Receive, Classify, Classified, GetMaxSeq, Pushed, BatchDone
<1>5. pc'[i] \notin Tracked /\ \A j \in Channel \ {i} : SameWork(j)
  <2>1. CASE Leave(i)
    BY <1>1, <2>1, LeaveUntracked
  <2>2. CASE Receive(i) \/ BatchDone(i)
    BY <1>1, <2>2 DEF Receive, BatchDone, Goto, WorkOK, Tracked, Reserved, SameWork
  <2>3. CASE Classify(i)
    <3>1. /\ UNCHANGED <<pc, stage, batch, cur>> /\ pc[i] = "classify"
          /\ pos' = [pos EXCEPT ![i] = @ + 1]
          /\ list' = list \/ \E m : list' = [list EXCEPT ![i] = m]
      BY <2>3 DEF Classify
    <3> QED BY <1>1, <3>1 DEF WorkOK, Tracked, Reserved, SameWork
  <2>4. CASE Classified(i) /\ ~Leave(i)
    BY <1>1, <2>4 DEF Classified, Goto, WorkOK, Tracked, Reserved, SameWork
  <2>5. CASE GetMaxSeq(i) /\ ~Leave(i)
    BY <1>1, <2>5 DEF GetMaxSeq, GetMaxSeqError, Goto, WorkOK, Tracked, Reserved, SameWork
  <2>6. Pushed(i) => Leave(i)
    BY DEF Pushed
  <2>7. SetHasReadSeqs(i) /\ pc[i] = "setHasReadFailed" => Leave(i)
    BY DEF SetHasReadSeqs
  <2> QED BY <2>1, <2>2, <2>3, <2>4, <2>5, <2>6, <2>7
<1> QED BY <1>2, <1>3, <1>4, <1>5 DEF Quiet

\* Goroutine i goes from l to m and keeps its batch.
Moves(i, l, m) == pc[i] = l /\ pc'[i] = m /\ UNCHANGED <<stage, batch, list, cur>>

Caches(i) == /\ Moves(i, "setCache", "setMaxSeq")
             /\ cache' = Overwrite(cache, BatchEntries(WorkBatch(i)))
             /\ UNCHANGED <<toMongo, toPush, maxSeq, created>>
Reserves(i) == /\ Moves(i, "setMaxSeq", "setHasRead")
               /\ maxSeq' = [maxSeq EXCEPT ![WorkConv(i)] = NewMaxSeq(i)]
               /\ UNCHANGED <<toMongo, toPush, cache, created>>
Marks(i) == /\ Moves(i, "setHasRead", IF stage[i] = "msg" /\ cur[i] = 0 THEN "create" ELSE "toMongo")
            /\ UNCHANGED <<toMongo, toPush, maxSeq, cache, created>>
Creates(i) == /\ Moves(i, "create", "toMongo")
              /\ created' = created \cup {WorkConv(i)}
              /\ UNCHANGED <<toMongo, toPush, maxSeq, cache>>
Queues(i) == /\ Moves(i, "toMongo", "push")
             /\ toMongo' = [toMongo EXCEPT ![WorkPart(i)] = Append(toMongo[WorkPart(i)], WorkBatch(i))]
             /\ UNCHANGED <<toPush, maxSeq, cache, created>>
Pushes(i) == /\ Moves(i, "push", "push")
             /\ pos[i] < Len(list[i])
             /\ toPush' = [toPush EXCEPT ![WorkPart(i)] = Append(toPush[WorkPart(i)], PushEntry(i))]
             /\ UNCHANGED <<toMongo, maxSeq, cache, created>>

\* A step that fails counts a fault.
LEMMA NoFault ==
    ASSUME TypeInv, faults' = 0, Ok \/ Fails
    PROVE  Ok /\ ~Fails /\ faults = 0
BY DEF TypeInv, TypeOK, BoundOK, Ok, Fails

\* What a goroutine does when no call fails.
LEMMA WorkSteps ==
    ASSUME NumberingInv, NEW i \in Channel, Work(i), faults' = 0
    PROVE  /\ faults = 0 /\ UNCHANGED <<stored, crashes>>
           /\ \A j \in Channel \ {i} : SameWork(j)
           /\ \/ Quiet(i) \/ Caches(i) \/ Reserves(i) \/ Marks(i) \/ Creates(i) \/ Queues(i) \/ Pushes(i)
<1>1. TypeInv /\ WorkOK
  BY DEF NumberingInv, TypeInv, TypeOK
<1>2. Ok \/ Fails
  BY DEF Work, Receive, Classify, Classified, GetMaxSeq, SetMessageToCache, SetMaxSeq, SetHasReadSeqs,
         CreateConversation, MsgToMongoMQ, Push, Pushed, BatchDone, Ok, boundVars
<1>3. Ok /\ ~Fails /\ faults = 0
  BY <1>1, <1>2, NoFault
<1>4. UNCHANGED <<stored, crashes>>
  BY DEF Work, Receive, Classify, Classified, GetMaxSeq, SetMessageToCache, SetMaxSeq, SetHasReadSeqs,
         CreateConversation, MsgToMongoMQ, Push, Pushed, BatchDone, kafkaVars, storeVars, boundVars, stored
<1>5. CASE \/ Receive(i) \/ Classify(i) \/ Classified(i) \/ GetMaxSeq(i) \/ Pushed(i) \/ BatchDone(i)
           \/ SetHasReadSeqs(i) /\ pc[i] = "setHasReadFailed"
  BY <1>3, <1>4, <1>5, QuietWork
<1>6. CASE SetMessageToCache(i)
  <2>1. /\ pc[i] = "setCache" /\ pc' = [pc EXCEPT ![i] = "setMaxSeq"]
        /\ UNCHANGED <<stage, batch, list, cur, pos, toMongo, toPush, maxSeq, created>>
        /\ cache' = Overwrite(cache, BatchEntries(WorkBatch(i)))
    BY <1>3, <1>6 DEF SetMessageToCache, Goto, kafkaVars, storeVars
  <2> QED BY <1>1, <1>3, <1>4, <2>1 DEF WorkOK, SameWork, Caches, Moves
<1>7. CASE SetMaxSeq(i)
  <2>1. /\ pc[i] = "setMaxSeq" /\ pc' = [pc EXCEPT ![i] = "setHasRead"]
        /\ UNCHANGED <<stage, batch, list, cur, pos, toMongo, toPush, cache, created>>
        /\ maxSeq' = [maxSeq EXCEPT ![WorkConv(i)] = NewMaxSeq(i)]
    BY <1>3, <1>7 DEF SetMaxSeq, Goto, kafkaVars, storeVars
  <2> QED BY <1>1, <1>3, <1>4, <2>1 DEF WorkOK, SameWork, Reserves, Moves
<1>8. CASE SetHasReadSeqs(i) /\ pc[i] # "setHasReadFailed"
  <2>1. /\ pc[i] = "setHasRead"
        /\ pc' = [pc EXCEPT ![i] = IF stage[i] = "msg" /\ cur[i] = 0 THEN "create" ELSE "toMongo"]
        /\ UNCHANGED <<stage, batch, list, cur, pos, toMongo, toPush, maxSeq, cache, created>>
    BY <1>8 DEF SetHasReadSeqs, Goto, IsNew, kafkaVars, storeVars
  <2> QED BY <1>1, <1>3, <1>4, <2>1 DEF WorkOK, SameWork, Marks, Moves
<1>9. CASE CreateConversation(i)
  <2>1. /\ pc[i] = "create" /\ pc' = [pc EXCEPT ![i] = "toMongo"]
        /\ UNCHANGED <<stage, batch, list, cur, pos, toMongo, toPush, maxSeq, cache>>
        /\ created' = created \cup {WorkConv(i)}
    BY <1>3, <1>9 DEF CreateConversation, Goto, kafkaVars, redisVars
  <2> QED BY <1>1, <1>3, <1>4, <2>1 DEF WorkOK, SameWork, Creates, Moves
<1>10. CASE MsgToMongoMQ(i)
  <2>1. /\ pc[i] = "toMongo" /\ pc' = [pc EXCEPT ![i] = "push"] /\ pos' = [pos EXCEPT ![i] = 0]
        /\ UNCHANGED <<stage, batch, list, cur, toPush, maxSeq, cache, created>>
        /\ toMongo' = [toMongo EXCEPT ![WorkPart(i)] = Append(toMongo[WorkPart(i)], WorkBatch(i))]
    BY <1>3, <1>10 DEF MsgToMongoMQ, Goto, redisVars, storeVars
  <2> QED BY <1>1, <1>3, <1>4, <2>1 DEF WorkOK, SameWork, Queues, Moves
<1>11. CASE Push(i)
  <2>1. /\ pc[i] = "push" /\ pos[i] < Len(list[i]) /\ pos' = [pos EXCEPT ![i] = pos[i] + 1]
        /\ UNCHANGED <<pc, stage, batch, list, cur, toMongo, maxSeq, cache, created>>
        /\ toPush' = [toPush EXCEPT ![WorkPart(i)] = Append(toPush[WorkPart(i)], PushEntry(i))]
    BY <1>3, <1>11 DEF Push, redisVars, storeVars
  <2> QED BY <1>1, <1>3, <1>4, <2>1 DEF WorkOK, SameWork, Pushes, Moves
<1> QED BY <1>5, <1>6, <1>7, <1>8, <1>9, <1>10, <1>11 DEF Work, SetHasReadSeqs

\* The intake of messages touches none of this.
LEMMA IntakeSteps ==
    ASSUME (\E m \in Msg : MsgToMQ(m)) \/ Intake \/ Rebalance \/ UNCHANGED vars
    PROVE  UNCHANGED <<toPush, toMongo, maxSeq, workVars, cache, created, stored, boundVars>>
<1>1. CASE \E m \in Msg : MsgToMQ(m)
  BY <1>1 DEF MsgToMQ, redisVars, storeVars, stored
<1>2. CASE Intake
  BY <1>2 DEF Intake, ConsumeOne, Tick, SendSlice, Aggregate, Distribute, kafkaVars, redisVars, storeVars, stored
<1>3. CASE Rebalance
  BY <1>3 DEF Rebalance, redisVars, storeVars, stored
<1>4. CASE UNCHANGED vars
  BY <1>4 DEF vars, kafkaVars, redisVars, storeVars, stored
<1> QED BY <1>1, <1>2, <1>3, <1>4

\* A batch appended to the Mongo topic is queued and what was queued stays.
LEMMA QueueGrows ==
    ASSUME TypeInv, NEW q \in Partition, NEW b \in MongoBatch,
           toMongo' = [toMongo EXCEPT ![q] = Append(toMongo[q], b)]
    PROVE  /\ QueuedEntries \subseteq QueuedEntries'
           /\ BatchEntries(b) \subseteq QueuedEntries'
           /\ \A p \in Partition : \A n \in DOMAIN toMongo[p] :
                 n \in DOMAIN toMongo'[p] /\ toMongo'[p][n] = toMongo[p][n]
           /\ \A p \in Partition : \A n \in DOMAIN toMongo'[p] :
                 n \in DOMAIN toMongo[p] \/ (p = q /\ n = Len(toMongo[q]) + 1)
<1>1. toMongo \in [Partition -> Seq(MongoBatch)]
  BY DEF TypeInv, TypeOK, KafkaOK
<1>2. /\ Len(toMongo[q]) \in Nat
      /\ \A j \in 1 .. Len(toMongo[q]) : Append(toMongo[q], b)[j] = toMongo[q][j]
      /\ Append(toMongo[q], b)[Len(toMongo[q]) + 1] = b
      /\ DOMAIN Append(toMongo[q], b) = 1 .. Len(toMongo[q]) + 1
      /\ DOMAIN toMongo[q] = 1 .. Len(toMongo[q])
  BY <1>1, AppendFacts
<1>3. toMongo'[q] = Append(toMongo[q], b) /\ \A p \in Partition \ {q} : toMongo'[p] = toMongo[p]
  BY <1>1
<1>4. \A p \in Partition : \A n \in DOMAIN toMongo[p] :
         n \in DOMAIN toMongo'[p] /\ toMongo'[p][n] = toMongo[p][n]
  BY <1>2, <1>3
<1>5. \A p \in Partition : \A n \in DOMAIN toMongo'[p] :
         n \in DOMAIN toMongo[p] \/ (p = q /\ n = Len(toMongo[q]) + 1)
  BY <1>2, <1>3
<1>6. Len(toMongo[q]) + 1 \in DOMAIN toMongo'[q] /\ toMongo'[q][Len(toMongo[q]) + 1] = b
  BY <1>2, <1>3
<1>7. BatchEntries(b) \subseteq QueuedEntries'
  BY <1>6 DEF QueuedEntries, BatchEntries
<1>8. QueuedEntries \subseteq QueuedEntries'
  <2> SUFFICES ASSUME NEW e \in QueuedEntries PROVE e \in QueuedEntries'
    OBVIOUS
  <2>1. PICK p \in Partition : \E n \in DOMAIN toMongo[p] : e \in BatchEntries(toMongo[p][n])
    BY DEF QueuedEntries
  <2>2. PICK n \in DOMAIN toMongo[p] : e \in BatchEntries(toMongo[p][n])
    BY <2>1
  <2> QED BY <1>4, <2>2 DEF QueuedEntries, BatchEntries
<1> QED BY <1>4, <1>5, <1>7, <1>8

-----------------------------------------------------------------------------
(* Durability: PushedIsDurable.                                             *)

\* The committed offset of the Mongo topic is one the consumer passed.
Offsets == \A p \in Partition : /\ mongoCommitted[p] <= mongoNext[p]
                                /\ mongoNext[p] <= Len(toMongo[p])

\* The Mongo consumer of partition p has stored batch n.
Handled(p, n) == n <= mongoNext[p] \/ (mc[p] = "delete" /\ n = mongoNext[p] + 1)
HandledStored == \A p \in Partition : \A n \in DOMAIN toMongo[p] :
                    Handled(p, n) => BatchEntries(toMongo[p][n]) \subseteq mongo
PushQueued == PushedEntries \subseteq QueuedEntries
WorkQueued(i) == pc[i] = "push" => BatchEntries(WorkBatch(i)) \subseteq QueuedEntries

DurableInv ==
    /\ Offsets
    /\ faults = 0 => HandledStored /\ PushQueued /\ \A i \in Channel : WorkQueued(i)

\* Writing entries that agree with what was issued removes nothing issued.
LEMMA OverwriteKeeps ==
    ASSUME NumberingInv, NEW new \in SUBSET QueuedEntries, NEW e \in mongo, e \in QueuedEntries,
           new \subseteq Entry
    PROVE  e \in Overwrite(mongo, new)
<1>1. e \in Entry
  BY DEF NumberingInv, TypeInv, TypeOK, StoreOK
<1>2. ASSUME NEW n \in new, n.conv = e.conv, n.seq = e.seq PROVE n = e
  <2>1. n.msg = e.msg
    BY <1>2 DEF NumberingInv, UniqueSeq, Issued
  <2>2. n \in Entry
    OBVIOUS
  <2> QED BY <1>1, <1>2, <2>1, <2>2 DEF Entry
<1> QED BY <1>2 DEF Overwrite

\* A goroutine that did nothing keeps its batch.
LEMMA SameBatch ==
    ASSUME NEW j \in Channel, SameWork(j)
    PROVE  WorkConv(j)' = WorkConv(j) /\ WorkBatch(j)' = WorkBatch(j)
BY DEF SameWork, WorkConv, ConvOf, WorkBatch

LEMMA MovesBatch ==
    ASSUME NEW j, UNCHANGED <<stage, batch, list, cur>>
    PROVE  WorkConv(j)' = WorkConv(j) /\ WorkBatch(j)' = WorkBatch(j)
BY DEF WorkConv, ConvOf, WorkBatch

\* The next entry to push is one of the batch.
LEMMA PushEntryListed ==
    ASSUME TypeInv, NEW i \in Channel, pos[i] < Len(list[i])
    PROVE  PushEntry(i) \in BatchEntries(WorkBatch(i))
<1>1. list[i] \in Seq(Msg) /\ pos[i] \in Nat /\ cur[i] \in Nat
  BY DEF TypeInv, TypeOK, WorkOK
<1>2. pos[i] + 1 \in DOMAIN list[i] /\ cur[i] + pos[i] + 1 = cur[i] + (pos[i] + 1)
  BY <1>1
<1> QED BY <1>2 DEF PushEntry, BatchEntries, WorkBatch

LEMMA WorkDurable ==
    ASSUME NumberingInv, DurableInv, NEW i \in Channel, Work(i)
    PROVE  DurableInv'
<1>1. TypeInv /\ KafkaOK /\ MongoOK
  BY DEF NumberingInv, TypeInv, TypeOK
<1>2. Offsets'
  <2>1. UNCHANGED <<mongoNext, mongoCommitted>>
    BY DEF Work, Receive, Classify, Classified, GetMaxSeq, SetMessageToCache, SetMaxSeq, SetHasReadSeqs,
           CreateConversation, MsgToMongoMQ, Push, Pushed, BatchDone, kafkaVars
  <2>2. CASE toMongo' = toMongo
    BY <2>1, <2>2 DEF DurableInv, Offsets
  <2>3. CASE toMongo' # toMongo
    <3>1. pc[i] = "toMongo" /\ toMongo' = [toMongo EXCEPT ![WorkPart(i)] = Append(@, WorkBatch(i))]
      BY <2>3 DEF Work, Receive, Classify, Classified, GetMaxSeq, SetMessageToCache, SetMaxSeq,
           SetHasReadSeqs, CreateConversation, MsgToMongoMQ, Push, Pushed, BatchDone, kafkaVars
    <3>2. WorkPart(i) \in Partition /\ WorkBatch(i) \in MongoBatch
      BY <1>1, <3>1, WorkConvType, WorkBatchType
    <3>3. ASSUME NEW p \in Partition PROVE Len(toMongo[p]) <= Len(toMongo'[p]) /\ Len(toMongo[p]) \in Nat
                                           /\ Len(toMongo'[p]) \in Nat /\ mongoNext[p] \in Nat
      BY <1>1, <3>1, <3>2 DEF KafkaOK
    <3> QED BY <2>1, <3>3 DEF DurableInv, Offsets
  <2> QED BY <2>2, <2>3
<1>3. ASSUME faults' = 0 PROVE HandledStored' /\ PushQueued' /\ \A j \in Channel : WorkQueued(j)'
  <2>1. /\ faults = 0 /\ UNCHANGED stored
        /\ \A j \in Channel \ {i} : SameWork(j)
        /\ \/ Quiet(i) \/ Caches(i) \/ Reserves(i) \/ Marks(i) \/ Creates(i) \/ Queues(i) \/ Pushes(i)
    BY <1>3, WorkSteps
  <2>2. HandledStored /\ PushQueued /\ (\A j \in Channel : WorkQueued(j)) /\ Offsets
    BY <2>1 DEF DurableInv
  <2>3. ASSUME QueuedEntries \subseteq QueuedEntries', NEW j \in Channel, j # i PROVE WorkQueued(j)'
    <3>1. SameWork(j) /\ WorkQueued(j)
      BY <2>1, <2>2, <2>3
    <3>2. WorkBatch(j)' = WorkBatch(j)
      BY <3>1, SameBatch
    <3> QED BY <2>3, <3>1, <3>2 DEF WorkQueued, SameWork, BatchEntries
  <2>4. CASE UNCHANGED toMongo /\ PushedEntries' = PushedEntries /\ pc'[i] # "push"
    <3>1. QueuedEntries' = QueuedEntries
      BY <2>4 DEF QueuedEntries, BatchEntries
    <3>2. HandledStored'
      BY <2>1, <2>2, <2>4 DEF HandledStored, Handled, stored, BatchEntries
    <3>3. WorkQueued(i)'
      BY <2>4 DEF WorkQueued
    <3> QED BY <2>2, <2>3, <2>4, <3>1, <3>2, <3>3 DEF PushQueued
  <2>5. CASE Quiet(i) \/ Caches(i) \/ Reserves(i) \/ Marks(i) \/ Creates(i)
    BY <2>4, <2>5, IssuedUnchanged DEF Quiet, Caches, Reserves, Marks, Creates, Moves, Tracked, Reserved
  <2>6. CASE Queues(i)
    <3>1. WorkPart(i) \in Partition /\ WorkBatch(i) \in MongoBatch /\ pc[i] = "toMongo"
      BY <1>1, <2>6, WorkConvType, WorkBatchType DEF Queues, Moves
    <3> DEFINE q == WorkPart(i)
    <3>2. /\ QueuedEntries \subseteq QueuedEntries'
          /\ BatchEntries(WorkBatch(i)) \subseteq QueuedEntries'
          /\ \A p \in Partition : \A n \in DOMAIN toMongo[p] :
                n \in DOMAIN toMongo'[p] /\ toMongo'[p][n] = toMongo[p][n]
          /\ \A p \in Partition : \A n \in DOMAIN toMongo'[p] :
                n \in DOMAIN toMongo[p] \/ (p = q /\ n = Len(toMongo[q]) + 1)
      BY <1>1, <2>6, <3>1, QueueGrows DEF Queues
    <3>3. PushedEntries' = PushedEntries
      BY <2>6 DEF Queues, PushedEntries
    <3>4. WorkQueued(i)'
      <4>1. WorkBatch(i)' = WorkBatch(i)
        BY <2>6, MovesBatch DEF Queues, Moves
      <4> QED BY <3>2, <4>1 DEF WorkQueued, BatchEntries
    <3>5. HandledStored'
      <4> SUFFICES ASSUME NEW p \in Partition, NEW n \in DOMAIN toMongo'[p], Handled(p, n)'
                   PROVE  BatchEntries(toMongo'[p][n]) \subseteq mongo'
        BY DEF HandledStored, BatchEntries
      <4>1. Handled(p, n) /\ mongo' = mongo
        BY <2>1 DEF Handled, stored
      <4>2. n \in DOMAIN toMongo[p]
        <5> SUFFICES ASSUME p = q, n = Len(toMongo[q]) + 1 PROVE FALSE
          BY <3>2
        <5>1. mongoNext[q] \in Nat /\ Len(toMongo[q]) \in Nat /\ mongoNext[q] <= Len(toMongo[q])
          BY <1>1, <2>2, <3>1 DEF KafkaOK, Offsets
        <5>2. mc[q] = "delete" => mongoNext[q] < Len(toMongo[q])
          BY <1>1, <3>1 DEF MongoOK
        <5> HIDE DEF q
        <5> QED BY <4>1, <5>1, <5>2 DEF Handled
      <4>3. toMongo'[p][n] = toMongo[p][n]
        BY <3>2, <4>2
      <4> QED BY <2>2, <4>1, <4>2, <4>3 DEF HandledStored
    <3> QED BY <2>2, <2>3, <3>2, <3>3, <3>4, <3>5 DEF PushQueued
  <2>7. CASE Pushes(i)
    <3>1. WorkPart(i) \in Partition /\ PushEntry(i) \in Entry /\ UNCHANGED toMongo
      BY <1>1, <2>7, WorkConvType, PushEntryType DEF Pushes, Moves
    <3>2. \A e \in PushedEntries' : e \in PushedEntries \/ e = PushEntry(i)
      BY <1>1, <2>7, <3>1, PushAppends DEF Pushes
    <3>3. PushEntry(i) \in QueuedEntries
      BY <1>1, <2>2, <2>7, PushEntryListed DEF Pushes, Moves, WorkQueued
    <3>4. QueuedEntries' = QueuedEntries
      BY <3>1 DEF QueuedEntries, BatchEntries
    <3>5. HandledStored'
      BY <2>1, <2>2, <3>1 DEF HandledStored, Handled, stored, BatchEntries
    <3>6. WorkQueued(i)'
      <4>1. WorkBatch(i)' = WorkBatch(i) /\ pc[i] = "push"
        BY <2>7, MovesBatch DEF Pushes, Moves
      <4> QED BY <2>2, <3>4, <4>1 DEF WorkQueued, BatchEntries
    <3> QED BY <2>2, <2>3, <3>2, <3>3, <3>4, <3>5, <3>6 DEF PushQueued
  <2> QED BY <2>1, <2>5, <2>6, <2>7
<1> QED BY <1>2, <1>3 DEF DurableInv

\* The consumer stores a batch before it takes the next one.
LEMMA InsertDurable ==
    ASSUME NumberingInv, DurableInv, NEW p \in Partition, BatchInsertChat2DB(p)
    PROVE  DurableInv'
<1>1. TypeInv /\ KafkaOK /\ MongoOK
  BY DEF NumberingInv, TypeInv, TypeOK
<1>2. /\ UNCHANGED <<toMongo, toPush, mongoNext, mongoCommitted, workVars>>
      /\ mc' = [mc EXCEPT ![p] = "delete"] /\ mongoNext[p] < Len(toMongo[p])
  BY DEF BatchInsertChat2DB, kafkaVars
<1>3. Offsets'
  BY <1>2 DEF DurableInv, Offsets
<1>4. ASSUME faults' = 0 PROVE HandledStored' /\ PushQueued' /\ \A i \in Channel : WorkQueued(i)'
  <2>1. Ok /\ ~Fails /\ faults = 0
    BY <1>1, <1>4, NoFault DEF BatchInsertChat2DB
  <2>2. mongo' = Overwrite(mongo, BatchEntries(MongoMsg(p)))
    BY <2>1 DEF BatchInsertChat2DB
  <2>3. HandledStored /\ PushQueued /\ \A i \in Channel : WorkQueued(i)
    BY <2>1 DEF DurableInv
  <2>4. mongoNext[p] + 1 \in DOMAIN toMongo[p] /\ MongoMsg(p) = toMongo[p][mongoNext[p] + 1]
    BY <1>1, <1>2 DEF KafkaOK, MongoMsg
  <2>5. MongoMsg(p) \in MongoBatch
    BY <1>1, <2>4 DEF KafkaOK
  <2>6. BatchEntries(MongoMsg(p)) \subseteq QueuedEntries /\ BatchEntries(MongoMsg(p)) \subseteq Entry
    BY <2>4, <2>5, BatchEntriesType DEF QueuedEntries
  <2>7. HandledStored'
    <3> SUFFICES ASSUME NEW q \in Partition, NEW n \in DOMAIN toMongo[q], Handled(q, n)',
                        NEW e \in BatchEntries(toMongo[q][n])
                 PROVE  e \in mongo'
      BY <1>2 DEF HandledStored, BatchEntries
    <3>1. CASE q = p /\ n = mongoNext[p] + 1
      BY <2>2, <2>4, <3>1 DEF Overwrite
    <3>2. CASE ~(q = p /\ n = mongoNext[p] + 1)
      <4>1. Handled(q, n)
        BY <1>1, <1>2, <3>2 DEF Handled, MongoOK
      <4>2. e \in mongo /\ e \in QueuedEntries
        BY <2>3, <4>1 DEF HandledStored, QueuedEntries
      <4> QED BY <2>2, <2>6, <4>2, OverwriteKeeps
    <3> QED BY <3>1, <3>2
  <2>8. QueuedEntries' = QueuedEntries /\ PushedEntries' = PushedEntries
    BY <1>2 DEF QueuedEntries, BatchEntries, PushedEntries
  <2>9. \A i \in Channel : WorkQueued(i)'
    BY <1>2, <2>3, <2>8 DEF WorkQueued, workVars, WorkBatch, WorkConv, ConvOf, BatchEntries
  <2> QED BY <2>3, <2>7, <2>8, <2>9 DEF PushQueued
<1> QED BY <1>3, <1>4 DEF DurableInv

LEMMA DeleteDurable ==
    ASSUME NumberingInv, DurableInv, NEW p \in Partition, DeleteMessagesFromCache(p)
    PROVE  DurableInv'
<1>1. TypeInv /\ KafkaOK /\ MongoOK
  BY DEF NumberingInv, TypeInv, TypeOK
<1>2. /\ UNCHANGED <<toMongo, toPush, mongoCommitted, mongo, workVars>>
      /\ mc' = [mc EXCEPT ![p] = "insert"] /\ mc[p] = "delete"
      /\ mongoNext' = [mongoNext EXCEPT ![p] = mongoNext[p] + 1]
  BY DEF DeleteMessagesFromCache, storeVars
<1>3. mongoNext[p] < Len(toMongo[p]) /\ mongoNext'[p] = mongoNext[p] + 1 /\ mc'[p] = "insert"
      /\ \A q \in Partition \ {p} : mongoNext'[q] = mongoNext[q] /\ mc'[q] = mc[q]
  BY <1>1, <1>2 DEF KafkaOK, MongoOK
<1>4. \A q \in Partition : mongoNext[q] \in Nat /\ mongoCommitted[q] \in Nat /\ Len(toMongo[q]) \in Nat
  BY <1>1 DEF KafkaOK
<1>5. Offsets'
  <2> SUFFICES ASSUME NEW q \in Partition
               PROVE  mongoCommitted[q] <= mongoNext'[q] /\ mongoNext'[q] <= Len(toMongo[q])
    BY <1>2 DEF Offsets
  <2>1. mongoCommitted[q] <= mongoNext[q] /\ mongoNext[q] <= Len(toMongo[q])
    BY DEF DurableInv, Offsets
  <2> QED BY <1>3, <1>4, <2>1
<1>6. ASSUME faults' = 0 PROVE HandledStored' /\ PushQueued' /\ \A i \in Channel : WorkQueued(i)'
  <2>1. Ok /\ ~Fails /\ faults = 0
    BY <1>1, <1>6, NoFault DEF DeleteMessagesFromCache
  <2>2. HandledStored /\ PushQueued /\ \A i \in Channel : WorkQueued(i)
    BY <2>1 DEF DurableInv
  <2>3. ASSUME NEW q \in Partition, NEW n \in DOMAIN toMongo[q], Handled(q, n)' PROVE Handled(q, n)
    <3>1. n \in Nat
      BY <1>1 DEF KafkaOK
    <3> QED BY <1>2, <1>3, <1>4, <2>3, <3>1 DEF Handled
  <2>4. HandledStored'
    BY <1>2, <2>2, <2>3 DEF HandledStored, BatchEntries
  <2>5. QueuedEntries' = QueuedEntries /\ PushedEntries' = PushedEntries
    BY <1>2 DEF QueuedEntries, BatchEntries, PushedEntries
  <2>6. \A i \in Channel : WorkQueued(i)'
    BY <1>2, <2>2, <2>5 DEF WorkQueued, workVars, WorkBatch, WorkConv, ConvOf, BatchEntries
  <2> QED BY <2>2, <2>4, <2>5, <2>6 DEF PushQueued
<1> QED BY <1>5, <1>6 DEF DurableInv

\* A step that only moves offsets back, or to where the consumer is.
LEMMA OffsetsDurable ==
    ASSUME NumberingInv, DurableInv, UNCHANGED <<toMongo, toPush, mongo>>, faults' = faults,
           \A p \in Partition : /\ mongoNext'[p] \in {mongoNext[p], mongoCommitted[p]}
                                /\ mongoCommitted'[p] \in {mongoNext[p], mongoCommitted[p]}
                                /\ mongoCommitted'[p] <= mongoNext'[p]
                                /\ mc'[p] = "insert" \/ (mc'[p] = mc[p] /\ mongoNext'[p] = mongoNext[p]),
           \A i \in Channel : pc'[i] # "push" \/ SameWork(i)
    PROVE  DurableInv'
<1>1. TypeInv /\ KafkaOK
  BY DEF NumberingInv, TypeInv, TypeOK
<1>2. \A p \in Partition : mongoNext[p] \in Nat /\ mongoCommitted[p] \in Nat /\ Len(toMongo[p]) \in Nat
                           /\ mongoCommitted[p] <= mongoNext[p] /\ mongoNext[p] <= Len(toMongo[p])
  BY <1>1 DEF KafkaOK, DurableInv, Offsets
<1>3. Offsets'
  BY <1>2 DEF Offsets
<1>4. ASSUME faults' = 0 PROVE HandledStored' /\ PushQueued' /\ \A i \in Channel : WorkQueued(i)'
  <2>1. HandledStored /\ PushQueued /\ \A i \in Channel : WorkQueued(i)
    BY <1>4 DEF DurableInv
  <2>2. ASSUME NEW q \in Partition, NEW n \in DOMAIN toMongo[q], Handled(q, n)' PROVE Handled(q, n)
    <3>1. n \in Nat
      BY <1>1 DEF KafkaOK
    <3> QED BY <1>2, <2>2, <3>1 DEF Handled
  <2>3. HandledStored'
    BY <2>1, <2>2 DEF HandledStored, BatchEntries
  <2>4. QueuedEntries' = QueuedEntries /\ PushedEntries' = PushedEntries
    BY DEF QueuedEntries, BatchEntries, PushedEntries
  <2>5. ASSUME NEW i \in Channel PROVE WorkQueued(i)'
    <3>1. CASE pc'[i] # "push"
      BY <3>1 DEF WorkQueued
    <3>2. CASE SameWork(i)
      <4>1. WorkBatch(i)' = WorkBatch(i) /\ WorkQueued(i)
        BY <2>1, <3>2, SameBatch
      <4> QED BY <2>4, <3>2, <4>1 DEF WorkQueued, SameWork, BatchEntries
    <3> QED BY <3>1, <3>2
  <2> QED BY <2>1, <2>3, <2>4, <2>5 DEF PushQueued
<1> QED BY <1>3, <1>4 DEF DurableInv

LEMMA NextDurable == NumberingInv /\ DurableInv /\ [Next]_vars => DurableInv'
<1> SUFFICES ASSUME NumberingInv, DurableInv, [Next]_vars PROVE DurableInv'
  OBVIOUS
<1>1. ASSUME NEW i \in Channel, Work(i) PROVE DurableInv'
  BY <1>1, WorkDurable
<1>2. ASSUME NEW p \in Partition, MongoWork(p) PROVE DurableInv'
  BY <1>2, InsertDurable, DeleteDurable DEF MongoWork
<1>3. KafkaOK /\ WorkOK /\ MongoOK /\ Offsets
  BY DEF NumberingInv, TypeInv, TypeOK, DurableInv
<1>4. \A p \in Partition : mongoNext[p] \in Nat /\ mongoCommitted[p] <= mongoNext[p]
  BY <1>3 DEF KafkaOK, Offsets
<1>5. ASSUME NEW p \in Partition, CommitOffsets(p) PROVE DurableInv'
  <2>1. /\ UNCHANGED <<toMongo, toPush, mongo, mongoNext, mc, faults, workVars>>
        /\ mongoCommitted' = [mongoCommitted EXCEPT ![p] = mongoNext[p]]
    BY <1>5 DEF CommitOffsets, MongoMarked, storeVars, boundVars
  <2>2. \A q \in Partition : mongoCommitted'[q] = IF q = p THEN mongoNext[q] ELSE mongoCommitted[q]
    BY <1>3, <2>1 DEF KafkaOK
  <2>3. \A i \in Channel : SameWork(i)
    BY <2>1 DEF SameWork, workVars
  <2> QED BY <1>4, <2>1, <2>2, <2>3, OffsetsDurable
<1>6. CASE Crash \/ \E i \in Channel : ModifyPanic(i)
  <2>1. Restart
    BY <1>6 DEF Crash, ModifyPanic
  <2>2. /\ UNCHANGED <<toMongo, toPush, mongo, mongoCommitted, faults>> /\ mongoNext' = mongoCommitted
        /\ \A p \in Partition : mc'[p] = "insert"
        /\ \A i \in Channel : pc'[i] # "push"
    BY <2>1 DEF Restart, storeVars
  <2>3. \A p \in Partition : mongoCommitted[p] <= mongoCommitted[p]
    BY <1>3 DEF KafkaOK
  <2> QED BY <2>2, <2>3, OffsetsDurable
<1>7. CASE (\E m \in Msg : MsgToMQ(m)) \/ Intake \/ Rebalance \/ UNCHANGED vars
  <2>1. UNCHANGED <<toPush, toMongo, workVars, stored, boundVars>>
    BY <1>7, IntakeSteps
  <2>2. \A i \in Channel : SameWork(i)
    BY <2>1 DEF SameWork, workVars
  <2> QED BY <1>4, <2>1, <2>2, OffsetsDurable DEF stored, boundVars
<1> QED BY <1>1, <1>2, <1>5, <1>6, <1>7 DEF Next

LEMMA InitDurable == Init => DurableInv
<1> SUFFICES ASSUME Init PROVE DurableInv
  OBVIOUS
<1>1. PushedEntries = {}
  BY DEF Init, PushedEntries
<1>2. Offsets /\ HandledStored /\ \A i \in Channel : WorkQueued(i)
  BY DEF Init, Offsets, HandledStored, WorkQueued
<1> QED BY <1>1, <1>2 DEF DurableInv, PushQueued

\* What was pushed is queued for MongoDB, and the part of the queue below the
\* committed offset is stored.
LEMMA DurableEnough == NumberingInv /\ DurableInv => PushedIsDurable
<1> SUFFICES ASSUME NumberingInv, DurableInv, faults = 0, NEW e \in PushedEntries PROVE e \in mongo \cup PendingMongo
  BY DEF PushedIsDurable
<1>1. HandledStored /\ e \in QueuedEntries /\ Offsets
  BY DEF DurableInv, PushQueued
<1>2. PICK p \in Partition : \E n \in DOMAIN toMongo[p] : e \in BatchEntries(toMongo[p][n])
  BY <1>1 DEF QueuedEntries
<1>3. PICK n \in DOMAIN toMongo[p] : e \in BatchEntries(toMongo[p][n])
  BY <1>2
<1>4. CASE n > mongoCommitted[p]
  BY <1>3, <1>4 DEF PendingMongo
<1>5. CASE n <= mongoNext[p]
  BY <1>1, <1>3, <1>5 DEF HandledStored, Handled
<1>6. n \in Nat /\ mongoCommitted[p] \in Nat /\ mongoNext[p] \in Nat /\ mongoCommitted[p] <= mongoNext[p]
  BY <1>1 DEF NumberingInv, TypeInv, TypeOK, KafkaOK, Offsets
<1> QED BY <1>4, <1>5, <1>6

THEOREM DurableInvariant == Spec => []DurableInv
<1>1. Init => DurableInv
  BY InitDurable
<1>2. NumberingInv /\ DurableInv /\ [Next]_vars => DurableInv'
  BY NextDurable
<1> QED BY <1>1, <1>2, NumberingInvariant, PTL DEF Spec

\* A message that was pushed is in MongoDB, or in the Mongo topic behind an
\* offset not yet committed, however often the process dies, as long as no call
\* fails.
THEOREM PushedIsDurableHolds == Spec => []PushedIsDurable
BY DurableEnough, NumberingInvariant, DurableInvariant, PTL

-----------------------------------------------------------------------------
(* The cache: CacheServesIssued.                                            *)

\* What the cache holds under an issued seq is what was issued.
CacheAgrees == \A e \in cache, f \in Issued : e.conv = f.conv /\ e.seq = f.seq => e.msg = f.msg

\* What the cache holds under the seqs of the batch goroutine i works on are
\* the messages of that batch: a crashed batch's leftovers are overwritten.
CacheWork(i) ==
    pc[i] \in Tracked =>
        \A e \in cache : e.conv = WorkConv(i) /\ e.seq \in cur[i] + 1 .. cur[i] + Len(list[i])
                            => e.msg = list[i][e.seq - cur[i]]

CacheInv == faults = 0 => CacheAgrees /\ \A i \in Channel : CacheWork(i)

LEMMA TrackedNumbers == Tracked \subseteq Numbers
BY DEF Tracked, Numbers, Fresh, Reserved

\* The members of a batch are the listed messages of its goroutine.
LEMMA BatchListed ==
    ASSUME TypeInv, NEW i \in Channel, NEW e \in BatchEntries(WorkBatch(i))
    PROVE  /\ e.conv = WorkConv(i) /\ e.seq \in cur[i] + 1 .. cur[i] + Len(list[i])
           /\ e.msg = list[i][e.seq - cur[i]]
<1>1. list[i] \in Seq(Msg) /\ cur[i] \in Nat
  BY DEF TypeInv, TypeOK, WorkOK
<1>2. PICK n \in DOMAIN list[i] : e = [conv |-> WorkConv(i), seq |-> cur[i] + n, msg |-> list[i][n]]
  BY DEF BatchEntries, WorkBatch
<1>3. n \in 1 .. Len(list[i]) /\ Len(list[i]) \in Nat
  BY <1>1
<1>4. e.seq = cur[i] + n /\ e.conv = WorkConv(i) /\ e.msg = list[i][n]
  BY <1>2
<1>5. e.seq - cur[i] = n /\ e.seq \in cur[i] + 1 .. cur[i] + Len(list[i])
  BY <1>1, <1>3, <1>4
<1> QED BY <1>4, <1>5

\* Every seq of the list has its entry in the batch.
LEMMA ListedBatch ==
    ASSUME TypeInv, NEW i \in Channel, NEW q \in cur[i] + 1 .. cur[i] + Len(list[i])
    PROVE  \E e \in BatchEntries(WorkBatch(i)) : e.conv = WorkConv(i) /\ e.seq = q
<1>1. list[i] \in Seq(Msg) /\ cur[i] \in Nat
  BY DEF TypeInv, TypeOK, WorkOK
<1>2. PICK n : n = q - cur[i]
  OBVIOUS
<1>3. n \in DOMAIN list[i] /\ q = cur[i] + n
  BY <1>1, <1>2
<1>4. [conv |-> WorkConv(i), seq |-> cur[i] + n, msg |-> list[i][n]] \in BatchEntries(WorkBatch(i))
  BY <1>3 DEF BatchEntries, WorkBatch
<1> QED BY <1>3, <1>4

LEMMA WorkCache ==
    ASSUME NumberingInv, CacheInv, NEW i \in Channel, Work(i)
    PROVE  CacheInv'
<1> SUFFICES ASSUME faults' = 0 PROVE CacheAgrees' /\ \A j \in Channel : CacheWork(j)'
  BY DEF CacheInv
<1>1. TypeInv /\ WorkOK
  BY DEF NumberingInv, TypeInv, TypeOK
<1>2. /\ faults = 0
      /\ \A j \in Channel \ {i} : SameWork(j)
      /\ \/ Quiet(i) \/ Caches(i) \/ Reserves(i) \/ Marks(i) \/ Creates(i) \/ Queues(i) \/ Pushes(i)
  BY WorkSteps
<1>3. CacheAgrees /\ \A j \in Channel : CacheWork(j)
  BY <1>2 DEF CacheInv
<1>4. ASSUME NEW j \in Channel, j # i, UNCHANGED cache PROVE CacheWork(j)'
  <2>1. SameWork(j) /\ CacheWork(j) /\ WorkConv(j)' = WorkConv(j)
    BY <1>2, <1>3, <1>4, SameBatch
  <2> QED BY <1>4, <2>1 DEF CacheWork, SameWork
<1>5. ASSUME UNCHANGED <<cache, stage, batch, list, cur>>, pc[i] \in Tracked PROVE CacheWork(i)'
  <2>1. CacheWork(i) /\ WorkConv(i)' = WorkConv(i)
    BY <1>3, <1>5, MovesBatch
  <2> QED BY <1>5, <2>1 DEF CacheWork
<1>6. CASE Quiet(i)
  <2>1. Issued' = Issued /\ UNCHANGED cache
    BY <1>6 DEF Quiet, Issued, QueuedEntries, BatchEntries
  <2>2. CacheWork(i)'
    BY <1>6 DEF Quiet, CacheWork
  <2> QED BY <1>3, <1>4, <2>1, <2>2 DEF CacheAgrees
<1>7. CASE Reserves(i) \/ Marks(i) \/ Creates(i)
  <2>1. Issued' = Issued /\ UNCHANGED cache
    BY <1>7, IssuedUnchanged DEF Reserves, Marks, Creates
  <2>2. CacheWork(i)'
    BY <1>5, <1>7 DEF Reserves, Marks, Creates, Moves, Tracked, Reserved
  <2> QED BY <1>3, <1>4, <2>1, <2>2 DEF CacheAgrees
<1>8. CASE Queues(i) \/ Pushes(i)
  <2>1. UNCHANGED cache /\ pc[i] \in Tracked
    BY <1>8 DEF Queues, Pushes, Moves, Tracked, Reserved
  <2>2. CacheWork(i)'
    BY <1>5, <1>8, <2>1 DEF Queues, Pushes, Moves
  <2>3. \A e \in Issued' : e \in Issued \/ e \in BatchEntries(WorkBatch(i))
    <3>1. CASE Queues(i)
      <4>1. WorkPart(i) \in Partition /\ WorkBatch(i) \in MongoBatch
        BY <1>1, <3>1, WorkConvType, WorkBatchType DEF Queues, Moves
      <4> QED BY <1>1, <3>1, <4>1, QueueAppends DEF Queues
    <3>2. CASE Pushes(i)
      <4>1. WorkPart(i) \in Partition /\ PushEntry(i) \in Entry
        BY <1>1, <3>2, WorkConvType, PushEntryType DEF Pushes, Moves
      <4>2. PushEntry(i) \in BatchEntries(WorkBatch(i))
        BY <1>1, <3>2, PushEntryListed DEF Pushes
      <4> QED BY <1>1, <3>2, <4>1, <4>2, PushAppends DEF Pushes
    <3> QED BY <1>8, <3>1, <3>2
  <2>4. CacheAgrees'
    <3> SUFFICES ASSUME NEW e \in cache, NEW f \in Issued', e.conv = f.conv, e.seq = f.seq
                 PROVE  e.msg = f.msg
      BY <2>1 DEF CacheAgrees
    <3>1. CASE f \in Issued
      BY <1>3, <3>1 DEF CacheAgrees
    <3>2. CASE f \in BatchEntries(WorkBatch(i))
      <4>1. /\ f.conv = WorkConv(i) /\ f.seq \in cur[i] + 1 .. cur[i] + Len(list[i])
            /\ f.msg = list[i][f.seq - cur[i]]
        BY <1>1, <3>2, BatchListed
      <4>2. CacheWork(i)
        BY <1>3
      <4> QED BY <2>1, <4>1, <4>2 DEF CacheWork
    <3> QED BY <2>3, <3>1, <3>2
  <2> QED BY <1>4, <2>1, <2>2, <2>4
<1>9. CASE Caches(i)
  <2>1. /\ pc[i] = "setCache" /\ cache' = Overwrite(cache, BatchEntries(WorkBatch(i)))
        /\ UNCHANGED <<stage, batch, list, cur, toPush, toMongo>>
    BY <1>9 DEF Caches, Moves
  <2>2. cur[i] = maxSeq[WorkConv(i)] /\ cur[i] \in Nat /\ Len(list[i]) \in Nat /\ pc[i] \in Numbers
    BY <1>1, <2>1 DEF NumberingInv, GoroutineInv, Fresh, Numbers, WorkOK
  <2>3. \A e \in cache' : e \in cache \/ e \in BatchEntries(WorkBatch(i))
    BY <2>1 DEF Overwrite
  <2>4. Issued' = Issued
    BY <2>1, IssuedUnchanged
  <2>5. CacheAgrees'
    <3> SUFFICES ASSUME NEW e \in cache', NEW f \in Issued, e.conv = f.conv, e.seq = f.seq
                 PROVE  e.msg = f.msg
      BY <2>4 DEF CacheAgrees
    <3>1. CASE e \in cache
      BY <1>3, <3>1 DEF CacheAgrees
    <3>2. CASE e \in BatchEntries(WorkBatch(i))
      <4>1. e.conv = WorkConv(i) /\ e.seq \in cur[i] + 1 .. cur[i] + Len(list[i])
        BY <1>1, <3>2, BatchListed
      <4>2. f.seq \in 1 .. maxSeq[f.conv]
        BY DEF NumberingInv, WithinMaxSeq
      <4>3. f.seq \in 1 .. cur[i]
        BY <2>2, <4>1, <4>2
      <4> QED BY <2>2, <4>1, <4>3
    <3> QED BY <2>3, <3>1, <3>2
  <2>6. CacheWork(i)'
    <3>1. WorkConv(i)' = WorkConv(i)
      BY <2>1, MovesBatch
    <3>2. ASSUME NEW e \in cache', e.conv = WorkConv(i), e.seq \in cur[i] + 1 .. cur[i] + Len(list[i])
          PROVE  e.msg = list[i][e.seq - cur[i]]
      <4>1. CASE e \in BatchEntries(WorkBatch(i))
        BY <1>1, <4>1, BatchListed
      <4>2. CASE e \notin BatchEntries(WorkBatch(i))
        <5>1. PICK n \in BatchEntries(WorkBatch(i)) : n.conv = WorkConv(i) /\ n.seq = e.seq
          BY <1>1, <3>2, ListedBatch
        <5>2. ~(n.conv = e.conv /\ n.seq = e.seq)
          BY <2>1, <4>2 DEF Overwrite
        <5> QED BY <3>2, <5>1, <5>2
      <4> QED BY <4>1, <4>2
    <3> QED BY <2>1, <3>1, <3>2 DEF CacheWork
  <2>7. ASSUME NEW j \in Channel, j # i PROVE CacheWork(j)'
    <3> SUFFICES ASSUME pc[j] \in Tracked PROVE CacheWork(j)'
      BY <1>2, <2>7 DEF CacheWork, SameWork
    <3>1. SameWork(j) /\ CacheWork(j) /\ WorkConv(j)' = WorkConv(j)
      BY <1>2, <1>3, <2>7, SameBatch
    <3>2. WorkConv(i) # WorkConv(j)
      BY <2>2, <2>7, TrackedNumbers, NumbersDisjoint
    <3>3. \A e \in cache' : e.conv = WorkConv(j) => e \in cache
      BY <1>1, <2>3, <3>2, BatchListed
    <3> QED BY <3>1, <3>3 DEF CacheWork, SameWork
  <2> QED BY <2>5, <2>6, <2>7
<1> QED BY <1>2, <1>6, <1>7, <1>8, <1>9

\* A step that issues nothing and at most removes from the cache.
LEMMA ShrinkCache ==
    ASSUME CacheInv, faults' = 0 => faults = 0, UNCHANGED <<toPush, toMongo>>, cache' \subseteq cache,
           \A i \in Channel : pc'[i] \notin Tracked \/ SameWork(i)
    PROVE  CacheInv'
<1> SUFFICES ASSUME faults' = 0 PROVE CacheAgrees' /\ \A j \in Channel : CacheWork(j)'
  BY DEF CacheInv
<1>1. CacheAgrees /\ \A j \in Channel : CacheWork(j)
  BY DEF CacheInv
<1>2. CacheAgrees'
  BY <1>1, IssuedUnchanged DEF CacheAgrees
<1>3. ASSUME NEW j \in Channel PROVE CacheWork(j)'
  <2>1. CASE pc'[j] \notin Tracked
    BY <2>1 DEF CacheWork
  <2>2. CASE SameWork(j)
    <3>1. CacheWork(j) /\ WorkConv(j)' = WorkConv(j)
      BY <1>1, <2>2, SameBatch
    <3> QED BY <2>2, <3>1 DEF CacheWork, SameWork
  <2> QED BY <2>1, <2>2
<1> QED BY <1>2, <1>3

LEMMA NextCache == NumberingInv /\ CacheInv /\ [Next]_vars => CacheInv'
<1> SUFFICES ASSUME NumberingInv, CacheInv, [Next]_vars PROVE CacheInv'
  OBVIOUS
<1>1. TypeInv
  BY DEF NumberingInv
<1>2. ASSUME NEW i \in Channel, Work(i) PROVE CacheInv'
  BY <1>2, WorkCache
<1>3. ASSUME NEW p \in Partition, MongoWork(p) PROVE CacheInv'
  <2>1. UNCHANGED <<toPush, toMongo, workVars>> /\ (Ok \/ Fails)
    BY <1>3 DEF MongoWork, BatchInsertChat2DB, DeleteMessagesFromCache, kafkaVars
  <2>2. \A i \in Channel : SameWork(i)
    BY <2>1 DEF SameWork, workVars
  <2>3. faults' = 0 => faults = 0
    BY <1>1, <2>1, NoFault
  <2>4. cache' \subseteq cache
    BY <1>3 DEF MongoWork, BatchInsertChat2DB, DeleteMessagesFromCache, redisVars
  <2> QED BY <2>1, <2>2, <2>3, <2>4, ShrinkCache
<1>4. ASSUME NEW p \in Partition, CommitOffsets(p) PROVE CacheInv'
  <2>1. UNCHANGED <<toPush, toMongo, workVars, cache, faults>>
    BY <1>4 DEF CommitOffsets, redisVars, boundVars
  <2>2. \A i \in Channel : SameWork(i)
    BY <2>1 DEF SameWork, workVars
  <2> QED BY <2>1, <2>2, ShrinkCache
<1>5. CASE Crash \/ \E i \in Channel : ModifyPanic(i)
  <2>1. /\ UNCHANGED <<toPush, toMongo, cache, faults>>
        /\ \A i \in Channel : pc'[i] = "idle"
    BY <1>5 DEF Crash, ModifyPanic, Restart, redisVars
  <2>2. \A i \in Channel : pc'[i] \notin Tracked
    BY <2>1 DEF Tracked, Reserved
  <2> QED BY <2>1, <2>2, ShrinkCache
<1>6. CASE (\E m \in Msg : MsgToMQ(m)) \/ Intake \/ Rebalance \/ UNCHANGED vars
  <2>1. UNCHANGED <<toPush, toMongo, workVars, cache, boundVars>>
    BY <1>6, IntakeSteps
  <2>2. \A i \in Channel : SameWork(i)
    BY <2>1 DEF SameWork, workVars
  <2> QED BY <2>1, <2>2, ShrinkCache DEF boundVars
<1> QED BY <1>2, <1>3, <1>4, <1>5, <1>6 DEF Next

THEOREM CacheInvariant == Spec => []CacheInv
<1>1. Init => CacheInv
  BY DEF Init, CacheInv, CacheAgrees, CacheWork, Tracked, Reserved
<1>2. NumberingInv /\ CacheInv /\ [Next]_vars => CacheInv'
  BY NextCache
<1> QED BY <1>1, <1>2, NumberingInvariant, PTL DEF Spec

\* The cache never serves another message than the one issued under a seq,
\* although crashed batches leave entries above MAX_SEQ behind, as long as no
\* call fails.
THEOREM CacheServesIssuedHolds == Spec => []CacheServesIssued
<1>1. CacheInv => CacheServesIssued
  BY DEF CacheInv, CacheAgrees, CacheServesIssued
<1> QED BY <1>1, CacheInvariant, PTL

-----------------------------------------------------------------------------
(* No hole below MAX_SEQ: NoGap.                                            *)

\* Seq q of c was queued for MongoDB, or goroutine i is about to queue it.
InQueue(c, q) == \E e \in QueuedEntries : e.conv = c /\ e.seq = q
InHand(i, c, q) == /\ pc[i] \in {"setHasRead", "create", "toMongo"}
                   /\ WorkConv(i) = c
                   /\ q \in cur[i] + 1 .. cur[i] + Len(list[i])
Covered(c, q) == InQueue(c, q) \/ \E i \in Channel : InHand(i, c, q)

LEMMA NoGapCovers ==
    NoGap <=> (faults = 0 /\ crashes = 0 => \A c \in Conv : \A q \in 1 .. maxSeq[c] : Covered(c, q))
BY DEF NoGap, Covered, InQueue, InHand

\* What is queued stays queued, and another goroutine keeps what it has.
LEMMA CoveredKept ==
    ASSUME NEW i \in Channel, \A j \in Channel \ {i} : SameWork(j),
           QueuedEntries \subseteq QueuedEntries', NEW c, NEW q,
           Covered(c, q), InHand(i, c, q) => InHand(i, c, q)' \/ InQueue(c, q)'
    PROVE  Covered(c, q)'
<1>1. CASE InQueue(c, q)
  BY <1>1 DEF Covered, InQueue
<1>2. ASSUME NEW j \in Channel, InHand(j, c, q) PROVE Covered(c, q)'
  <2>1. CASE j = i
    BY <1>2, <2>1 DEF Covered
  <2>2. CASE j # i
    <3>1. SameWork(j) /\ WorkConv(j)' = WorkConv(j)
      BY <2>2, SameBatch
    <3> QED BY <1>2, <3>1 DEF Covered, InHand, SameWork
  <2> QED BY <2>1, <2>2
<1> QED BY <1>1, <1>2 DEF Covered

LEMMA WorkGap ==
    ASSUME NumberingInv, NoGap, NEW i \in Channel, Work(i)
    PROVE  NoGap'
<1> SUFFICES ASSUME faults' = 0, crashes' = 0, NEW c \in Conv, NEW q \in 1 .. maxSeq'[c]
             PROVE  Covered(c, q)'
  BY DEF NoGap, Covered, InQueue, InHand
<1>1. TypeInv /\ WorkOK /\ RedisOK
  BY DEF NumberingInv, TypeInv, TypeOK
<1>2. /\ faults = 0 /\ crashes = 0
      /\ \A j \in Channel \ {i} : SameWork(j)
      /\ \/ Quiet(i) \/ Caches(i) \/ Reserves(i) \/ Marks(i) \/ Creates(i) \/ Queues(i) \/ Pushes(i)
  BY WorkSteps
<1>3. q \in 1 .. maxSeq[c] => Covered(c, q)
  BY <1>2, NoGapCovers
<1>4. CASE Quiet(i) \/ Caches(i) \/ Pushes(i)
  <2>1. UNCHANGED <<toMongo, maxSeq>> /\ pc[i] \notin {"setHasRead", "create", "toMongo"}
    BY <1>4 DEF Quiet, Caches, Pushes, Moves
  <2>2. QueuedEntries' = QueuedEntries
    BY <2>1 DEF QueuedEntries, BatchEntries
  <2>3. ~InHand(i, c, q)
    BY <2>1 DEF InHand
  <2> QED BY <1>2, <1>3, <2>1, <2>2, <2>3, CoveredKept
<1>5. CASE Marks(i) \/ Creates(i)
  <2>1. /\ UNCHANGED <<toMongo, maxSeq, stage, batch, list, cur>>
        /\ pc'[i] \in {"create", "toMongo"}
    BY <1>5 DEF Marks, Creates, Moves
  <2>2. QueuedEntries' = QueuedEntries
    BY <2>1 DEF QueuedEntries, BatchEntries
  <2>3. WorkConv(i)' = WorkConv(i)
    BY <2>1, MovesBatch
  <2>4. InHand(i, c, q) => InHand(i, c, q)'
    BY <2>1, <2>3 DEF InHand
  <2> QED BY <1>2, <1>3, <2>1, <2>2, <2>4, CoveredKept
<1>6. CASE Reserves(i)
  <2>1. /\ UNCHANGED <<toMongo, stage, batch, list, cur>> /\ pc[i] = "setMaxSeq" /\ pc'[i] = "setHasRead"
        /\ maxSeq' = [maxSeq EXCEPT ![WorkConv(i)] = cur[i] + Len(list[i])]
    BY <1>6 DEF Reserves, Moves, NewMaxSeq
  <2>2. QueuedEntries' = QueuedEntries
    BY <2>1 DEF QueuedEntries, BatchEntries
  <2>3. WorkConv(i)' = WorkConv(i) /\ WorkConv(i) \in Conv
    BY <1>1, <2>1, MovesBatch, WorkConvType
  <2>4. ~InHand(i, c, q)
    BY <2>1 DEF InHand
  <2>5. CASE q \in 1 .. maxSeq[c]
    BY <1>2, <1>3, <2>2, <2>4, <2>5, CoveredKept
  <2>6. CASE q \notin 1 .. maxSeq[c]
    <3>1. c = WorkConv(i) /\ maxSeq'[c] = cur[i] + Len(list[i])
      BY <1>1, <2>1, <2>3, <2>6 DEF RedisOK
    <3>2. cur[i] = maxSeq[c] /\ cur[i] \in Nat /\ Len(list[i]) \in Nat
      BY <1>1, <2>1, <3>1 DEF NumberingInv, GoroutineInv, Fresh, WorkOK
    <3>3. q \in cur[i] + 1 .. cur[i] + Len(list[i])
      BY <2>6, <3>1, <3>2
    <3>4. InHand(i, c, q)'
      BY <2>1, <2>3, <3>1, <3>3 DEF InHand
    <3> QED BY <3>4 DEF Covered
  <2> QED BY <2>5, <2>6
<1>7. CASE Queues(i)
  <2>1. WorkPart(i) \in Partition /\ WorkBatch(i) \in MongoBatch /\ UNCHANGED maxSeq
    BY <1>1, <1>7, WorkConvType, WorkBatchType DEF Queues, Moves
  <2>2. /\ QueuedEntries \subseteq QueuedEntries'
        /\ BatchEntries(WorkBatch(i)) \subseteq QueuedEntries'
    BY <1>1, <1>7, <2>1, QueueGrows DEF Queues
  <2>3. InHand(i, c, q) => InQueue(c, q)'
    BY <1>1, <2>2, ListedBatch DEF InHand, InQueue
  <2> QED BY <1>2, <1>3, <2>1, <2>2, <2>3, CoveredKept
<1> QED BY <1>2, <1>4, <1>5, <1>6, <1>7

LEMMA NextGap == NumberingInv /\ NoGap /\ [Next]_vars => NoGap'
<1> SUFFICES ASSUME NumberingInv, NoGap, [Next]_vars PROVE NoGap'
  OBVIOUS
<1>1. TypeInv /\ BoundOK
  BY DEF NumberingInv, TypeInv, TypeOK
<1>2. ASSUME NEW i \in Channel, Work(i) PROVE NoGap'
  BY <1>2, WorkGap
<1>3. CASE Crash \/ \E i \in Channel : ModifyPanic(i)
  <2>1. crashes' # 0
    BY <1>1, <1>3 DEF Crash, ModifyPanic, Restart, BoundOK
  <2> QED BY <2>1 DEF NoGap
<1>4. ASSUME UNCHANGED <<toMongo, maxSeq, workVars, crashes>>, faults' = 0 => faults = 0 PROVE NoGap'
  BY <1>4 DEF NoGap, QueuedEntries, BatchEntries, workVars, WorkConv, ConvOf
<1>5. ASSUME NEW p \in Partition, MongoWork(p) PROVE NoGap'
  <2>1. UNCHANGED <<toMongo, maxSeq, workVars, crashes>> /\ (Ok \/ Fails)
    BY <1>5 DEF MongoWork, BatchInsertChat2DB, DeleteMessagesFromCache, kafkaVars, redisVars
  <2> QED BY <1>1, <1>4, <2>1, NoFault
<1>6. ASSUME NEW p \in Partition, CommitOffsets(p) PROVE NoGap'
  BY <1>4, <1>6 DEF CommitOffsets, redisVars, boundVars
<1>7. CASE (\E m \in Msg : MsgToMQ(m)) \/ Intake \/ Rebalance \/ UNCHANGED vars
  BY <1>4, <1>7, IntakeSteps DEF boundVars
<1> QED BY <1>2, <1>3, <1>5, <1>6, <1>7 DEF Next

\* Without failing calls and crashes every seq up to MAX_SEQ is queued for
\* MongoDB or about to be.
THEOREM NoGapHolds == Spec => []NoGap
<1>1. Init => NoGap
  BY DEF Init, NoGap
<1>2. NumberingInv /\ NoGap /\ [Next]_vars => NoGap'
  BY NextGap
<1> QED BY <1>1, <1>2, NumberingInvariant, PTL DEF Spec

-----------------------------------------------------------------------------
(* The conversation exists before its first push: ConversationBeforePush.   *)

ChatConvs == { ChatConv[m] : m \in Msg }

\* Goroutine i has found c new and will create it.
WillCreate(i, c) == /\ pc[i] \in {"setHasRead", "create"}
                    /\ stage[i] = "msg" /\ cur[i] = 0 /\ WorkConv(i) = c
\* A chat conversation with a MAX_SEQ is created or about to be.
Begun(c) == c \in created \/ \E i \in Channel : WillCreate(i, c)
Prepared(i) == pc[i] \in {"toMongo", "push"} /\ stage[i] = "msg" => WorkConv(i) \in created

CreatedInv ==
    faults = 0 /\ crashes = 0 =>
        /\ \A c \in ChatConvs : maxSeq[c] > 0 => Begun(c)
        /\ \A i \in Channel : Prepared(i)
        /\ \A e \in PushedEntries : e.conv \in ChatConvs => e.conv \in created

\* The conversation of a handler is a chat conversation in handleMsg only.
LEMMA StageKind ==
    ASSUME TypeInv, NEW i \in Channel, pc[i] # "idle"
    PROVE  WorkConv(i) \in ChatConvs <=> stage[i] = "msg"
<1>1. batch[i] \in Seq(Msg) /\ batch[i] # <<>>
  BY DEF TypeInv, TypeOK, WorkOK, Routing, BatchRouting
<1>2. batch[i][1] \in Msg
  BY <1>1
<1> QED BY <1>2, ConvKindAssumption DEF WorkConv, ConvOf, ChatConvs

LEMMA ChatConvsType == ChatConvs \subseteq Conv
BY ConstantsAssumption DEF ChatConvs

LEMMA WorkCreated ==
    ASSUME NumberingInv, CreatedInv, NEW i \in Channel, Work(i)
    PROVE  CreatedInv'
<1> SUFFICES ASSUME faults' = 0, crashes' = 0
             PROVE  /\ \A c \in ChatConvs : maxSeq'[c] > 0 => Begun(c)'
                    /\ \A j \in Channel : Prepared(j)'
                    /\ \A e \in PushedEntries' : e.conv \in ChatConvs => e.conv \in created'
  BY DEF CreatedInv
<1>1. TypeInv /\ WorkOK /\ RedisOK
  BY DEF NumberingInv, TypeInv, TypeOK
<1>2. /\ faults = 0 /\ crashes = 0
      /\ \A j \in Channel \ {i} : SameWork(j)
      /\ \/ Quiet(i) \/ Caches(i) \/ Reserves(i) \/ Marks(i) \/ Creates(i) \/ Queues(i) \/ Pushes(i)
  BY WorkSteps
<1>3. /\ \A c \in ChatConvs : maxSeq[c] > 0 => Begun(c)
      /\ \A j \in Channel : Prepared(j)
      /\ \A e \in PushedEntries : e.conv \in ChatConvs => e.conv \in created
  BY <1>2 DEF CreatedInv
<1>4. created \subseteq created'
  BY <1>2 DEF Quiet, Caches, Reserves, Marks, Creates, Queues, Pushes
<1>5. ASSUME NEW j \in Channel, j # i PROVE Prepared(j)'
  <2>1. SameWork(j) /\ WorkConv(j)' = WorkConv(j) /\ Prepared(j)
    BY <1>2, <1>3, <1>5, SameBatch
  <2> QED BY <1>4, <2>1 DEF Prepared, SameWork
<1>6. ASSUME NEW c, Begun(c), WillCreate(i, c) => WillCreate(i, c)' \/ c \in created'
      PROVE  Begun(c)'
  <2>1. ASSUME NEW j \in Channel, j # i, WillCreate(j, c) PROVE WillCreate(j, c)'
    <3>1. SameWork(j) /\ WorkConv(j)' = WorkConv(j)
      BY <1>2, <2>1, SameBatch
    <3> QED BY <2>1, <3>1 DEF WillCreate, SameWork
  <2> QED BY <1>4, <1>6, <2>1 DEF Begun
<1>7. CASE Quiet(i) \/ Caches(i)
  <2>1. UNCHANGED maxSeq /\ PushedEntries' = PushedEntries
    BY <1>7, IssuedUnchanged DEF Quiet, Caches
  <2>2. Prepared(i)'
    BY <1>7 DEF Quiet, Caches, Moves, Tracked, Reserved, Prepared
  <2>3. \A c : ~WillCreate(i, c)
    BY <1>7 DEF Quiet, Caches, Moves, WillCreate
  <2> QED BY <1>3, <1>4, <1>5, <1>6, <2>1, <2>2, <2>3
<1>8. CASE Reserves(i)
  <2>1. /\ UNCHANGED <<stage, batch, list, cur>> /\ pc[i] = "setMaxSeq" /\ pc'[i] = "setHasRead"
        /\ maxSeq' = [maxSeq EXCEPT ![WorkConv(i)] = NewMaxSeq(i)]
        /\ PushedEntries' = PushedEntries
    BY <1>8, IssuedUnchanged DEF Reserves, Moves
  <2>2. Prepared(i)'
    BY <2>1 DEF Prepared
  <2>3. WorkConv(i)' = WorkConv(i) /\ WorkConv(i) \in Conv
    BY <1>1, <2>1, MovesBatch, WorkConvType
  <2>4. \A c : ~WillCreate(i, c)
    BY <2>1 DEF WillCreate
  <2>5. cur[i] = maxSeq[WorkConv(i)] /\ cur[i] \in Nat
    BY <1>1, <2>1 DEF NumberingInv, GoroutineInv, Fresh, WorkOK
  <2>6. ASSUME NEW c \in ChatConvs, maxSeq'[c] > 0 PROVE Begun(c)'
    <3>1. CASE maxSeq[c] > 0
      BY <1>3, <1>6, <2>4, <3>1
    <3>2. CASE ~(maxSeq[c] > 0)
      <4>1. c = WorkConv(i)
        BY <1>1, <2>1, <2>6, <3>2, ChatConvsType DEF RedisOK
      <4>2. stage[i] = "msg"
        BY <1>1, <2>1, <4>1, StageKind
      <4>3. cur[i] = 0
        BY <2>5, <3>2, <4>1
      <4>4. WillCreate(i, c)'
        BY <2>1, <2>3, <4>1, <4>2, <4>3 DEF WillCreate
      <4> QED BY <4>4 DEF Begun
    <3> QED BY <3>1, <3>2
  <2> QED BY <1>3, <1>4, <1>5, <2>1, <2>2, <2>6
<1>9. CASE Marks(i)
  <2>1. /\ UNCHANGED <<stage, batch, list, cur, maxSeq>> /\ pc[i] = "setHasRead"
        /\ pc'[i] = IF stage[i] = "msg" /\ cur[i] = 0 THEN "create" ELSE "toMongo"
        /\ PushedEntries' = PushedEntries
    BY <1>9, IssuedUnchanged DEF Marks, Moves
  <2>2. WorkConv(i)' = WorkConv(i)
    BY <2>1, MovesBatch
  <2>3. \A c : WillCreate(i, c) => WillCreate(i, c)'
    BY <2>1, <2>2 DEF WillCreate
  <2>4. Prepared(i)'
    <3> SUFFICES ASSUME stage[i] = "msg", cur[i] # 0 PROVE WorkConv(i) \in created
      BY <1>4, <2>1, <2>2 DEF Prepared
    <3>1. WorkConv(i) \in ChatConvs /\ pc[i] \in Numbers /\ pc[i] \in Reserved
      BY <1>1, <2>1, StageKind DEF Numbers, Reserved
    <3>2. maxSeq[WorkConv(i)] > 0
      <4>1. cur[i] + Len(list[i]) = maxSeq[WorkConv(i)] /\ cur[i] \in Nat /\ Len(list[i]) \in Nat
        BY <1>1, <3>1 DEF NumberingInv, GoroutineInv, ReservedInv, WorkOK
      <4> QED BY <4>1
    <3>3. ASSUME NEW j \in Channel, WillCreate(j, WorkConv(i)) PROVE FALSE
      <4>1. pc[j] \in Numbers /\ WorkConv(j) = WorkConv(i) /\ cur[j] = 0
        BY <3>3 DEF WillCreate, Numbers, Reserved
      <4> QED BY <3>1, <4>1, NumbersDisjoint
    <3> QED BY <1>3, <3>1, <3>2, <3>3 DEF Begun
  <2> QED BY <1>3, <1>4, <1>5, <1>6, <2>1, <2>3, <2>4
<1>10. CASE Creates(i)
  <2>1. /\ UNCHANGED <<stage, batch, list, cur, maxSeq>> /\ WorkConv(i) \in created'
        /\ PushedEntries' = PushedEntries
    BY <1>10, IssuedUnchanged DEF Creates, Moves
  <2>2. WorkConv(i)' = WorkConv(i)
    BY <2>1, MovesBatch
  <2>3. Prepared(i)'
    BY <2>1, <2>2 DEF Prepared
  <2>4. \A c : WillCreate(i, c) => c \in created'
    BY <2>1 DEF WillCreate
  <2> QED BY <1>3, <1>4, <1>5, <1>6, <2>1, <2>3, <2>4
<1>11. CASE Queues(i) \/ Pushes(i)
  <2>1. /\ UNCHANGED <<stage, batch, list, cur, maxSeq>> /\ pc[i] \in {"toMongo", "push"} /\ pc'[i] = "push"
    BY <1>11 DEF Queues, Pushes, Moves
  <2>2. WorkConv(i)' = WorkConv(i)
    BY <2>1, MovesBatch
  <2>3. stage[i] = "msg" => WorkConv(i) \in created
    BY <1>3, <2>1 DEF Prepared
  <2>4. Prepared(i)'
    BY <1>4, <2>1, <2>2, <2>3 DEF Prepared
  <2>5. \A c : ~WillCreate(i, c)
    BY <2>1 DEF WillCreate
  <2>6. \A e \in PushedEntries' : e \in PushedEntries \/ e.conv = WorkConv(i)
    <3>1. CASE Queues(i)
      BY <3>1 DEF Queues, PushedEntries
    <3>2. CASE Pushes(i)
      <4>1. WorkPart(i) \in Partition /\ PushEntry(i) \in Entry /\ PushEntry(i).conv = WorkConv(i)
        BY <1>1, <3>2, WorkConvType, PushEntryType DEF Pushes, Moves, PushEntry
      <4>2. \A e \in PushedEntries' : e \in PushedEntries \/ e = PushEntry(i)
        BY <1>1, <3>2, <4>1, PushAppends DEF Pushes
      <4> QED BY <4>1, <4>2
    <3> QED BY <1>11, <3>1, <3>2
  <2>7. WorkConv(i) \in ChatConvs => WorkConv(i) \in created
    BY <1>1, <2>1, <2>3, StageKind
  <2> QED BY <1>3, <1>4, <1>5, <1>6, <2>1, <2>4, <2>5, <2>6, <2>7
<1> QED BY <1>2, <1>7, <1>8, <1>9, <1>10, <1>11

LEMMA NextCreated == NumberingInv /\ CreatedInv /\ [Next]_vars => CreatedInv'
<1> SUFFICES ASSUME NumberingInv, CreatedInv, [Next]_vars PROVE CreatedInv'
  OBVIOUS
<1>1. TypeInv /\ BoundOK
  BY DEF NumberingInv, TypeInv, TypeOK
<1>2. ASSUME NEW i \in Channel, Work(i) PROVE CreatedInv'
  BY <1>2, WorkCreated
<1>3. CASE Crash \/ \E i \in Channel : ModifyPanic(i)
  <2>1. crashes' # 0
    BY <1>1, <1>3 DEF Crash, ModifyPanic, Restart, BoundOK
  <2> QED BY <2>1 DEF CreatedInv
<1>4. ASSUME UNCHANGED <<toPush, maxSeq, workVars, created, crashes>>, faults' = 0 => faults = 0
      PROVE  CreatedInv'
  BY <1>4 DEF CreatedInv, Begun, WillCreate, Prepared, PushedEntries, workVars, WorkConv, ConvOf
<1>5. ASSUME NEW p \in Partition, MongoWork(p) PROVE CreatedInv'
  <2>1. UNCHANGED <<toPush, maxSeq, workVars, created, crashes>> /\ (Ok \/ Fails)
    BY <1>5 DEF MongoWork, BatchInsertChat2DB, DeleteMessagesFromCache, kafkaVars, redisVars, storeVars
  <2> QED BY <1>1, <1>4, <2>1, NoFault
<1>6. ASSUME NEW p \in Partition, CommitOffsets(p) PROVE CreatedInv'
  BY <1>4, <1>6 DEF CommitOffsets, redisVars, storeVars, boundVars
<1>7. CASE (\E m \in Msg : MsgToMQ(m)) \/ Intake \/ Rebalance \/ UNCHANGED vars
  BY <1>4, <1>7, IntakeSteps DEF boundVars
<1> QED BY <1>2, <1>3, <1>5, <1>6, <1>7 DEF Next

THEOREM CreatedInvariant == Spec => []CreatedInv
<1>1. Init => CreatedInv
  <2> SUFFICES ASSUME Init PROVE CreatedInv
    OBVIOUS
  <2>1. PushedEntries = {}
    BY DEF Init, PushedEntries
  <2>2. \A c \in ChatConvs : ~(maxSeq[c] > 0)
    BY ChatConvsType DEF Init
  <2>3. \A i \in Channel : Prepared(i)
    BY DEF Init, Prepared
  <2> QED BY <2>1, <2>2, <2>3 DEF CreatedInv
<1>2. NumberingInv /\ CreatedInv /\ [Next]_vars => CreatedInv'
  BY NextCreated
<1> QED BY <1>1, <1>2, NumberingInvariant, PTL DEF Spec

\* Without failing calls and crashes the conversation service was told to
\* create a chat conversation before a message of it is pushed.
THEOREM ConversationBeforePushHolds == Spec => []ConversationBeforePush
<1>1. NumberingInv /\ CreatedInv => ConversationBeforePush
  <2> SUFFICES ASSUME NumberingInv, CreatedInv, faults = 0, crashes = 0, NEW e \in PushedEntries,
                      e.conv = ChatConv[e.msg]
               PROVE  e.conv \in created
    BY DEF ConversationBeforePush
  <2>1. PICK p \in Partition : \E n \in DOMAIN toPush[p] : e = toPush[p][n]
    BY PushedMember
  <2>2. e \in Entry
    BY <2>1 DEF NumberingInv, TypeInv, TypeOK, KafkaOK
  <2>3. e.conv \in ChatConvs
    BY <2>2 DEF Entry, ChatConvs
  <2> QED BY <2>3 DEF CreatedInv
<1> QED BY <1>1, NumberingInvariant, CreatedInvariant, PTL

-----------------------------------------------------------------------------
(***************************************************************************)
(* The order of numbering: NumberedInSendOrder.                            *)
(*                                                                         *)
(* Within one session of one process life the buffer, the part the ticker  *)
(* took and the slice are consecutive pieces of the topic (IntakeOrder).   *)
(* From the aggregation map on, nothing upstream was produced before       *)
(* something of its key downstream.                                        *)
(***************************************************************************)

\* <<n, m>> is in Earlier iff n was produced before m, with the same key.
Earlier == { nm \in Msg \X Msg : KeyOf[nm[1]] = KeyOf[nm[2]] /\ Before(nm[1], nm[2]) }

\* No message of t was produced before one of s; a sequence is in order.
Follows(t, s) == \A a \in DOMAIN t, b \in DOMAIN s : <<t[a], s[b]>> \notin Earlier
Sorted(s) == \A a, b \in DOMAIN s : a < b => <<s[b], s[a]>> \notin Earlier
OneKey(s) == \A a \in DOMAIN s : KeyOf[s[a]] = KeyOf[s[1]]

\* The partition of a message.
Part(m) == PartitionOf[KeyOf[m]]
\* How many messages of partition p were handed to the distribution, and how
\* many of these were aggregated.
Taken(p) == next[p] - Len(messages[p][1]) - Len(flush[p][1])
InSlice(p) == IF slice # <<>> /\ Part(slice[1]) = p THEN Len(slice) ELSE 0
Aggregated(p) == Taken(p) - InSlice(p)
\* The messages that were aggregated.
Seen == { m \in Msg : \E j \in 1 .. Aggregated(Part(m)) : topic[Part(m)][j] = m }

TopicOrder(p) ==
    /\ \A j \in DOMAIN topic[p] : Part(topic[p][j]) = p
    /\ \A j, k \in DOMAIN topic[p] : topic[p][j] = topic[p][k] => j = k

IntakeOrder(p) ==
    /\ next[p] <= Len(topic[p])
    /\ Aggregated(p) >= 0
    /\ \A j \in DOMAIN flush[p][1] : flush[p][1][j] = topic[p][Taken(p) + j]
    /\ \A j \in DOMAIN messages[p][1] :
          messages[p][1][j] = topic[p][Taken(p) + Len(flush[p][1]) + j]
    /\ InSlice(p) # 0 => \A j \in DOMAIN slice : slice[j] = topic[p][Aggregated(p) + j]
    /\ \A s \in Session \ {1} : messages[p][s] = <<>> /\ flush[p][s] = <<>>

DistOrder(k) == Sorted(dist[k]) /\ \A n \in DOMAIN dist[k] : dist[k][n] \in Seen

ChanOrder(i) ==
    /\ \A j \in DOMAIN ch[i] :
          /\ Sorted(ch[i][j]) /\ OneKey(ch[i][j])
          /\ \A n \in DOMAIN ch[i][j] : ch[i][j][n] \in Seen
          /\ \A k \in Key : Follows(dist[k], ch[i][j])
    /\ \A j, l \in DOMAIN ch[i] : j < l => Follows(ch[i][l], ch[i][j])

BatchOrder(i) ==
    /\ Sorted(batch[i]) /\ OneKey(batch[i])
    /\ \A n \in DOMAIN batch[i] : batch[i][n] \in Seen
    /\ \A k \in Key : Follows(dist[k], batch[i])
    /\ \A j \in DOMAIN ch[i] : Follows(ch[i][j], batch[i])

\* The list holds messages of the classified part of the batch, in order.
ListOrder(i) ==
    /\ pc[i] \in {"idle", "modify"} => list[i] = <<>>
    /\ Sorted(list[i])
    /\ \A a \in DOMAIN list[i] : \E b \in DOMAIN batch[i] :
          list[i][a] = batch[i][b] /\ (pc[i] = "classify" => b <= pos[i])

\* What was issued is of the key of its conversation, and nothing that still
\* waits was produced before it.
IssuedOrder ==
    \A e \in Issued :
        /\ e.msg \in Seen /\ KeyOf[e.msg] = ConvKey[e.conv]
        /\ \A k \in Key : \A n \in DOMAIN dist[k] : <<dist[k][n], e.msg>> \notin Earlier
        /\ \A i \in Channel : \A j \in DOMAIN ch[i] : \A n \in DOMAIN ch[i][j] :
              <<ch[i][j][n], e.msg>> \notin Earlier

\* Nor was a message of the batch produced before what earlier batches issued
\* under the conversation a handler works on or will work on.
BatchNotBefore(i, e) == \A n \in DOMAIN batch[i] : <<batch[i][n], e.msg>> \notin Earlier
IssuedBatch(i) ==
    /\ pc[i] \in {"classify"} \cup Numbers =>
          \A e \in Issued : e.conv = WorkConv(i) /\ (pc[i] \in Reserved => e.seq <= cur[i])
                               => BatchNotBefore(i, e)
    /\ pc[i] # "idle" /\ stage[i] = "msg" =>
          \A e \in Issued : e.conv = NotifConv[batch[i][1]] => BatchNotBefore(i, e)

SeqOrder == \A e, f \in Issued : e.conv = f.conv /\ f.seq <= e.seq => <<e.msg, f.msg>> \notin Earlier

FrontOrder == \A p \in Partition : TopicOrder(p) /\ IntakeOrder(p)
GoroutineOrder(i) == ChanOrder(i) /\ BatchOrder(i) /\ ListOrder(i) /\ IssuedBatch(i)
BackOrder == /\ \A k \in Key : DistOrder(k)
             /\ \A i \in Channel : GoroutineOrder(i)
             /\ IssuedOrder
             /\ SeqOrder

OrderInv == session = 1 /\ crashes = 0 => FrontOrder /\ BackOrder

\* A step with order to keep began in the first session of the first life.
LEMMA StillFirst ==
    ASSUME NumberingInv, OrderInv, [Next]_vars, session' = 1, crashes' = 0
    PROVE  session = 1 /\ crashes = 0 /\ FrontOrder /\ BackOrder
<1>1. session \in Nat \ {0} /\ crashes \in Nat
  BY DEF NumberingInv, TypeInv, TypeOK, IntakeOK, BoundOK, Session
<1>2. crashes' \in {crashes, crashes + 1} /\ session' \in {session, session + 1} \cup {1}
  BY DEF Next, MsgToMQ, Intake, ConsumeOne, Tick, SendSlice, Aggregate, Distribute, Work, Receive,
         Classify, Classified, GetMaxSeq, SetMessageToCache, SetMaxSeq, SetHasReadSeqs,
         CreateConversation, MsgToMongoMQ, Push, Pushed, BatchDone, ModifyPanic, MongoWork,
         BatchInsertChat2DB, DeleteMessagesFromCache, CommitOffsets, Rebalance, Crash, Restart, vars,
         intakeVars, boundVars
<1>3. session' = session \/ session' = session + 1 \/ crashes' = crashes + 1
  BY DEF Next, MsgToMQ, Intake, ConsumeOne, Tick, SendSlice, Aggregate, Distribute, Work, Receive,
         Classify, Classified, GetMaxSeq, SetMessageToCache, SetMaxSeq, SetHasReadSeqs,
         CreateConversation, MsgToMongoMQ, Push, Pushed, BatchDone, ModifyPanic, MongoWork,
         BatchInsertChat2DB, DeleteMessagesFromCache, CommitOffsets, Rebalance, Crash, Restart, vars,
         intakeVars, boundVars
<1>4. session = 1 /\ crashes = 0
  BY <1>1, <1>2, <1>3
<1> QED BY <1>4 DEF OrderInv

LEMMA PartType == \A m \in Msg : Part(m) \in Partition /\ KeyOf[m] \in Key
BY ConstantsAssumption DEF Part

\* The counts are whole numbers.
LEMMA CountTypes ==
    ASSUME TypeInv, NEW p \in Partition
    PROVE  /\ next[p] \in Nat /\ Len(messages[p][1]) \in Nat /\ Len(flush[p][1]) \in Nat
           /\ messages[p][1] \in Seq(Msg) /\ flush[p][1] \in Seq(Msg)
           /\ InSlice(p) \in Nat /\ Taken(p) \in Int /\ Aggregated(p) \in Int
           /\ topic[p] \in Seq(Msg) /\ Len(topic[p]) \in Nat
           /\ DOMAIN topic[p] = 1 .. Len(topic[p]) /\ DOMAIN flush[p][1] = 1 .. Len(flush[p][1])
           /\ DOMAIN messages[p][1] = 1 .. Len(messages[p][1])
<1>1. /\ next[p] \in Nat /\ messages[p][1] \in Seq(Msg) /\ flush[p][1] \in Seq(Msg) /\ topic[p] \in Seq(Msg)
      /\ slice \in Seq(Msg)
  BY ConstantsAssumption DEF TypeInv, TypeOK, KafkaOK, IntakeOK, DistOK, Session
<1>2. InSlice(p) \in Nat
  BY <1>1 DEF InSlice
<1>3. Len(messages[p][1]) \in Nat /\ Len(flush[p][1]) \in Nat /\ Len(topic[p]) \in Nat
  BY <1>1
<1>4. Taken(p) \in Int
  <2>1. PICK a, b, c : a = next[p] /\ b = Len(messages[p][1]) /\ c = Len(flush[p][1])
    OBVIOUS
  <2>2. a \in Nat /\ b \in Nat /\ c \in Nat /\ Taken(p) = a - b - c
    BY <1>1, <1>3, <2>1 DEF Taken
  <2>3. a - b - c \in Int
    BY <2>2
  <2> QED BY <2>2, <2>3
<1>5. Aggregated(p) \in Int
  BY <1>2, <1>4 DEF Aggregated
<1> QED BY <1>1, <1>2, <1>3, <1>4, <1>5

LEMMA AggregatedBound ==
    ASSUME TypeInv, FrontOrder, NEW p \in Partition
    PROVE  Aggregated(p) \in Nat /\ Aggregated(p) <= Len(topic[p])
<1>1. next[p] <= Len(topic[p]) /\ Aggregated(p) >= 0
  BY DEF FrontOrder, IntakeOrder
<1>2. /\ next[p] \in Nat /\ Len(messages[p][1]) \in Nat /\ Len(flush[p][1]) \in Nat
      /\ InSlice(p) \in Nat /\ Len(topic[p]) \in Nat /\ Aggregated(p) \in Int
  BY CountTypes
<1>3. PICK a, b, c, d, t : /\ a = next[p] /\ b = Len(messages[p][1]) /\ c = Len(flush[p][1])
                           /\ d = InSlice(p) /\ t = Len(topic[p])
  OBVIOUS
<1>4. a \in Nat /\ b \in Nat /\ c \in Nat /\ d \in Nat /\ t \in Nat /\ a <= t /\ Aggregated(p) = a - b - c - d
  BY <1>1, <1>2, <1>3 DEF Aggregated, Taken
<1>5. a - b - c - d <= t
  BY <1>4
<1> QED BY <1>1, <1>2, <1>3, <1>4, <1>5

\* A message has one place in its topic.
LEMMA PlaceUnique ==
    ASSUME TypeInv, FrontOrder, NEW m \in Msg, NEW p \in Partition, NEW q \in Partition,
           NEW j \in DOMAIN topic[p], NEW k \in DOMAIN topic[q], topic[p][j] = m, topic[q][k] = m
    PROVE  p = Part(m) /\ q = Part(m) /\ j = k
<1>1. p = Part(m) /\ q = Part(m)
  BY DEF FrontOrder, TopicOrder
<1> QED BY <1>1 DEF FrontOrder, TopicOrder

\* The next message of the slice was produced after all that were aggregated.
LEMMA NotBeforeSeen ==
    ASSUME TypeInv, FrontOrder, NEW m \in Msg, NEW x \in Msg, x \in Seen,
           NEW j \in DOMAIN topic[Part(m)], topic[Part(m)][j] = m, j > Aggregated(Part(m))
    PROVE  <<m, x>> \notin Earlier
<1> SUFFICES ASSUME <<m, x>> \in Earlier PROVE FALSE
  OBVIOUS
<1>1. PICK p \in Partition : \E a, b \in DOMAIN topic[p] : a < b /\ topic[p][a] = m /\ topic[p][b] = x
  BY DEF Earlier, Before
<1>2. PICK a \in DOMAIN topic[p], b \in DOMAIN topic[p] : a < b /\ topic[p][a] = m /\ topic[p][b] = x
  BY <1>1
<1>3. Part(m) \in Partition /\ Part(x) = Part(m)
  BY PartType DEF Earlier, Part
<1>4. a = j
  BY <1>2, <1>3, PlaceUnique
<1>5. PICK i \in 1 .. Aggregated(Part(x)) : topic[Part(x)][i] = x
  BY DEF Seen
<1>6. topic[Part(m)] \in Seq(Msg) /\ p = Part(m)
  BY <1>2, <1>3, PlaceUnique DEF TypeInv, TypeOK, KafkaOK
<1>7. Aggregated(Part(m)) \in Nat /\ Aggregated(Part(m)) <= Len(topic[Part(m)])
  BY <1>3, AggregatedBound
<1>8. i \in DOMAIN topic[Part(m)]
  BY <1>3, <1>5, <1>6, <1>7
<1>9. i = b
  BY <1>2, <1>3, <1>5, <1>6, <1>8, PlaceUnique
<1> QED BY <1>2, <1>3, <1>4, <1>5, <1>6, <1>7, <1>9

\* A message of the topic is not produced before itself.
LEMMA NotBeforeItself ==
    ASSUME TypeInv, FrontOrder, NEW m \in Msg PROVE <<m, m>> \notin Earlier
<1> SUFFICES ASSUME <<m, m>> \in Earlier PROVE FALSE
  OBVIOUS
<1>1. PICK p \in Partition : \E a, b \in DOMAIN topic[p] : a < b /\ topic[p][a] = m /\ topic[p][b] = m
  BY DEF Earlier, Before
<1>2. PICK a \in DOMAIN topic[p], b \in DOMAIN topic[p] : a < b /\ topic[p][a] = m /\ topic[p][b] = m
  BY <1>1
<1>3. a = b
  BY <1>2, PlaceUnique
<1>4. a \in Int
  BY CountTypes
<1> QED BY <1>2, <1>3, <1>4

\* Growing topics and counts keep what was aggregated and do not put anything
\* before it.
LEMMA OrderStable ==
    ASSUME TypeInv, TypeInv', FrontOrder, FrontOrder',
           \A p \in Partition : \A j \in DOMAIN topic[p] : j \in DOMAIN topic'[p] /\ topic'[p][j] = topic[p][j],
           \A p \in Partition : Aggregated(p)' >= Aggregated(p)
    PROVE  /\ Seen \subseteq Seen'
           /\ \A n, x \in Msg : x \in Seen /\ <<n, x>> \notin Earlier => <<n, x>> \notin Earlier'
<1>1. \A p \in Partition : DOMAIN topic[p] = 1 .. Len(topic[p]) /\ Len(topic[p]) \in Nat
  BY CountTypes
<1>2. \A p \in Partition : Aggregated(p) \in Nat /\ Aggregated(p) <= Len(topic[p])
  BY AggregatedBound
<1>3. \A p \in Partition : Aggregated(p)' \in Int
  <2> SUFFICES ASSUME NEW p \in Partition PROVE Aggregated(p)' \in Int
    OBVIOUS
  <2>0. /\ 1 \in Session /\ messages' \in [Partition -> [Session -> Seq(Msg)]]
        /\ flush' \in [Partition -> [Session -> Seq(Msg)]]
    BY ConstantsAssumption DEF TypeInv, TypeOK, IntakeOK, Session
  <2>1. next'[p] \in Nat /\ messages'[p][1] \in Seq(Msg) /\ flush'[p][1] \in Seq(Msg) /\ slice' \in Seq(Msg)
    BY <2>0 DEF TypeInv, TypeOK, KafkaOK, DistOK
  <2>2. PICK a, b, c, d : a = next'[p] /\ b = Len(messages'[p][1]) /\ c = Len(flush'[p][1]) /\ d = InSlice(p)'
    OBVIOUS
  <2>3. d \in Nat
    BY <2>1, <2>2 DEF InSlice
  <2>4. b \in Nat /\ c \in Nat /\ a \in Nat
    BY <2>1, <2>2
  <2>5. Aggregated(p)' = a - b - c - d
    BY <2>2 DEF Aggregated, Taken
  <2>6. a - b - c - d \in Int
    BY <2>3, <2>4
  <2> QED BY <2>5, <2>6
<1>4. ASSUME NEW x \in Msg, x \in Seen
      PROVE  \E j \in 1 .. Aggregated(Part(x)) : /\ topic[Part(x)][j] = x /\ j \in DOMAIN topic[Part(x)]
                                                 /\ topic'[Part(x)][j] = x /\ j \in DOMAIN topic'[Part(x)]
  <2>1. PICK j \in 1 .. Aggregated(Part(x)) : topic[Part(x)][j] = x
    BY <1>4 DEF Seen
  <2>2. Part(x) \in Partition
    BY PartType
  <2>3. j \in DOMAIN topic[Part(x)]
    BY <1>1, <1>2, <2>1, <2>2
  <2> QED BY <2>1, <2>2, <2>3
<1>5. Seen \subseteq Seen'
  <2> SUFFICES ASSUME NEW x \in Seen PROVE x \in Seen'
    OBVIOUS
  <2>1. x \in Msg
    BY DEF Seen
  <2>2. PICK j \in 1 .. Aggregated(Part(x)) : topic'[Part(x)][j] = x
    BY <1>4, <2>1
  <2>3. Part(x) \in Partition /\ Part(x)' = Part(x)
    BY <2>1, PartType DEF Part
  <2>4. j \in 1 .. Aggregated(Part(x))'
    <3>1. PICK a, b : a = Aggregated(Part(x)) /\ b = Aggregated(Part(x))'
      OBVIOUS
    <3>2. a \in Nat /\ b \in Int /\ b >= a /\ j \in 1 .. a
      BY <1>2, <1>3, <2>2, <2>3, <3>1
    <3> QED BY <3>1, <3>2
  <2>5. \E l \in 1 .. Aggregated(Part(x))' : topic'[Part(x)][l] = x
    BY <2>2, <2>4
  <2> QED BY <2>1, <2>5 DEF Seen, Part
<1>6. ASSUME NEW n \in Msg, NEW x \in Msg, x \in Seen, <<n, x>> \in Earlier' PROVE <<n, x>> \in Earlier
  <2>1. KeyOf[n] = KeyOf[x] /\ Before(n, x)'
    BY <1>6 DEF Earlier
  <2>2. PICK p \in Partition : \E a, b \in DOMAIN topic'[p] : a < b /\ topic'[p][a] = n /\ topic'[p][b] = x
    BY <2>1 DEF Before
  <2>3. PICK a \in DOMAIN topic'[p], b \in DOMAIN topic'[p] : a < b /\ topic'[p][a] = n /\ topic'[p][b] = x
    BY <2>2
  <2>4. PICK j \in DOMAIN topic[Part(x)] : topic[Part(x)][j] = x /\ topic'[Part(x)][j] = x
                                           /\ j \in DOMAIN topic'[Part(x)]
    BY <1>4, <1>6
  <2>5. Part(x) = p
    BY <2>3 DEF FrontOrder, TopicOrder, Part
  <2>6. b = j
    BY <2>3, <2>4, <2>5 DEF FrontOrder, TopicOrder
  <2>7. topic'[p] \in Seq(Msg)
    BY DEF TypeInv, TypeOK, KafkaOK
  <2>8. a \in DOMAIN topic[p] /\ b \in DOMAIN topic[p]
    <3>1. a \in 1 .. Len(topic'[p]) /\ b \in 1 .. Len(topic[p]) /\ Len(topic'[p]) \in Nat
      BY <1>1, <2>3, <2>4, <2>5, <2>6, <2>7
    <3> QED BY <1>1, <2>3, <3>1
  <2>9. topic[p][a] = n /\ topic[p][b] = x
    BY <2>3, <2>8
  <2> QED BY <2>1, <2>3, <2>8, <2>9 DEF Earlier, Before
<1> QED BY <1>5, <1>6

\* Every place holds messages.
LEMMA PlaceTypes ==
    ASSUME TypeInv
    PROVE  /\ \A k \in Key : dist[k] \in Seq(Msg) /\ \A n \in DOMAIN dist[k] : dist[k][n] \in Msg
           /\ \A i \in Channel : batch[i] \in Seq(Msg) /\ \A n \in DOMAIN batch[i] : batch[i][n] \in Msg
           /\ \A i \in Channel : list[i] \in Seq(Msg) /\ \A n \in DOMAIN list[i] : list[i][n] \in Msg
           /\ \A i \in Channel : \A j \in DOMAIN ch[i] :
                 ch[i][j] \in Seq(Msg) /\ \A n \in DOMAIN ch[i][j] : ch[i][j][n] \in Msg
<1>1. \A i \in Channel : ch[i] \in Seq(Seq(Msg))
  BY DEF TypeInv, TypeOK, ChanOK
<1>2. \A i \in Channel : \A j \in DOMAIN ch[i] : ch[i][j] \in Seq(Msg)
  BY <1>1
<1>3. \A s \in Seq(Msg) : \A n \in DOMAIN s : s[n] \in Msg
  OBVIOUS
<1>4. (\A k \in Key : dist[k] \in Seq(Msg)) /\ (\A i \in Channel : batch[i] \in Seq(Msg) /\ list[i] \in Seq(Msg))
  BY DEF TypeInv, TypeOK, DistOK, WorkOK
<1> QED BY <1>2, <1>3, <1>4

LEMMA IssuedType == ASSUME TypeInv PROVE Issued \subseteq Entry
<1>1. \A p \in Partition : toPush[p] \in Seq(Entry) /\ toMongo[p] \in Seq(MongoBatch)
  BY DEF TypeInv, TypeOK, KafkaOK
<1>2. PushedEntries \subseteq Entry
  BY <1>1 DEF PushedEntries
<1>3. QueuedEntries \subseteq Entry
  <2> SUFFICES ASSUME NEW p \in Partition, NEW n \in DOMAIN toMongo[p] PROVE BatchEntries(toMongo[p][n]) \subseteq Entry
    BY DEF QueuedEntries
  <2>1. toMongo[p][n] \in MongoBatch
    BY <1>1
  <2> QED BY <2>1, BatchEntriesType
<1> QED BY <1>2, <1>3 DEF Issued

\* What nothing was produced before stays so when it was aggregated.
KeepsOrder == /\ Seen \subseteq Seen'
              /\ \A n, x \in Msg : x \in Seen /\ <<n, x>> \notin Earlier => <<n, x>> \notin Earlier'

LEMMA FollowsKept ==
    ASSUME KeepsOrder, NEW t \in Seq(Msg), NEW s \in Seq(Msg), \A n \in DOMAIN s : s[n] \in Seen
    PROVE  (Follows(t, s) => Follows(t, s)') /\ (Sorted(s) => Sorted(s)')
<1>1. (\A a \in DOMAIN t : t[a] \in Msg) /\ (\A b \in DOMAIN s : s[b] \in Msg)
  OBVIOUS
<1> QED BY <1>1 DEF KeepsOrder, Follows, Sorted

\* What a goroutine lists was aggregated.
LEMMA ListSeen ==
    ASSUME NEW i \in Channel, BatchOrder(i), ListOrder(i)
    PROVE  \A n \in DOMAIN list[i] : list[i][n] \in Seen
BY DEF BatchOrder, ListOrder

\* A step before the aggregation does not change the order behind it.
LEMMA FrontStep ==
    ASSUME TypeInv, BackOrder, KeepsOrder, UNCHANGED <<dist, ch, workVars, toPush, toMongo>>
    PROVE  BackOrder'
<1>1. Issued' = Issued /\ Issued \subseteq Entry
  BY IssuedUnchanged, IssuedType
<1>2. pc' = pc /\ stage' = stage /\ batch' = batch /\ list' = list /\ cur' = cur /\ pos' = pos
  BY DEF workVars
<1>3. ASSUME NEW k \in Key PROVE DistOrder(k)'
  <2>1. DistOrder(k) /\ dist[k] \in Seq(Msg)
    BY PlaceTypes DEF BackOrder
  <2>2. Sorted(dist[k])'
    BY <2>1, FollowsKept DEF DistOrder
  <2> QED BY <2>1, <2>2 DEF DistOrder, KeepsOrder
<1>4. ASSUME NEW i \in Channel PROVE GoroutineOrder(i)'
  <2>1. ChanOrder(i) /\ BatchOrder(i) /\ ListOrder(i) /\ IssuedBatch(i)
    BY DEF BackOrder, GoroutineOrder
  <2>2. /\ batch[i] \in Seq(Msg) /\ list[i] \in Seq(Msg) /\ \A k \in Key : dist[k] \in Seq(Msg)
        /\ \A j \in DOMAIN ch[i] : ch[i][j] \in Seq(Msg)
    BY PlaceTypes
  <2>3. /\ \A n \in DOMAIN batch[i] : batch[i][n] \in Seen
        /\ \A n \in DOMAIN list[i] : list[i][n] \in Seen
        /\ \A j \in DOMAIN ch[i] : \A n \in DOMAIN ch[i][j] : ch[i][j][n] \in Seen
    BY <2>1, ListSeen DEF BatchOrder, ChanOrder
  <2>4. ChanOrder(i)'
    <3>1. ASSUME NEW j \in DOMAIN ch[i] PROVE Sorted(ch[i][j])' /\ \A k \in Key : Follows(dist[k], ch[i][j])'
      BY <2>1, <2>2, <2>3, <3>1, FollowsKept DEF ChanOrder
    <3>2. ASSUME NEW j \in DOMAIN ch[i], NEW l \in DOMAIN ch[i], j < l PROVE Follows(ch[i][l], ch[i][j])'
      BY <2>1, <2>2, <2>3, <3>2, FollowsKept DEF ChanOrder
    <3>3. \A j \in DOMAIN ch[i] : OneKey(ch[i][j])' /\ \A n \in DOMAIN ch[i][j] : ch[i][j][n] \in Seen'
      BY <2>1, <2>3 DEF ChanOrder, OneKey, KeepsOrder
    <3> QED BY <3>1, <3>2, <3>3 DEF ChanOrder
  <2>5. BatchOrder(i)'
    <3>1. Sorted(batch[i])' /\ \A k \in Key : Follows(dist[k], batch[i])'
      BY <1>2, <2>1, <2>2, <2>3, FollowsKept DEF BatchOrder
    <3>2. \A j \in DOMAIN ch[i] : Follows(ch[i][j], batch[i])'
      BY <1>2, <2>1, <2>2, <2>3, FollowsKept DEF BatchOrder
    <3>3. OneKey(batch[i])' /\ \A n \in DOMAIN batch[i] : batch[i][n] \in Seen'
      BY <1>2, <2>1, <2>3 DEF BatchOrder, OneKey, KeepsOrder
    <3> QED BY <1>2, <3>1, <3>2, <3>3 DEF BatchOrder
  <2>6. ListOrder(i)'
    <3>1. Sorted(list[i])'
      BY <1>2, <2>1, <2>2, <2>3, FollowsKept DEF ListOrder
    <3> QED BY <1>2, <2>1, <3>1 DEF ListOrder
  <2>7. IssuedBatch(i)'
    <3>1. \A e \in Issued : BatchNotBefore(i, e) => BatchNotBefore(i, e)'
      <4>1. \A e \in Issued : e.msg \in Seen /\ e.msg \in Msg
        BY <1>1 DEF BackOrder, IssuedOrder, Entry
      <4>2. \A n \in DOMAIN batch[i] : batch[i][n] \in Msg
        BY <2>2
      <4> QED BY <1>2, <4>1, <4>2 DEF BatchNotBefore, KeepsOrder
    <3>2. WorkConv(i)' = WorkConv(i)
      BY <1>2 DEF WorkConv, ConvOf
    <3> QED BY <1>1, <1>2, <2>1, <3>1, <3>2 DEF IssuedBatch
  <2> QED BY <2>4, <2>5, <2>6, <2>7 DEF GoroutineOrder
<1>5. \A e \in Issued : e.msg \in Seen /\ e.msg \in Msg
  BY <1>1 DEF BackOrder, IssuedOrder, Entry
<1>6. IssuedOrder'
  <2> SUFFICES ASSUME NEW e \in Issued
               PROVE  /\ e.msg \in Seen' /\ KeyOf[e.msg] = ConvKey[e.conv]
                      /\ \A k \in Key : \A n \in DOMAIN dist[k] : <<dist[k][n], e.msg>> \notin Earlier'
                      /\ \A i \in Channel : \A j \in DOMAIN ch[i] : \A n \in DOMAIN ch[i][j] :
                            <<ch[i][j][n], e.msg>> \notin Earlier'
    BY <1>1 DEF IssuedOrder
  <2>1. e.msg \in Seen' /\ KeyOf[e.msg] = ConvKey[e.conv]
    BY <1>5 DEF BackOrder, IssuedOrder, KeepsOrder
  <2>2. \A k \in Key : \A n \in DOMAIN dist[k] : <<dist[k][n], e.msg>> \notin Earlier'
    BY <1>5, PlaceTypes DEF BackOrder, IssuedOrder, KeepsOrder
  <2>3. \A i \in Channel : \A j \in DOMAIN ch[i] : \A n \in DOMAIN ch[i][j] : <<ch[i][j][n], e.msg>> \notin Earlier'
    BY <1>5, PlaceTypes DEF BackOrder, IssuedOrder, KeepsOrder
  <2> QED BY <2>1, <2>2, <2>3
<1>7. SeqOrder'
  BY <1>1, <1>5 DEF BackOrder, SeqOrder, KeepsOrder
<1> QED BY <1>3, <1>4, <1>6, <1>7 DEF BackOrder

\* The pieces lie within the topic.
LEMMA PiecesInTopic ==
    ASSUME TypeInv, FrontOrder, NEW p \in Partition
    PROVE  /\ Taken(p) \in Nat
           /\ \A j \in DOMAIN flush[p][1] : Taken(p) + j \in DOMAIN topic[p]
           /\ \A j \in DOMAIN messages[p][1] : Taken(p) + Len(flush[p][1]) + j \in DOMAIN topic[p]
           /\ InSlice(p) # 0 => \A j \in DOMAIN slice : Aggregated(p) + j \in DOMAIN topic[p]
<1>1. PICK a, b, c, d, t, g, h : /\ a = next[p] /\ b = Len(messages[p][1]) /\ c = Len(flush[p][1])
                                 /\ d = InSlice(p) /\ t = Len(topic[p]) /\ g = Taken(p) /\ h = Aggregated(p)
  OBVIOUS
<1>2. a \in Nat /\ b \in Nat /\ c \in Nat /\ d \in Nat /\ t \in Nat /\ g \in Int /\ h \in Nat /\ a <= t
  BY <1>1, CountTypes, AggregatedBound DEF FrontOrder, IntakeOrder
<1>3. g = a - b - c /\ h = g - d
  BY <1>1 DEF Taken, Aggregated
<1>4. g \in Nat /\ g + c + b <= t /\ h + d <= t
  BY <1>2, <1>3
<1>5. /\ DOMAIN topic[p] = 1 .. t /\ DOMAIN flush[p][1] = 1 .. c /\ DOMAIN messages[p][1] = 1 .. b
  BY <1>1, CountTypes
<1>6. d # 0 => DOMAIN slice = 1 .. d
  <2>1. slice \in Seq(Msg)
    BY DEF TypeInv, TypeOK, DistOK
  <2> QED BY <1>1, <2>1 DEF InSlice
<1>7. \A j \in 1 .. c : g + j \in 1 .. t
  BY <1>2, <1>4
<1>8. \A j \in 1 .. b : g + c + j \in 1 .. t
  BY <1>2, <1>4
<1>9. \A j \in 1 .. d : h + j \in 1 .. t
  BY <1>2, <1>4
<1> QED BY <1>1, <1>4, <1>5, <1>6, <1>7, <1>8, <1>9

\* A partition whose buffers a step leaves alone, while its topic may grow.
LEMMA IntakeSame ==
    ASSUME TypeInv, FrontOrder, NEW p \in Partition,
           next'[p] = next[p], messages'[p] = messages[p], flush'[p] = flush[p],
           InSlice(p)' = InSlice(p), InSlice(p) # 0 => slice' = slice,
           \A j \in DOMAIN topic[p] : topic'[p][j] = topic[p][j], Len(topic'[p]) \in Nat,
           Len(topic'[p]) >= Len(topic[p])
    PROVE  IntakeOrder(p)' /\ Aggregated(p)' = Aggregated(p)
<1>1. Taken(p)' = Taken(p)
  BY DEF Taken
<1>2. Aggregated(p)' = Aggregated(p)
  BY <1>1 DEF Aggregated
<1>3. IntakeOrder(p)
  BY DEF FrontOrder
<1>4. (next[p] <= Len(topic[p]))'
  <2>1. next[p] \in Nat /\ Len(topic[p]) \in Nat /\ next[p] <= Len(topic[p])
    BY <1>3, CountTypes DEF IntakeOrder
  <2> QED BY <2>1
<1>5. \A j \in DOMAIN flush'[p][1] : flush'[p][1][j] = topic'[p][Taken(p) + j]
  BY <1>3, PiecesInTopic DEF IntakeOrder
<1>6. \A j \in DOMAIN messages'[p][1] : messages'[p][1][j] = topic'[p][Taken(p) + Len(flush[p][1]) + j]
  BY <1>3, PiecesInTopic DEF IntakeOrder
<1>7. InSlice(p) # 0 => \A j \in DOMAIN slice' : slice'[j] = topic'[p][Aggregated(p) + j]
  BY <1>3, PiecesInTopic DEF IntakeOrder
<1>8. \A s \in Session \ {1} : messages'[p][s] = <<>> /\ flush'[p][s] = <<>>
  BY <1>3 DEF IntakeOrder
<1>9. Aggregated(p)' >= 0
  BY <1>2, <1>3 DEF IntakeOrder
<1> QED BY <1>1, <1>2, <1>4, <1>5, <1>6, <1>7, <1>8, <1>9 DEF IntakeOrder

LEMMA MsgToMQOrder ==
    ASSUME TypeInv, TypeInv', FrontOrder, NEW m \in Msg, MsgToMQ(m)
    PROVE  /\ FrontOrder' /\ \A p \in Partition : Aggregated(p)' = Aggregated(p)
           /\ \A p \in Partition : \A j \in DOMAIN topic[p] : j \in DOMAIN topic'[p] /\ topic'[p][j] = topic[p][j]
<1> DEFINE q == Part(m)
<1>1. /\ topic' = [topic EXCEPT ![q] = Append(topic[q], m)] /\ \A n \in DOMAIN topic[q] : topic[q][n] # m
      /\ UNCHANGED <<next, messages, flush, slice>>
  BY DEF MsgToMQ, Part, intakeVars, distVars
<1>2. q \in Partition /\ topic \in [Partition -> Seq(Msg)]
  BY PartType DEF TypeInv, TypeOK, KafkaOK
<1>3. topic'[q] = Append(topic[q], m) /\ \A p \in Partition \ {q} : topic'[p] = topic[p]
  BY <1>1, <1>2
<1>4. /\ Len(topic'[q]) = Len(topic[q]) + 1 /\ Len(topic[q]) \in Nat
      /\ \A j \in 1 .. Len(topic[q]) : topic'[q][j] = topic[q][j]
      /\ topic'[q][Len(topic[q]) + 1] = m
      /\ DOMAIN topic'[q] = 1 .. Len(topic[q]) + 1
      /\ DOMAIN topic[q] = 1 .. Len(topic[q])
  BY <1>2, <1>3, AppendFacts
<1>5. \A p \in Partition : /\ \A j \in DOMAIN topic[p] : j \in DOMAIN topic'[p] /\ topic'[p][j] = topic[p][j]
                           /\ Len(topic'[p]) \in Nat /\ Len(topic'[p]) >= Len(topic[p])
  <2> SUFFICES ASSUME NEW p \in Partition
               PROVE  /\ \A j \in DOMAIN topic[p] : j \in DOMAIN topic'[p] /\ topic'[p][j] = topic[p][j]
                      /\ Len(topic'[p]) \in Nat /\ Len(topic'[p]) >= Len(topic[p])
    OBVIOUS
  <2>1. Len(topic[p]) \in Nat
    BY CountTypes
  <2>2. CASE p = q
    BY <1>4, <2>2
  <2>3. CASE p # q
    BY <1>3, <2>1, <2>3
  <2> QED BY <2>2, <2>3
<1>6. \A p \in Partition : InSlice(p)' = InSlice(p)
  BY <1>1 DEF InSlice, Part
<1>7. \A p \in Partition : IntakeOrder(p)' /\ Aggregated(p)' = Aggregated(p)
  BY <1>1, <1>5, <1>6, IntakeSame
<1>8. ASSUME NEW p \in Partition PROVE TopicOrder(p)'
  <2>1. TopicOrder(p)
    BY DEF FrontOrder
  <2>2. CASE p = q
    <3>1. \A j \in DOMAIN topic'[q] : Part(topic'[q][j]) = q
      BY <1>4, <2>1, <2>2 DEF TopicOrder
    <3>2. \A j, k \in DOMAIN topic'[q] : topic'[q][j] = topic'[q][k] => j = k
      BY <1>1, <1>4, <2>1, <2>2 DEF TopicOrder
    <3> QED BY <2>2, <3>1, <3>2 DEF TopicOrder, Part
  <2>3. CASE p # q
    BY <1>3, <2>1, <2>3 DEF TopicOrder, Part
  <2> QED BY <2>2, <2>3
<1> QED BY <1>5, <1>7, <1>8 DEF FrontOrder

\* A step that touches the buffers of one partition.
LEMMA OnePartition ==
    ASSUME TypeInv, FrontOrder, NEW p \in Partition, UNCHANGED topic, IntakeOrder(p)',
           \A q \in Partition \ {p} : /\ next'[q] = next[q] /\ messages'[q] = messages[q]
                                      /\ flush'[q] = flush[q] /\ InSlice(q)' = InSlice(q)
                                      /\ InSlice(q) # 0 => slice' = slice
    PROVE  FrontOrder' /\ \A q \in Partition \ {p} : Aggregated(q)' = Aggregated(q)
<1>1. ASSUME NEW q \in Partition \ {p} PROVE IntakeOrder(q)' /\ Aggregated(q)' = Aggregated(q)
  <2>1. Len(topic[q]) \in Nat
    BY CountTypes
  <2> QED BY <2>1, IntakeSame
<1>2. \A q \in Partition : TopicOrder(q)'
  BY DEF FrontOrder, TopicOrder, Part
<1> QED BY <1>1, <1>2 DEF FrontOrder

LEMMA ConsumeOneOrder ==
    ASSUME TypeInv, TypeInv', FrontOrder, session = 1, NEW p \in Partition, ConsumeOne(p)
    PROVE  FrontOrder' /\ UNCHANGED topic /\ \A q \in Partition : Aggregated(q)' = Aggregated(q)
<1>1. /\ messages' = [messages EXCEPT ![p][1] = Append(messages[p][1], topic[p][next[p] + 1])]
      /\ next' = [next EXCEPT ![p] = next[p] + 1] /\ next[p] < Len(topic[p])
      /\ UNCHANGED <<topic, flush, slice>>
  BY DEF ConsumeOne, distVars
<1>2. /\ 1 \in Session /\ messages \in [Partition -> [Session -> Seq(Msg)]] /\ next \in [Partition -> Nat]
      /\ messages[p][1] \in Seq(Msg) /\ topic[p] \in Seq(Msg)
  BY ConstantsAssumption, CountTypes DEF TypeInv, TypeOK, KafkaOK, IntakeOK, Session
<1>3. /\ messages'[p][1] = Append(messages[p][1], topic[p][next[p] + 1])
      /\ \A s \in Session \ {1} : messages'[p][s] = messages[p][s]
      /\ \A q \in Partition \ {p} : messages'[q] = messages[q]
      /\ next'[p] = next[p] + 1 /\ \A q \in Partition \ {p} : next'[q] = next[q]
  BY <1>1, <1>2
<1>4. PICK a, b, c, d, t, g : /\ a = next[p] /\ b = Len(messages[p][1]) /\ c = Len(flush[p][1])
                              /\ d = InSlice(p) /\ t = Len(topic[p]) /\ g = Taken(p)
  OBVIOUS
<1>5. /\ a \in Nat /\ b \in Nat /\ c \in Nat /\ d \in Nat /\ t \in Nat /\ g \in Nat
      /\ g = a - b - c /\ a < t
  BY <1>1, <1>4, CountTypes, PiecesInTopic DEF Taken
<1>6. topic[p][a + 1] \in Msg
  BY <1>2, <1>4, <1>5
<1>7. /\ Len(messages'[p][1]) = b + 1 /\ DOMAIN messages'[p][1] = 1 .. b + 1
      /\ \A j \in 1 .. b : messages'[p][1][j] = messages[p][1][j]
      /\ messages'[p][1][b + 1] = topic[p][a + 1]
      /\ DOMAIN messages[p][1] = 1 .. b
  BY <1>2, <1>3, <1>4, <1>6, AppendFacts
<1>8. Taken(p)' = g
  <2>1. Taken(p)' = (a + 1) - (b + 1) - c
    BY <1>1, <1>3, <1>4, <1>7 DEF Taken
  <2> QED BY <1>5, <2>1
<1>9. \A q \in Partition : InSlice(q)' = InSlice(q)
  BY <1>1 DEF InSlice, Part
<1>10. Aggregated(p)' = Aggregated(p)
  BY <1>4, <1>8, <1>9 DEF Aggregated
<1>11. IntakeOrder(p)
  BY DEF FrontOrder
<1>12. IntakeOrder(p)'
  <2>1. (next[p] <= Len(topic[p]))'
    <3>1. next'[p] = a + 1 /\ Len(topic'[p]) = t
      BY <1>1, <1>3, <1>4
    <3> QED BY <1>5, <3>1
  <2>2. (Aggregated(p) >= 0)'
    BY <1>10, <1>11 DEF IntakeOrder
  <2>3. \A j \in DOMAIN flush'[p][1] : flush'[p][1][j] = topic'[p][Taken(p)' + j]
    BY <1>1, <1>4, <1>8, <1>11 DEF IntakeOrder
  <2>4. \A j \in DOMAIN messages'[p][1] : messages'[p][1][j] = topic'[p][Taken(p)' + Len(flush'[p][1]) + j]
    <3>1. \A j \in 1 .. b : messages[p][1][j] = topic[p][g + c + j]
      BY <1>4, <1>7, <1>11 DEF IntakeOrder
    <3>2. g + c + (b + 1) = a + 1
      BY <1>5
    <3>3. \A j \in 1 .. b + 1 : messages'[p][1][j] = topic[p][g + c + j]
      <4> SUFFICES ASSUME NEW j \in 1 .. b + 1 PROVE messages'[p][1][j] = topic[p][g + c + j]
        OBVIOUS
      <4>1. j \in 1 .. b \/ j = b + 1
        BY <1>5
      <4> QED BY <1>7, <3>1, <3>2, <4>1
    <3> QED BY <1>1, <1>4, <1>7, <1>8, <3>3
  <2>5. (InSlice(p) # 0 => \A j \in DOMAIN slice : slice[j] = topic[p][Aggregated(p) + j])'
    BY <1>1, <1>9, <1>10, <1>11 DEF IntakeOrder
  <2>6. \A s \in Session \ {1} : messages'[p][s] = <<>> /\ flush'[p][s] = <<>>
    BY <1>1, <1>3, <1>11 DEF IntakeOrder
  <2> QED BY <2>1, <2>2, <2>3, <2>4, <2>5, <2>6 DEF IntakeOrder
<1>13. FrontOrder' /\ \A q \in Partition \ {p} : Aggregated(q)' = Aggregated(q)
  BY <1>1, <1>3, <1>9, <1>12, OnePartition
<1> QED BY <1>1, <1>10, <1>13

LEMMA TickOrder ==
    ASSUME TypeInv, TypeInv', FrontOrder, NEW p \in Partition, NEW s \in Session, Tick(p, s)
    PROVE  FrontOrder' /\ UNCHANGED topic /\ \A q \in Partition : Aggregated(q)' = Aggregated(q)
<1>0. s = 1
  BY DEF Tick, FrontOrder, IntakeOrder
<1>1. /\ messages' = [messages EXCEPT ![p][1] = <<>>] /\ flush' = [flush EXCEPT ![p][1] = messages[p][1]]
      /\ flush[p][1] = <<>> /\ UNCHANGED <<topic, next, slice>>
  BY <1>0 DEF Tick, kafkaVars, distVars
<1>2. /\ 1 \in Session /\ messages \in [Partition -> [Session -> Seq(Msg)]]
      /\ flush \in [Partition -> [Session -> Seq(Msg)]]
  BY <1>0 DEF TypeInv, TypeOK, IntakeOK
<1>3. /\ messages'[p][1] = <<>> /\ flush'[p][1] = messages[p][1]
      /\ \A r \in Session \ {1} : messages'[p][r] = messages[p][r] /\ flush'[p][r] = flush[p][r]
      /\ \A q \in Partition \ {p} : messages'[q] = messages[q] /\ flush'[q] = flush[q]
  BY <1>1, <1>2
<1>4. PICK a, b, d, t, g : /\ a = next[p] /\ b = Len(messages[p][1])
                           /\ d = InSlice(p) /\ t = Len(topic[p]) /\ g = Taken(p)
  OBVIOUS
<1>5. Len(flush[p][1]) = 0 /\ Len(messages'[p][1]) = 0
  BY <1>1, <1>3
<1>6. a \in Nat /\ b \in Nat /\ g \in Nat /\ g = a - b - 0
  BY <1>4, <1>5, CountTypes, PiecesInTopic DEF Taken
<1>7. Taken(p)' = g
  <2>1. Taken(p)' = a - 0 - b
    BY <1>1, <1>3, <1>4, <1>5 DEF Taken
  <2> QED BY <1>6, <2>1
<1>8. \A q \in Partition : InSlice(q)' = InSlice(q)
  BY <1>1 DEF InSlice, Part
<1>9. Aggregated(p)' = Aggregated(p)
  BY <1>4, <1>7, <1>8 DEF Aggregated
<1>10. IntakeOrder(p)
  BY DEF FrontOrder
<1>11. IntakeOrder(p)'
  <2>1. (next[p] <= Len(topic[p]))' /\ (Aggregated(p) >= 0)'
    BY <1>1, <1>9, <1>10 DEF IntakeOrder
  <2>2. \A j \in DOMAIN flush'[p][1] : flush'[p][1][j] = topic'[p][Taken(p)' + j]
    <3>1. \A j \in DOMAIN messages[p][1] : messages[p][1][j] = topic[p][g + 0 + j]
      BY <1>4, <1>5, <1>10 DEF IntakeOrder
    <3>2. \A j \in DOMAIN messages[p][1] : j \in Nat /\ g + 0 + j = g + j
      BY <1>6, CountTypes
    <3> QED BY <1>1, <1>3, <1>7, <3>1, <3>2
  <2>3. DOMAIN messages'[p][1] = {}
    BY <1>3
  <2>4. (InSlice(p) # 0 => \A j \in DOMAIN slice : slice[j] = topic[p][Aggregated(p) + j])'
    BY <1>1, <1>8, <1>9, <1>10 DEF IntakeOrder
  <2>5. \A r \in Session \ {1} : messages'[p][r] = <<>> /\ flush'[p][r] = <<>>
    BY <1>3, <1>10 DEF IntakeOrder
  <2> QED BY <2>1, <2>2, <2>3, <2>4, <2>5 DEF IntakeOrder
<1>12. FrontOrder' /\ \A q \in Partition \ {p} : Aggregated(q)' = Aggregated(q)
  BY <1>1, <1>3, <1>8, <1>11, OnePartition
<1> QED BY <1>1, <1>9, <1>12

LEMMA SendSliceOrder ==
    ASSUME TypeInv, TypeInv', FrontOrder, NEW p \in Partition, NEW s \in Session, SendSlice(p, s)
    PROVE  FrontOrder' /\ UNCHANGED topic /\ \A q \in Partition : Aggregated(q)' = Aggregated(q)
<1>0. s = 1
  BY DEF SendSlice, HasSlice, FrontOrder, IntakeOrder
<1> DEFINE F == flush[p][1]
           n == SliceLen(F)
<1>1. /\ F # <<>> /\ slice = <<>> /\ slice' = SubSeq(F, 1, n)
      /\ flush' = [flush EXCEPT ![p][1] = SubSeq(F, n + 1, Len(F))] /\ UNCHANGED <<topic, next, messages>>
  BY <1>0 DEF SendSlice, HasSlice, DistIdle, kafkaVars
<1>2. /\ 1 \in Session /\ flush \in [Partition -> [Session -> Seq(Msg)]] /\ F \in Seq(Msg)
  BY <1>0 DEF TypeInv, TypeOK, IntakeOK
<1>3. /\ flush'[p][1] = SubSeq(F, n + 1, Len(F))
      /\ \A r \in Session \ {1} : flush'[p][r] = flush[p][r]
      /\ \A q \in Partition \ {p} : flush'[q] = flush[q]
  <2> HIDE DEF n
  <2> QED BY <1>1, <1>2
<1>4. n \in 1 .. Len(F) /\ Len(F) \in Nat /\ DOMAIN F = 1 .. Len(F)
  <2>1. Len(F) \in Nat /\ Len(F) # 0 /\ Split \in Nat \ {0}
    BY <1>1, <1>2, ConstantsAssumption
  <2>2. n = (IF Len(F) < Split THEN Len(F) ELSE Split)
    BY DEF SliceLen
  <2> HIDE DEF F
  <2> QED BY <1>2, <2>1, <2>2
<1>5. PICK a, b, c, t, g : /\ a = next[p] /\ b = Len(messages[p][1]) /\ c = Len(F)
                           /\ t = Len(topic[p]) /\ g = Taken(p)
  OBVIOUS
<1>6. a \in Nat /\ b \in Nat /\ c \in Nat /\ g \in Nat /\ t \in Nat /\ g = a - b - c /\ n \in 1 .. c
  BY <1>4, <1>5, CountTypes, PiecesInTopic DEF Taken
<1> HIDE DEF n
<1>7. /\ slice' \in Seq(Msg) /\ Len(slice') = n /\ DOMAIN slice' = 1 .. n
      /\ \A j \in 1 .. n : slice'[j] = F[j]
  BY <1>1, <1>2, <1>4
<1>8. /\ Len(flush'[p][1]) = c - n /\ DOMAIN flush'[p][1] = 1 .. c - n
      /\ \A j \in 1 .. c - n : flush'[p][1][j] = F[n + j]
  <2> DEFINE G == SubSeq(F, n + 1, c)
  <2>1. flush'[p][1] = G
    BY <1>3, <1>5
  <2>2. G \in Seq(Msg) /\ Len(G) = c - n /\ \A j \in 1 .. c - n : G[j] = F[n + j]
    <3>1. n + 1 <= c + 1 /\ c - (n + 1) + 1 = c - n /\ \A j \in 1 .. c - n : (n + 1) + j - 1 = n + j
      BY <1>6
    <3>2. n + 1 \in 1 .. c + 1 /\ c \in Nat /\ Len(F) = c
      BY <1>5, <1>6
    <3>3. G \in Seq(Msg)
      BY <1>2, <1>6, <3>2
    <3>4. Len(G) = IF n + 1 <= c THEN c - (n + 1) + 1 ELSE 0
      BY <1>2, <1>6, <3>2
    <3>5. \A j \in 1 .. c - n : G[j] = F[(n + 1) + j - 1]
      BY <1>2, <1>6, <3>2
    <3> QED BY <1>6, <3>1, <3>3, <3>4, <3>5
  <2>3. DOMAIN G = 1 .. Len(G)
    BY <2>2
  <2> QED BY <2>1, <2>2, <2>3
<1>9. IntakeOrder(p) /\ TopicOrder(p) /\ \A j \in 1 .. c : F[j] = topic[p][g + j]
  BY <1>4, <1>5 DEF FrontOrder, IntakeOrder
<1>10. \A q \in Partition : InSlice(q) = 0
  BY <1>1 DEF InSlice
<1>11. Part(slice'[1]) = p /\ slice' # <<>>
  <2>1. 1 \in 1 .. n /\ 1 \in DOMAIN F
    BY <1>4, <1>6
  <2>2. slice'[1] = topic[p][g + 1] /\ g + 1 \in DOMAIN topic[p]
    BY <1>4, <1>5, <1>7, <1>9, <2>1, PiecesInTopic
  <2> QED BY <1>7, <1>9, <2>1, <2>2 DEF TopicOrder
<1>12. InSlice(p)' = n /\ \A q \in Partition \ {p} : InSlice(q)' = 0
  BY <1>7, <1>11 DEF InSlice, Part
<1>13. Taken(p)' = g + n
  <2>1. Taken(p)' = a - b - (c - n)
    BY <1>1, <1>5, <1>8 DEF Taken
  <2> QED BY <1>6, <2>1
<1>14. Aggregated(p)' = g /\ Aggregated(p) = g
  <2>1. Aggregated(p)' = (g + n) - n /\ Aggregated(p) = g - 0
    BY <1>5, <1>10, <1>12, <1>13 DEF Aggregated
  <2> QED BY <1>6, <2>1
<1>15. IntakeOrder(p)'
  <2>1. (next[p] <= Len(topic[p]))' /\ (Aggregated(p) >= 0)'
    BY <1>1, <1>6, <1>9, <1>14 DEF IntakeOrder
  <2>2. \A j \in DOMAIN flush'[p][1] : flush'[p][1][j] = topic'[p][Taken(p)' + j]
    <3> SUFFICES ASSUME NEW j \in 1 .. c - n PROVE flush'[p][1][j] = topic[p][(g + n) + j]
      BY <1>1, <1>8, <1>13
    <3>1. n + j \in 1 .. c /\ g + (n + j) = (g + n) + j
      BY <1>6
    <3> QED BY <1>8, <1>9, <3>1
  <2>3. \A j \in DOMAIN messages'[p][1] : messages'[p][1][j] = topic'[p][Taken(p)' + Len(flush'[p][1]) + j]
    <3>1. \A j \in DOMAIN messages[p][1] : messages[p][1][j] = topic[p][g + c + j]
      BY <1>5, <1>9 DEF IntakeOrder
    <3>2. (g + n) + (c - n) = g + c
      BY <1>6
    <3> QED BY <1>1, <1>8, <1>13, <3>1, <3>2
  <2>4. \A j \in DOMAIN slice' : slice'[j] = topic'[p][Aggregated(p)' + j]
    <3>1. \A j \in 1 .. n : j \in 1 .. c
      BY <1>6
    <3> QED BY <1>1, <1>7, <1>9, <1>14, <3>1
  <2>5. \A r \in Session \ {1} : messages'[p][r] = <<>> /\ flush'[p][r] = <<>>
    BY <1>1, <1>3, <1>9 DEF IntakeOrder
  <2> QED BY <2>1, <2>2, <2>3, <2>4, <2>5 DEF IntakeOrder
<1>16. FrontOrder' /\ \A q \in Partition \ {p} : Aggregated(q)' = Aggregated(q)
  BY <1>1, <1>3, <1>10, <1>12, <1>15, OnePartition
<1> QED BY <1>1, <1>14, <1>16

\* The aggregation takes the next message of a partition.
LEMMA AggregateFront ==
    ASSUME TypeInv, TypeInv', FrontOrder, Aggregate, NEW m, m = Head(slice), NEW p, p = Part(m)
    PROVE  /\ FrontOrder' /\ UNCHANGED topic
           /\ \A q \in Partition : Aggregated(q)' >= Aggregated(q)
           /\ m \in Msg /\ Aggregated(p)' = Aggregated(p) + 1
           /\ Aggregated(p) + 1 \in DOMAIN topic[p] /\ topic[p][Aggregated(p) + 1] = m
<1>1. slice # <<>> /\ slice' = Tail(slice) /\ UNCHANGED <<topic, next, messages, flush>>
  BY DEF Aggregate, kafkaVars, intakeVars
<1>2. slice \in Seq(Msg)
  BY DEF TypeInv, TypeOK, DistOK
<1>3. m = slice[1] /\ m \in Msg /\ p \in Partition
  BY <1>1, <1>2, PartType
<1>4. PICK l, h : l = Len(slice) /\ h = Aggregated(p)
  OBVIOUS
<1>5. l \in Nat \ {0} /\ h \in Nat /\ DOMAIN slice = 1 .. l
  BY <1>1, <1>2, <1>3, <1>4, AggregatedBound
<1>6. InSlice(p) = l /\ \A q \in Partition \ {p} : InSlice(q) = 0
  BY <1>1, <1>3, <1>4 DEF InSlice
<1>7. /\ Len(slice') = l - 1 /\ DOMAIN slice' = 1 .. l - 1 /\ slice' \in Seq(Msg)
      /\ \A j \in 1 .. l - 1 : slice'[j] = slice[j + 1] /\ j + 1 \in 1 .. l
  <2>1. /\ Tail(slice) \in Seq(Msg) /\ Len(Tail(slice)) = l - 1
        /\ \A j \in 1 .. l - 1 : j + 1 \in 1 .. l /\ Tail(slice)[j] = slice[j + 1]
    BY <1>1, <1>2, <1>4, TailFacts
  <2> QED BY <1>1, <2>1
<1>8. /\ \A j \in 1 .. l : slice[j] = topic[p][h + j] /\ h + j \in DOMAIN topic[p]
  BY <1>3, <1>4, <1>5, <1>6, PiecesInTopic DEF FrontOrder, IntakeOrder
<1>9. \A j \in 1 .. l : Part(slice[j]) = p
  BY <1>3, <1>8 DEF FrontOrder, TopicOrder
<1>10. InSlice(p)' = l - 1 /\ \A q \in Partition \ {p} : InSlice(q)' = 0
  <2>1. CASE l = 1
    <3>1. Len(slice') = 0
      BY <1>7, <2>1
    <3>2. slice' = <<>>
      BY <1>7, <3>1
    <3> QED BY <2>1, <3>2 DEF InSlice
  <2>2. CASE l # 1
    <3>1. 1 \in 1 .. l - 1
      BY <1>5, <2>2
    <3>2. slice' # <<>> /\ slice'[1] = slice[2] /\ 2 \in 1 .. l
      BY <1>7, <3>1
    <3>3. Part(slice'[1]) = p
      BY <1>9, <3>2
    <3> QED BY <1>7, <3>2, <3>3 DEF InSlice, Part
  <2> QED BY <2>1, <2>2
<1>11. Taken(p)' = Taken(p) /\ Taken(p) \in Nat
  BY <1>1, <1>3, PiecesInTopic DEF Taken
<1>12. Aggregated(p)' = h + 1
  <2>1. PICK g : g = Taken(p)
    OBVIOUS
  <2>2. g \in Nat /\ h = g - l /\ Aggregated(p)' = g - (l - 1)
    BY <1>4, <1>6, <1>10, <1>11, <2>1 DEF Aggregated
  <2> QED BY <1>5, <2>2
<1>13. IntakeOrder(p) /\ 1 \in 1 .. l
  BY <1>3, <1>5 DEF FrontOrder
<1>14. IntakeOrder(p)'
  <2>1. (next[p] <= Len(topic[p]))' /\ (Aggregated(p) >= 0)'
    BY <1>1, <1>5, <1>12, <1>13 DEF IntakeOrder
  <2>2. \A j \in DOMAIN flush'[p][1] : flush'[p][1][j] = topic'[p][Taken(p)' + j]
    BY <1>1, <1>11, <1>13 DEF IntakeOrder
  <2>3. \A j \in DOMAIN messages'[p][1] : messages'[p][1][j] = topic'[p][Taken(p)' + Len(flush'[p][1]) + j]
    BY <1>1, <1>11, <1>13 DEF IntakeOrder
  <2>4. \A j \in DOMAIN slice' : slice'[j] = topic'[p][Aggregated(p)' + j]
    <3> SUFFICES ASSUME NEW j \in 1 .. l - 1 PROVE slice'[j] = topic[p][(h + 1) + j]
      BY <1>1, <1>7, <1>12
    <3>1. h + (j + 1) = (h + 1) + j
      BY <1>5
    <3> QED BY <1>7, <1>8, <3>1
  <2>5. \A r \in Session \ {1} : messages'[p][r] = <<>> /\ flush'[p][r] = <<>>
    BY <1>1, <1>13 DEF IntakeOrder
  <2> QED BY <2>1, <2>2, <2>3, <2>4, <2>5 DEF IntakeOrder
<1>15. FrontOrder' /\ \A q \in Partition \ {p} : Aggregated(q)' = Aggregated(q)
  <2> QED BY <1>1, <1>3, <1>6, <1>10, <1>14, OnePartition
<1>16. \A q \in Partition : Aggregated(q)' >= Aggregated(q)
  <2> SUFFICES ASSUME NEW q \in Partition PROVE Aggregated(q)' >= Aggregated(q)
    OBVIOUS
  <2>1. Aggregated(q) \in Nat
    BY AggregatedBound
  <2>2. CASE q = p
    BY <1>4, <1>5, <1>12, <2>2
  <2>3. CASE q # p
    BY <1>15, <2>1, <2>3
  <2> QED BY <2>2, <2>3
<1> QED BY <1>1, <1>3, <1>4, <1>8, <1>12, <1>13, <1>15, <1>16

\* Messages that were not produced before an aggregated one join the map.
LEMMA DistGrows ==
    ASSUME TypeInv, TypeInv', BackOrder, KeepsOrder, Earlier' = Earlier,
           UNCHANGED <<ch, workVars, toPush, toMongo>>,
           \A k \in Key : DistOrder(k)',
           \A k \in Key : \A n \in DOMAIN dist'[k] :
              \/ \E l \in DOMAIN dist[k] : dist'[k][n] = dist[k][l]
              \/ \A x \in Seen : <<dist'[k][n], x>> \notin Earlier
    PROVE  BackOrder'
<1>1. Issued' = Issued
  BY IssuedUnchanged
<1>2. pc' = pc /\ stage' = stage /\ batch' = batch /\ list' = list /\ cur' = cur /\ pos' = pos
  BY DEF workVars
<1>3. ASSUME NEW i \in Channel PROVE GoroutineOrder(i)'
  <2>1. ChanOrder(i) /\ BatchOrder(i) /\ ListOrder(i) /\ IssuedBatch(i)
    BY DEF BackOrder, GoroutineOrder
  <2>2. ChanOrder(i)'
    <3>1. \A j \in DOMAIN ch[i] : \A k \in Key : Follows(dist[k], ch[i][j])'
      BY <2>1 DEF ChanOrder, Follows
    <3>2. \A j \in DOMAIN ch[i] : /\ Sorted(ch[i][j])' /\ OneKey(ch[i][j])'
                                  /\ \A n \in DOMAIN ch[i][j] : ch[i][j][n] \in Seen'
      BY <2>1 DEF ChanOrder, Sorted, OneKey, KeepsOrder
    <3>3. \A j, l \in DOMAIN ch[i] : j < l => Follows(ch[i][l], ch[i][j])'
      BY <2>1 DEF ChanOrder, Follows
    <3> QED BY <3>1, <3>2, <3>3 DEF ChanOrder
  <2>3. BatchOrder(i)'
    <3>1. \A k \in Key : Follows(dist[k], batch[i])'
      BY <1>2, <2>1 DEF BatchOrder, Follows
    <3>2. \A j \in DOMAIN ch[i] : Follows(ch[i][j], batch[i])'
      BY <1>2, <2>1 DEF BatchOrder, Follows
    <3>3. Sorted(batch[i])' /\ OneKey(batch[i])' /\ \A n \in DOMAIN batch[i] : batch[i][n] \in Seen'
      BY <1>2, <2>1 DEF BatchOrder, Sorted, OneKey, KeepsOrder
    <3> QED BY <1>2, <3>1, <3>2, <3>3 DEF BatchOrder
  <2>4. ListOrder(i)'
    BY <1>2, <2>1 DEF ListOrder, Sorted
  <2>5. IssuedBatch(i)'
    BY <1>1, <1>2, <2>1 DEF IssuedBatch, BatchNotBefore, WorkConv, ConvOf
  <2> QED BY <2>2, <2>3, <2>4, <2>5 DEF GoroutineOrder
<1>4. IssuedOrder'
  BY <1>1 DEF BackOrder, IssuedOrder, KeepsOrder
<1>5. SeqOrder'
  BY <1>1 DEF BackOrder, SeqOrder
<1> QED BY <1>3, <1>4, <1>5 DEF BackOrder

LEMMA AggregateOrder ==
    ASSUME TypeInv, TypeInv', FrontOrder, BackOrder, Aggregate
    PROVE  FrontOrder' /\ BackOrder'
<1>0. PICK m, p, k : m = Head(slice) /\ p = Part(m) /\ k = KeyOf[m]
  OBVIOUS
<1>1. /\ FrontOrder' /\ UNCHANGED topic /\ \A q \in Partition : Aggregated(q)' >= Aggregated(q)
      /\ m \in Msg /\ Aggregated(p)' = Aggregated(p) + 1
      /\ Aggregated(p) + 1 \in DOMAIN topic[p] /\ topic[p][Aggregated(p) + 1] = m
  BY <1>0, AggregateFront
<1>2. /\ dist' = [dist EXCEPT ![k] = Append(dist[k], m)] /\ UNCHANGED <<ch, workVars, toPush, toMongo>>
  BY <1>0 DEF Aggregate, Behind, kafkaVars
<1>3. k \in Key /\ p \in Partition /\ dist \in [Key -> Seq(Msg)]
  BY <1>0, <1>1, PartType DEF TypeInv, TypeOK, DistOK
<1>4. KeepsOrder
  BY <1>1, OrderStable DEF KeepsOrder
<1>5. Earlier' = Earlier
  BY <1>1 DEF Earlier, Before
<1>6. \A x \in Seen : <<m, x>> \notin Earlier
  <2> SUFFICES ASSUME NEW x \in Seen PROVE <<m, x>> \notin Earlier
    OBVIOUS
  <2>1. x \in Msg
    BY DEF Seen
  <2>2. Aggregated(p) \in Nat /\ Aggregated(p) + 1 > Aggregated(p)
    BY <1>3, AggregatedBound
  <2> QED BY <1>0, <1>1, <2>1, <2>2, NotBeforeSeen
<1>7. m \in Seen'
  <2>1. PICK h : h = Aggregated(p)
    OBVIOUS
  <2>2. h \in Nat /\ h + 1 \in 1 .. h + 1
    BY <1>3, <2>1, AggregatedBound
  <2>3. h + 1 \in 1 .. Aggregated(p)' /\ topic'[p][h + 1] = m
    BY <1>1, <2>1, <2>2
  <2>4. m \in Msg /\ \E j \in 1 .. Aggregated(p)' : topic'[p][j] = m
    BY <1>1, <2>3
  <2>5. p = Part(m)'
    BY <1>0 DEF Part
  <2> QED BY <2>4, <2>5 DEF Seen
<1>8. dist'[k] = Append(dist[k], m) /\ \A q \in Key \ {k} : dist'[q] = dist[q]
  BY <1>2, <1>3
<1>9. /\ Len(dist'[k]) = Len(dist[k]) + 1 /\ Len(dist[k]) \in Nat
      /\ \A j \in 1 .. Len(dist[k]) : dist'[k][j] = dist[k][j]
      /\ dist'[k][Len(dist[k]) + 1] = m
      /\ DOMAIN dist'[k] = 1 .. Len(dist[k]) + 1
      /\ DOMAIN dist[k] = 1 .. Len(dist[k])
  BY <1>1, <1>3, <1>8, AppendFacts
<1>10. ASSUME NEW q \in Key PROVE DistOrder(q)'
  <2>1. DistOrder(q)
    BY DEF BackOrder
  <2>2. CASE q = k
    <3>1. \A n \in DOMAIN dist'[k] : dist'[k][n] \in Seen'
      BY <1>4, <1>7, <1>9, <2>1, <2>2 DEF DistOrder, KeepsOrder
    <3>2. \A a, b \in DOMAIN dist'[k] : a < b => <<dist'[k][b], dist'[k][a]>> \notin Earlier
      <4> SUFFICES ASSUME NEW a \in 1 .. Len(dist[k]) + 1, NEW b \in 1 .. Len(dist[k]) + 1, a < b
                   PROVE  <<dist'[k][b], dist'[k][a]>> \notin Earlier
        BY <1>9
      <4>1. a \in 1 .. Len(dist[k])
        BY <1>9
      <4>2. dist'[k][a] = dist[k][a] /\ dist[k][a] \in Seen
        BY <1>9, <2>1, <2>2, <4>1 DEF DistOrder
      <4>3. CASE b \in 1 .. Len(dist[k])
        BY <1>9, <2>1, <2>2, <4>1, <4>3 DEF DistOrder, Sorted
      <4>4. CASE b = Len(dist[k]) + 1
        BY <1>6, <1>9, <4>2, <4>4
      <4> QED BY <1>9, <4>3, <4>4
    <3> QED BY <1>5, <2>2, <3>1, <3>2 DEF DistOrder, Sorted
  <2>3. CASE q # k
    BY <1>4, <1>5, <1>8, <2>1, <2>3 DEF DistOrder, Sorted, KeepsOrder
  <2> QED BY <2>2, <2>3
<1>11. \A q \in Key : \A n \in DOMAIN dist'[q] :
          \/ \E l \in DOMAIN dist[q] : dist'[q][n] = dist[q][l]
          \/ \A x \in Seen : <<dist'[q][n], x>> \notin Earlier
  <2> SUFFICES ASSUME NEW q \in Key, NEW n \in DOMAIN dist'[q]
               PROVE  \/ \E l \in DOMAIN dist[q] : dist'[q][n] = dist[q][l]
                      \/ \A x \in Seen : <<dist'[q][n], x>> \notin Earlier
    OBVIOUS
  <2>1. CASE q # k
    BY <1>8, <2>1
  <2>2. CASE q = k /\ n \in 1 .. Len(dist[k])
    BY <1>9, <2>2
  <2>3. CASE q = k /\ n = Len(dist[k]) + 1
    BY <1>6, <1>9, <2>3
  <2> QED BY <1>9, <2>1, <2>2, <2>3
<1> QED BY <1>1, <1>2, <1>4, <1>5, <1>10, <1>11, DistGrows

\* A step behind the aggregation changes neither the topic nor what is seen.
SameOrder == Seen' = Seen /\ Earlier' = Earlier

LEMMA FrontSame ==
    ASSUME FrontOrder, UNCHANGED <<topic, next, messages, flush, slice>>
    PROVE  FrontOrder' /\ SameOrder
<1>1. \A p : Taken(p)' = Taken(p) /\ InSlice(p)' = InSlice(p) /\ Aggregated(p)' = Aggregated(p)
  BY DEF Taken, InSlice, Aggregated, Part
<1>2. FrontOrder'
  BY <1>1 DEF FrontOrder, TopicOrder, IntakeOrder, Part
<1>3. Seen' = Seen
  BY <1>1 DEF Seen, Part
<1>4. Earlier' = Earlier
  BY DEF Earlier, Before
<1> QED BY <1>2, <1>3, <1>4 DEF SameOrder

LEMMA DistributeOrder ==
    ASSUME TypeInv, BackOrder, SameOrder, NEW k \in Key, Distribute(k)
    PROVE  BackOrder'
<1>0. PICK c \in Channel : c = ChannelOf[k]
  BY ConstantsAssumption
<1>1. /\ dist[k] # <<>> /\ ch' = [ch EXCEPT ![c] = Append(ch[c], dist[k])]
      /\ dist' = [dist EXCEPT ![k] = <<>>] /\ UNCHANGED <<workVars, toPush, toMongo>>
  BY <1>0 DEF Distribute, kafkaVars
<1>2. ch \in [Channel -> Seq(Seq(Msg))] /\ dist \in [Key -> Seq(Msg)]
  BY DEF TypeInv, TypeOK, ChanOK, DistOK
<1>3. /\ dist'[k] = <<>> /\ \A q \in Key \ {k} : dist'[q] = dist[q]
      /\ ch'[c] = Append(ch[c], dist[k]) /\ \A i \in Channel \ {c} : ch'[i] = ch[i]
  BY <1>1, <1>2
<1>4. /\ Len(ch[c]) \in Nat /\ DOMAIN ch[c] = 1 .. Len(ch[c]) /\ DOMAIN ch'[c] = 1 .. Len(ch[c]) + 1
      /\ \A j \in 1 .. Len(ch[c]) : ch'[c][j] = ch[c][j]
      /\ ch'[c][Len(ch[c]) + 1] = dist[k]
  BY <1>2, <1>3, AppendFacts
<1>5. PICK l : l = Len(ch[c]) + 1
  OBVIOUS
<1>6. /\ l \in Nat /\ \A j \in DOMAIN ch'[c] : j = l \/ (j \in DOMAIN ch[c] /\ j < l)
      /\ ch'[c][l] = dist[k] /\ \A j \in DOMAIN ch[c] : ch'[c][j] = ch[c][j]
  BY <1>4, <1>5
<1>7. \A q \in Key : \A n \in DOMAIN dist'[q] : q # k /\ n \in DOMAIN dist[q] /\ dist'[q][n] = dist[q][n]
  BY <1>3
<1>8. \A q \in Key : \A n \in DOMAIN dist[q] : KeyOf[dist[q][n]] = q
  <2>1. \A q \in Key : DOMAIN dist[q] = 1 .. Len(dist[q])
    BY <1>2
  <2> QED BY <2>1 DEF TypeInv, Routing, DistRouting
<1>9. pc' = pc /\ stage' = stage /\ batch' = batch /\ list' = list /\ cur' = cur /\ pos' = pos
  BY <1>1 DEF workVars
<1>10. Issued' = Issued
  BY <1>1, IssuedUnchanged
<1>11. /\ Sorted(dist[k]) /\ OneKey(dist[k]) /\ \A n \in DOMAIN dist[k] : dist[k][n] \in Seen
  <2>1. 1 \in DOMAIN dist[k]
    BY <1>1, <1>2
  <2> QED BY <1>8, <2>1 DEF BackOrder, DistOrder, OneKey
<1>12. \A q \in Key : Follows(dist'[q], dist[k])
  BY <1>7, <1>8 DEF Follows, Earlier
<1>13. \A s : \A q \in Key : Follows(dist[q], s) => Follows(dist'[q], s)
  BY <1>7 DEF Follows
<1>14. ASSUME NEW i \in Channel PROVE GoroutineOrder(i)'
  <2>1. ChanOrder(i) /\ BatchOrder(i) /\ ListOrder(i) /\ IssuedBatch(i)
    BY DEF BackOrder, GoroutineOrder
  <2>2. \A s, t : (Follows(t, s)' <=> Follows(t, s)) /\ (Sorted(s)' <=> Sorted(s)) /\ (OneKey(s)' <=> OneKey(s))
    BY DEF SameOrder, Follows, Sorted, OneKey
  <2>3. /\ \A j \in DOMAIN ch'[i] :
              /\ Sorted(ch'[i][j]) /\ OneKey(ch'[i][j]) /\ \A n \in DOMAIN ch'[i][j] : ch'[i][j][n] \in Seen
              /\ \A q \in Key : Follows(dist'[q], ch'[i][j])
              /\ Follows(ch'[i][j], batch[i])
        /\ \A j, h \in DOMAIN ch'[i] : j < h => Follows(ch'[i][h], ch'[i][j])
    <3>1. CASE i # c
      BY <1>3, <1>13, <2>1, <3>1 DEF ChanOrder, BatchOrder
    <3>2. CASE i = c
      <4>1. ASSUME NEW j \in DOMAIN ch'[c]
            PROVE  /\ Sorted(ch'[c][j]) /\ OneKey(ch'[c][j]) /\ \A n \in DOMAIN ch'[c][j] : ch'[c][j][n] \in Seen
                   /\ \A q \in Key : Follows(dist'[q], ch'[c][j])
                   /\ Follows(ch'[c][j], batch[c])
        <5>1. CASE j = l
          BY <1>6, <1>11, <1>12, <2>1, <3>2, <5>1 DEF BatchOrder
        <5>2. CASE j \in DOMAIN ch[c]
          BY <1>6, <1>13, <2>1, <3>2, <5>2 DEF ChanOrder, BatchOrder
        <5> QED BY <1>6, <5>1, <5>2
      <4>2. ASSUME NEW j \in DOMAIN ch'[c], NEW h \in DOMAIN ch'[c], j < h PROVE Follows(ch'[c][h], ch'[c][j])
        <5>1. j \in DOMAIN ch[c] /\ ch'[c][j] = ch[c][j]
          BY <1>4, <4>2
        <5>2. CASE h = l
          BY <1>6, <2>1, <3>2, <5>1, <5>2 DEF ChanOrder
        <5>3. CASE h \in DOMAIN ch[c]
          BY <1>6, <2>1, <3>2, <4>2, <5>1, <5>3 DEF ChanOrder
        <5> QED BY <1>6, <5>2, <5>3
      <4> QED BY <3>2, <4>1, <4>2
    <3> QED BY <3>1, <3>2
  <2>4. ChanOrder(i)'
    BY <2>2, <2>3 DEF ChanOrder, SameOrder
  <2>5. BatchOrder(i)'
    <3>1. \A q \in Key : Follows(dist'[q], batch[i])
      BY <1>13, <2>1 DEF BatchOrder
    <3> QED BY <1>9, <2>1, <2>2, <2>3, <3>1 DEF BatchOrder, SameOrder
  <2>6. ListOrder(i)'
    BY <1>9, <2>1, <2>2 DEF ListOrder
  <2>7. IssuedBatch(i)'
    BY <1>9, <1>10, <2>1 DEF IssuedBatch, BatchNotBefore, WorkConv, ConvOf, SameOrder
  <2> QED BY <2>4, <2>5, <2>6, <2>7 DEF GoroutineOrder
<1>15. \A q \in Key : DistOrder(q)'
  BY <1>7 DEF BackOrder, DistOrder, Sorted, SameOrder
<1>16. IssuedOrder'
  <2> SUFFICES ASSUME NEW e \in Issued
               PROVE  /\ \A q \in Key : \A n \in DOMAIN dist'[q] : <<dist'[q][n], e.msg>> \notin Earlier
                      /\ \A i \in Channel : \A j \in DOMAIN ch'[i] : \A n \in DOMAIN ch'[i][j] :
                            <<ch'[i][j][n], e.msg>> \notin Earlier
    BY <1>10 DEF BackOrder, IssuedOrder, SameOrder
  <2>1. /\ \A q \in Key : \A n \in DOMAIN dist[q] : <<dist[q][n], e.msg>> \notin Earlier
        /\ \A i \in Channel : \A j \in DOMAIN ch[i] : \A n \in DOMAIN ch[i][j] :
              <<ch[i][j][n], e.msg>> \notin Earlier
    BY DEF BackOrder, IssuedOrder
  <2>2. ASSUME NEW i \in Channel, NEW j \in DOMAIN ch'[i], NEW n \in DOMAIN ch'[i][j]
        PROVE  <<ch'[i][j][n], e.msg>> \notin Earlier
    <3>1. CASE i # c
      BY <1>3, <2>1, <3>1
    <3>2. CASE i = c /\ j = l
      BY <1>6, <2>1, <3>2
    <3>3. CASE i = c /\ j \in DOMAIN ch[c]
      BY <1>6, <2>1, <3>3
    <3> QED BY <1>6, <3>1, <3>2, <3>3
  <2> QED BY <1>7, <2>1, <2>2
<1>17. SeqOrder'
  BY <1>10 DEF BackOrder, SeqOrder, SameOrder
<1> QED BY <1>14, <1>15, <1>16, <1>17 DEF BackOrder

\* The conversations a goroutine works on or will work on belong to its key.
LEMMA BatchKey ==
    ASSUME TypeInv, NEW i \in Channel, pc[i] # "idle"
    PROVE  /\ batch[i] \in Seq(Msg) /\ 1 \in DOMAIN batch[i] /\ batch[i][1] \in Msg
           /\ ChannelOf[KeyOf[batch[i][1]]] = i
           /\ ConvKey[WorkConv(i)] = KeyOf[batch[i][1]]
           /\ ConvKey[NotifConv[batch[i][1]]] = KeyOf[batch[i][1]]
<1>1. batch[i] \in Seq(Msg) /\ batch[i] # <<>> /\ ChannelOf[KeyOf[batch[i][1]]] = i
  BY DEF TypeInv, TypeOK, WorkOK, Routing, BatchRouting
<1>2. 1 \in DOMAIN batch[i] /\ batch[i][1] \in Msg
  BY <1>1
<1> QED BY <1>1, <1>2, ConvKeyAssumption DEF WorkConv, ConvOf

\* A goroutine that does not take part in a step, when nothing new is issued
\* under its conversations.
LEMMA OtherGoroutine ==
    ASSUME NEW j \in Channel, GoroutineOrder(j), SameWork(j), SameOrder, ch'[j] = ch[j], UNCHANGED dist,
           pc[j] # "idle" => \A e \in Issued' : e \in Issued \/ ~(e.conv \in {WorkConv(j), NotifConv[batch[j][1]]})
    PROVE  GoroutineOrder(j)'
<1>1. ChanOrder(j)'
  BY DEF GoroutineOrder, ChanOrder, SameOrder, Follows, Sorted, OneKey
<1>2. BatchOrder(j)'
  BY DEF GoroutineOrder, BatchOrder, SameOrder, SameWork, Follows, Sorted, OneKey
<1>3. ListOrder(j)'
  BY DEF GoroutineOrder, ListOrder, SameOrder, SameWork, Sorted
<1>4. WorkConv(j)' = WorkConv(j)
  BY DEF SameWork, WorkConv, ConvOf
<1>5. "idle" \notin {"classify"} \cup Numbers
  BY DEF Numbers, Fresh, Reserved
<1>6. \A e : BatchNotBefore(j, e)' <=> BatchNotBefore(j, e)
  BY DEF BatchNotBefore, SameOrder, SameWork
<1>7. IssuedBatch(j)'
  BY <1>4, <1>5, <1>6 DEF GoroutineOrder, IssuedBatch, SameWork
<1> QED BY <1>1, <1>2, <1>3, <1>7 DEF GoroutineOrder

\* A step of goroutine i on its batch that issues nothing.
LEMMA QuietOrder ==
    ASSUME TypeInv, BackOrder, SameOrder, NEW i \in Channel, UNCHANGED <<dist, ch>>, Issued' = Issued,
           \A j \in Channel \ {i} : SameWork(j),
           batch'[i] = batch[i], ListOrder(i)', IssuedBatch(i)'
    PROVE  BackOrder'
<1>1. ASSUME NEW j \in Channel PROVE GoroutineOrder(j)'
  <2>1. GoroutineOrder(j)
    BY DEF BackOrder
  <2>2. CASE j # i
    BY <2>1, <2>2, OtherGoroutine
  <2>3. CASE j = i
    <3>0. ChanOrder(i) /\ BatchOrder(i)
      BY <2>1, <2>3 DEF GoroutineOrder
    <3>1. ChanOrder(i)'
      <4>1. \A s, t : /\ (Follows(t, s)' <=> Follows(t, s)) /\ (Sorted(s)' <=> Sorted(s))
                      /\ (OneKey(s)' <=> OneKey(s))
        BY DEF SameOrder, Follows, Sorted, OneKey
      <4>2. Seen' = Seen
        BY DEF SameOrder
      <4> QED BY <3>0, <4>1, <4>2 DEF ChanOrder
    <3>2. BatchOrder(i)'
      BY <3>0 DEF BatchOrder, SameOrder, Follows, Sorted, OneKey
    <3> QED BY <2>3, <3>1, <3>2 DEF GoroutineOrder
  <2> QED BY <2>2, <2>3
<1>2. \A k \in Key : DistOrder(k)'
  BY DEF BackOrder, DistOrder, SameOrder, Sorted
<1>3. IssuedOrder'
  BY DEF BackOrder, IssuedOrder, SameOrder
<1>4. SeqOrder'
  BY DEF BackOrder, SeqOrder, SameOrder
<1> QED BY <1>1, <1>2, <1>3, <1>4 DEF BackOrder

LEMMA ReceiveOrder ==
    ASSUME TypeInv, BackOrder, SameOrder, NEW i \in Channel, Receive(i)
    PROVE  BackOrder'
<1>1. /\ pc[i] = "idle" /\ ch[i] # <<>> /\ ch' = [ch EXCEPT ![i] = Tail(ch[i])]
      /\ batch' = [batch EXCEPT ![i] = Head(ch[i])] /\ stage' = [stage EXCEPT ![i] = "msg"]
      /\ pos' = [pos EXCEPT ![i] = 0] /\ pc' = [pc EXCEPT ![i] = "classify"]
      /\ UNCHANGED <<dist, list, cur, toPush, toMongo>>
  BY DEF Receive, Goto, kafkaVars, distVars
<1>2. WorkOK /\ ch \in [Channel -> Seq(Seq(Msg))]
  BY DEF TypeInv, TypeOK, ChanOK
<1>3. /\ \A j \in Channel \ {i} : SameWork(j) /\ ch'[j] = ch[j]
      /\ batch'[i] = Head(ch[i]) /\ stage'[i] = "msg" /\ pos'[i] = 0 /\ pc'[i] = "classify"
      /\ ch'[i] = Tail(ch[i]) /\ list'[i] = list[i]
  BY <1>1, <1>2 DEF WorkOK, SameWork
<1>4. /\ Head(ch[i]) = ch[i][1] /\ 1 \in DOMAIN ch[i] /\ DOMAIN ch[i] = 1 .. Len(ch[i])
      /\ Len(ch[i]) \in Nat \ {0} /\ DOMAIN Tail(ch[i]) = 1 .. Len(ch[i]) - 1
      /\ \A j \in 1 .. Len(ch[i]) - 1 : j + 1 \in DOMAIN ch[i] /\ Tail(ch[i])[j] = ch[i][j + 1] /\ 1 < j + 1
  BY <1>1, <1>2, TailFacts
<1>5. GoroutineOrder(i) /\ Issued' = Issued
  BY <1>1, IssuedUnchanged DEF BackOrder
<1>6. ChanOrder(i) /\ ListOrder(i)
  BY <1>5 DEF GoroutineOrder
<1>7. \A s, t : (Follows(t, s)' <=> Follows(t, s)) /\ (Sorted(s)' <=> Sorted(s)) /\ (OneKey(s)' <=> OneKey(s))
  BY DEF SameOrder, Follows, Sorted, OneKey
<1>8. ChanOrder(i)'
  <2>1. \A j \in DOMAIN ch'[i] : \E h \in DOMAIN ch[i] : h = j + 1 /\ ch'[i][j] = ch[i][h]
    BY <1>3, <1>4
  <2>2. \A j \in DOMAIN ch'[i] :
           /\ Sorted(ch'[i][j]) /\ OneKey(ch'[i][j]) /\ \A n \in DOMAIN ch'[i][j] : ch'[i][j][n] \in Seen
           /\ \A k \in Key : Follows(dist[k], ch'[i][j])
    BY <1>6, <2>1 DEF ChanOrder
  <2>3. \A j, l \in DOMAIN ch'[i] : j < l => Follows(ch'[i][l], ch'[i][j])
    <3> SUFFICES ASSUME NEW j \in DOMAIN ch'[i], NEW l \in DOMAIN ch'[i], j < l
                 PROVE  Follows(ch'[i][l], ch'[i][j])
      OBVIOUS
    <3>1. j \in Int /\ l \in Int /\ j + 1 < l + 1
      BY <1>3, <1>4
    <3> QED BY <1>6, <2>1, <3>1 DEF ChanOrder
  <2> QED BY <1>1, <1>7, <2>2, <2>3 DEF ChanOrder, SameOrder
<1>9. BatchOrder(i)'
  <2>1. /\ Sorted(batch'[i]) /\ OneKey(batch'[i]) /\ \A n \in DOMAIN batch'[i] : batch'[i][n] \in Seen
        /\ \A k \in Key : Follows(dist[k], batch'[i])
    BY <1>3, <1>4, <1>6 DEF ChanOrder
  <2>2. \A j \in DOMAIN ch'[i] : Follows(ch'[i][j], batch'[i])
    BY <1>3, <1>4, <1>6 DEF ChanOrder
  <2> QED BY <1>1, <1>7, <2>1, <2>2 DEF BatchOrder, SameOrder
<1>10. ListOrder(i)'
  BY <1>1, <1>3, <1>6 DEF ListOrder, Sorted
<1>11. IssuedBatch(i)'
  <2>0. 1 \in DOMAIN ch[i] /\ batch'[i] = ch[i][1]
    BY <1>3, <1>4
  <2>1. \A e \in Issued : \A n \in DOMAIN batch'[i] : <<batch'[i][n], e.msg>> \notin Earlier
    BY <2>0 DEF BackOrder, IssuedOrder
  <2>2. \A e \in Issued' : BatchNotBefore(i, e)'
    BY <1>5, <2>1 DEF BatchNotBefore, SameOrder
  <2> QED BY <2>2 DEF IssuedBatch
<1>12. ASSUME NEW j \in Channel PROVE GoroutineOrder(j)'
  <2>1. CASE j = i
    BY <1>8, <1>9, <1>10, <1>11, <2>1 DEF GoroutineOrder
  <2>2. CASE j # i
    BY <1>1, <1>3, <1>5, <2>2, OtherGoroutine DEF BackOrder
  <2> QED BY <2>1, <2>2
<1>13. \A k \in Key : DistOrder(k)'
  BY <1>1 DEF BackOrder, DistOrder, SameOrder, Sorted
<1>14. IssuedOrder'
  <2> SUFFICES ASSUME NEW e \in Issued, NEW c \in Channel, NEW j \in DOMAIN ch'[c], NEW n \in DOMAIN ch'[c][j]
               PROVE  <<ch'[c][j][n], e.msg>> \notin Earlier
    BY <1>1, <1>5 DEF BackOrder, IssuedOrder, SameOrder
  <2>1. \E h \in DOMAIN ch[c] : ch'[c][j] = ch[c][h]
    <3>1. CASE c = i
      <4>1. j \in DOMAIN Tail(ch[i]) /\ ch'[c][j] = Tail(ch[i])[j]
        BY <1>3, <3>1
      <4> QED BY <1>4, <3>1, <4>1
    <3>2. CASE c # i
      BY <1>3, <3>2
    <3> QED BY <3>1, <3>2
  <2> QED BY <2>1 DEF BackOrder, IssuedOrder
<1>15. SeqOrder'
  BY <1>5 DEF BackOrder, SeqOrder, SameOrder
<1> QED BY <1>12, <1>13, <1>14, <1>15 DEF BackOrder

\* The notification conversation takes over when a handler returns.
LEMMA LeaveOrder ==
    ASSUME TypeInv, BackOrder, SameOrder, NEW i \in Channel, pc[i] # "idle", Leave(i),
           UNCHANGED <<dist, ch, toPush, toMongo>>
    PROVE  BackOrder'
<1>1. WorkOK
  BY DEF TypeInv, TypeOK
<1>2. \A j \in Channel \ {i} : SameWork(j)
  BY <1>1 DEF Leave, Goto, WorkOK, SameWork
<1>3. /\ batch' = batch /\ list'[i] = <<>>
      /\ stage'[i] = "notif" /\ pc'[i] \in {"classify", "modify"}
      /\ pc'[i] = "classify" => stage[i] = "msg"
  BY <1>1 DEF Leave, Goto, WorkOK
<1>4. ListOrder(i)'
  BY <1>3 DEF ListOrder, Sorted
<1>5. Issued' = Issued
  BY IssuedUnchanged
<1>6. IssuedBatch(i)
  BY DEF BackOrder, GoroutineOrder
<1>7. \A e : BatchNotBefore(i, e)' <=> BatchNotBefore(i, e)
  BY <1>3 DEF BatchNotBefore, SameOrder
<1>8. WorkConv(i)' = NotifConv[batch[i][1]]
  BY <1>3 DEF WorkConv, ConvOf
<1>9. IssuedBatch(i)'
  <2>1. CASE pc'[i] = "classify"
    <3>1. \A e \in Issued : e.conv = NotifConv[batch[i][1]] => BatchNotBefore(i, e)
      BY <1>3, <1>6, <2>1 DEF IssuedBatch
    <3> QED BY <1>3, <1>5, <1>7, <1>8, <3>1 DEF IssuedBatch
  <2>2. CASE pc'[i] = "modify"
    <3>1. pc'[i] \notin {"classify"} \cup Numbers
      BY <2>2 DEF Numbers, Fresh, Reserved
    <3> QED BY <1>3, <3>1 DEF IssuedBatch
  <2> QED BY <1>3, <2>1, <2>2
<1> QED BY <1>2, <1>3, <1>4, <1>5, <1>9, QuietOrder

\* A step that only moves the goroutine on within the numbering of its list.
LEMMA MoveOrder ==
    ASSUME TypeInv, BackOrder, SameOrder, NEW i \in Channel, NEW l,
           pc[i] \in {"classify"} \cup Numbers, l \in Numbers \/ l = "setHasReadFailed",
           pc[i] \in Reserved => l \in Reserved /\ cur'[i] = cur[i],
           pc' = [pc EXCEPT ![i] = l],
           \A j \in Channel \ {i} : SameWork(j), UNCHANGED <<stage, batch, list, dist, ch>>, Issued' = Issued
    PROVE  BackOrder'
<1>1. pc'[i] = l /\ l \notin {"idle", "modify", "classify"} /\ pc[i] # "idle"
  BY DEF TypeInv, TypeOK, WorkOK, Numbers, Fresh, Reserved
<1>2. ListOrder(i) /\ IssuedBatch(i)
  BY DEF BackOrder, GoroutineOrder
<1>3. ListOrder(i)'
  BY <1>1, <1>2 DEF ListOrder, Sorted, SameOrder
<1>4. \A e : BatchNotBefore(i, e)' <=> BatchNotBefore(i, e)
  BY DEF BatchNotBefore, SameOrder
<1>5. WorkConv(i)' = WorkConv(i)
  BY DEF WorkConv, ConvOf
<1>6. \A e \in Issued : e.conv = WorkConv(i) /\ (pc[i] \in Reserved => e.seq <= cur[i]) => BatchNotBefore(i, e)
  BY <1>2 DEF IssuedBatch
<1>7. \A e \in Issued : e.conv = WorkConv(i) /\ (l \in Reserved => e.seq <= cur'[i]) => BatchNotBefore(i, e)
  BY <1>6
<1>8. IssuedBatch(i)'
  BY <1>1, <1>2, <1>4, <1>5, <1>7 DEF IssuedBatch
<1> QED BY <1>3, <1>8, QuietOrder

LEMMA ClassifyOrder ==
    ASSUME NumberingInv, BackOrder, SameOrder, NEW i \in Channel, Classify(i)
    PROVE  BackOrder'
<1>1. /\ UNCHANGED <<pc, stage, batch, cur, toMongo, dist, ch>>
      /\ list' = list \/ list' = [list EXCEPT ![i] = Append(list[i], batch[i][pos[i] + 1])]
      /\ pos' = [pos EXCEPT ![i] = pos[i] + 1]
      /\ pc[i] = "classify" /\ pos[i] < Len(batch[i])
  BY DEF Classify, distVars
<1>2. TypeInv /\ WorkOK
  BY DEF NumberingInv, TypeInv, TypeOK
<1>3. /\ pos'[i] = pos[i] + 1 /\ \A j \in Channel \ {i} : SameWork(j)
      /\ list'[i] = list[i] \/ list'[i] = Append(list[i], batch[i][pos[i] + 1])
  BY <1>1, <1>2 DEF WorkOK, SameWork
<1>4. Issued' = Issued
  BY <1>1, QuietPush DEF Issued, QueuedEntries
<1>5. BatchOrder(i) /\ ListOrder(i) /\ IssuedBatch(i)
  BY DEF BackOrder, GoroutineOrder
<1>6. /\ batch[i] \in Seq(Msg) /\ list[i] \in Seq(Msg) /\ pos[i] \in Nat
      /\ DOMAIN batch[i] = 1 .. Len(batch[i]) /\ Len(batch[i]) \in Nat
  BY <1>2 DEF WorkOK
<1>7. PICK q, m : q = pos[i] + 1 /\ m = batch[i][q]
  OBVIOUS
<1>8. q \in DOMAIN batch[i] /\ m \in Msg /\ q \in Nat /\ pos[i] < q
  BY <1>1, <1>6, <1>7
<1>9. \A a \in DOMAIN list[i] : \E b \in DOMAIN batch[i] : list[i][a] = batch[i][b] /\ b <= pos[i]
  BY <1>1, <1>5 DEF ListOrder
<1>10. ListOrder(i)'
  <2>1. CASE list'[i] = list[i]
    <3>1. \A a \in DOMAIN list[i] : \E b \in DOMAIN batch[i] : list[i][a] = batch[i][b] /\ b <= pos[i] + 1
      BY <1>6, <1>9
    <3> QED BY <1>1, <1>3, <1>5, <2>1, <3>1 DEF ListOrder, Sorted, SameOrder
  <2>2. CASE list'[i] = Append(list[i], m)
    <3>1. PICK l : l = Len(list[i]) + 1
      OBVIOUS
    <3>2. /\ Len(list[i]) \in Nat /\ DOMAIN list[i] = 1 .. Len(list[i]) /\ DOMAIN list'[i] = 1 .. Len(list[i]) + 1
          /\ \A a \in 1 .. Len(list[i]) : list'[i][a] = list[i][a]
          /\ list'[i][Len(list[i]) + 1] = m
      BY <1>6, <1>8, <2>2, AppendFacts
    <3>3. /\ l \in Nat /\ \A a \in DOMAIN list'[i] : a = l \/ (a \in DOMAIN list[i] /\ a < l)
          /\ list'[i][l] = m /\ \A a \in DOMAIN list[i] : list'[i][a] = list[i][a]
      BY <3>1, <3>2
    <3>4. \A a \in DOMAIN list'[i] : \E b \in DOMAIN batch[i] : list'[i][a] = batch[i][b] /\ b <= pos[i] + 1
      BY <1>6, <1>7, <1>8, <1>9, <3>3
    <3>5. \A a \in DOMAIN list[i] : <<m, list[i][a]>> \notin Earlier
      <4> SUFFICES ASSUME NEW a \in DOMAIN list[i] PROVE <<m, list[i][a]>> \notin Earlier
        OBVIOUS
      <4>1. PICK b \in DOMAIN batch[i] : list[i][a] = batch[i][b] /\ b <= pos[i]
        BY <1>9
      <4>2. b < q
        BY <1>6, <1>7, <4>1
      <4> QED BY <1>5, <1>7, <1>8, <4>1, <4>2 DEF BatchOrder, Sorted
    <3>6. Sorted(list'[i])
      <4> SUFFICES ASSUME NEW a \in DOMAIN list'[i], NEW b \in DOMAIN list'[i], a < b
                   PROVE  <<list'[i][b], list'[i][a]>> \notin Earlier
        BY DEF Sorted
      <4>1. a \in DOMAIN list[i]
        BY <3>2
      <4>2. CASE b = l
        BY <3>3, <3>5, <4>1, <4>2
      <4>3. CASE b \in DOMAIN list[i]
        BY <1>5, <3>3, <4>1, <4>3 DEF ListOrder, Sorted
      <4> QED BY <3>3, <4>2, <4>3
    <3>7. Sorted(list[i])'
      BY <3>6 DEF Sorted, SameOrder
    <3> QED BY <1>1, <1>3, <3>4, <3>7 DEF ListOrder
  <2> QED BY <1>3, <1>7, <2>1, <2>2
<1>11. IssuedBatch(i)'
  BY <1>1, <1>4, <1>5 DEF IssuedBatch, BatchNotBefore, WorkConv, ConvOf, SameOrder
<1> QED BY <1>1, <1>2, <1>3, <1>4, <1>10, <1>11, QuietOrder

LEMMA BatchDoneOrder ==
    ASSUME TypeInv, BackOrder, SameOrder, NEW i \in Channel, BatchDone(i)
    PROVE  BackOrder'
<1>1. /\ pc[i] = "modify" /\ pc' = [pc EXCEPT ![i] = "idle"] /\ batch' = [batch EXCEPT ![i] = <<>>]
      /\ UNCHANGED <<dist, ch, stage, list, cur, pos, toPush, toMongo>>
  BY DEF BatchDone, Goto, kafkaVars, distVars
<1>2. pc'[i] = "idle" /\ batch'[i] = <<>> /\ \A j \in Channel \ {i} : SameWork(j)
  BY <1>1 DEF TypeInv, TypeOK, WorkOK, SameWork
<1>3. Issued' = Issued
  BY <1>1, IssuedUnchanged
<1>4. ASSUME NEW j \in Channel PROVE GoroutineOrder(j)'
  <2>1. GoroutineOrder(j)
    BY DEF BackOrder
  <2>2. CASE j # i
    BY <1>1, <1>2, <1>3, <2>1, <2>2, OtherGoroutine
  <2>3. CASE j = i
    <3>0. ChanOrder(i) /\ ListOrder(i) /\ list[i] = <<>>
      BY <1>1, <2>1, <2>3 DEF GoroutineOrder, ListOrder
    <3>1. ChanOrder(i)'
      <4>1. \A s, t : /\ (Follows(t, s)' <=> Follows(t, s)) /\ (Sorted(s)' <=> Sorted(s))
                      /\ (OneKey(s)' <=> OneKey(s))
        BY DEF SameOrder, Follows, Sorted, OneKey
      <4>2. Seen' = Seen
        BY DEF SameOrder
      <4> QED BY <1>1, <3>0, <4>1, <4>2 DEF ChanOrder
    <3>2. BatchOrder(i)'
      BY <1>2 DEF BatchOrder, Sorted, OneKey, Follows
    <3>3. ListOrder(i)'
      BY <1>1, <1>2, <3>0 DEF ListOrder, Sorted
    <3>4. IssuedBatch(i)'
      BY <1>2 DEF IssuedBatch, BatchNotBefore
    <3> QED BY <2>3, <3>1, <3>2, <3>3, <3>4 DEF GoroutineOrder
  <2> QED BY <2>2, <2>3
<1>5. \A k \in Key : DistOrder(k)'
  BY <1>1 DEF BackOrder, DistOrder, SameOrder, Sorted
<1>6. IssuedOrder'
  BY <1>1, <1>3 DEF BackOrder, IssuedOrder, SameOrder
<1>7. SeqOrder'
  BY <1>3 DEF BackOrder, SeqOrder, SameOrder
<1> QED BY <1>4, <1>5, <1>6, <1>7 DEF BackOrder

\* Messages of the list leave under the seqs reserved for them.
LEMMA IssueOrder ==
    ASSUME NumberingInv, FrontOrder, BackOrder, SameOrder, NEW i \in Channel, pc[i] \in Reserved,
           pc'[i] \in Reserved, UNCHANGED <<stage, batch, list, cur, maxSeq, dist, ch>>,
           \A j \in Channel \ {i} : SameWork(j),
           \A e \in Issued' : e \in Issued \/ Listed(i, e),
           \A e \in PushedEntries' : e \in PushedEntries \/ Listed(i, e)
    PROVE  BackOrder'
<1>1. TypeInv /\ pc[i] # "idle" /\ pc[i] \in Numbers
  BY DEF NumberingInv, Reserved, Numbers
<1>2. /\ BatchOrder(i) /\ ListOrder(i) /\ IssuedBatch(i)
  BY DEF BackOrder, GoroutineOrder
<1>3. /\ list[i] \in Seq(Msg) /\ DOMAIN list[i] = 1 .. Len(list[i]) /\ Len(list[i]) \in Nat /\ cur[i] \in Nat
  BY <1>1 DEF TypeInv, TypeOK, WorkOK
<1>4. /\ WithinMaxSeq'
      /\ \A e \in Issued' : e.conv = WorkConv(i) /\ e.seq > cur[i] => e.msg = list[i][e.seq - cur[i]]
  BY IssueListed
<1>5. /\ 1 \in DOMAIN batch[i] /\ batch[i][1] \in Msg /\ ChannelOf[KeyOf[batch[i][1]]] = i
      /\ ConvKey[WorkConv(i)] = KeyOf[batch[i][1]]
  BY <1>1, BatchKey
<1>6. \A e : Listed(i, e) => /\ e.conv = WorkConv(i) /\ e.seq > cur[i] /\ e.seq \in Nat
                             /\ \E a \in DOMAIN list[i] : e.msg = list[i][a]
  <2> SUFFICES ASSUME NEW e, Listed(i, e)
               PROVE  /\ e.conv = WorkConv(i) /\ e.seq > cur[i] /\ e.seq \in Nat
                      /\ \E a \in DOMAIN list[i] : e.msg = list[i][a]
    OBVIOUS
  <2>1. PICK n \in 1 .. Len(list[i]) : e.conv = WorkConv(i) /\ e.seq = cur[i] + n /\ e.msg = list[i][n]
    BY DEF Listed
  <2>2. e.seq > cur[i] /\ e.seq \in Nat
    BY <1>3, <2>1
  <2> QED BY <1>3, <2>1, <2>2
<1>7. \A a \in DOMAIN list[i] : \E b \in DOMAIN batch[i] : list[i][a] = batch[i][b]
  BY <1>2 DEF ListOrder
<1>8. \A e : BatchNotBefore(i, e)' <=> BatchNotBefore(i, e)
  BY DEF BatchNotBefore, SameOrder
<1>9. WorkConv(i)' = WorkConv(i)
  BY DEF WorkConv, ConvOf
<1>10. \A e \in Issued : e.conv = WorkConv(i) /\ e.seq <= cur[i] => BatchNotBefore(i, e)
  BY <1>1, <1>2 DEF IssuedBatch
<1>11. \A e \in Issued' : e.seq \in Nat
  <2>1. \A e \in Issued' : e.conv \in Conv /\ e.seq \in 1 .. maxSeq[e.conv]
    BY <1>4 DEF WithinMaxSeq
  <2>2. maxSeq \in [Conv -> Nat]
    BY <1>1 DEF TypeInv, TypeOK, RedisOK
  <2> QED BY <2>1, <2>2
<1>12. IssuedBatch(i)'
  <2>1. \A e \in Issued' : e.conv = WorkConv(i) /\ e.seq <= cur[i] => BatchNotBefore(i, e)
    <3> SUFFICES ASSUME NEW e \in Issued', e.conv = WorkConv(i), e.seq <= cur[i] PROVE BatchNotBefore(i, e)
      OBVIOUS
    <3>1. ~(e.seq > cur[i])
      BY <1>3, <1>11
    <3> QED BY <1>6, <1>10, <3>1
  <2>2. stage[i] = "msg" => \A e \in Issued' : e.conv = NotifConv[batch[i][1]] => BatchNotBefore(i, e)
    <3> SUFFICES ASSUME stage[i] = "msg", NEW e \in Issued', e.conv = NotifConv[batch[i][1]]
                 PROVE  BatchNotBefore(i, e)
      OBVIOUS
    <3>1. WorkConv(i) = ChatConv[batch[i][1]]
      BY DEF WorkConv, ConvOf
    <3>2. e.conv # WorkConv(i)
      BY <1>5, <3>1, ConvKindAssumption
    <3>3. e \in Issued
      BY <1>6, <3>2
    <3> QED BY <1>1, <1>2, <3>3 DEF IssuedBatch
  <2>3. \A e \in Issued' : e.conv = WorkConv(i)' /\ (pc'[i] \in Reserved => e.seq <= cur'[i]) => BatchNotBefore(i, e)'
    BY <1>8, <1>9, <2>1
  <2>4. stage'[i] = "msg" => \A e \in Issued' : e.conv = NotifConv[batch'[i][1]] => BatchNotBefore(i, e)'
    BY <1>8, <2>2
  <2> QED BY <2>3, <2>4 DEF IssuedBatch
<1>13. ASSUME NEW j \in Channel PROVE GoroutineOrder(j)'
  <2>1. GoroutineOrder(j)
    BY DEF BackOrder
  <2>2. CASE j # i
    <3>1. pc[j] # "idle" => WorkConv(i) \notin {WorkConv(j), NotifConv[batch[j][1]]}
      BY <1>1, <1>5, <2>2, BatchKey
    <3>2. pc[j] # "idle" => \A e \in Issued' : e \in Issued \/ ~(e.conv \in {WorkConv(j), NotifConv[batch[j][1]]})
      BY <1>6, <3>1
    <3> QED BY <2>1, <2>2, <3>2, OtherGoroutine
  <2>3. CASE j = i
    <3>0. ChanOrder(i)
      BY <2>1, <2>3 DEF GoroutineOrder
    <3>1. \A s, t : /\ (Follows(t, s)' <=> Follows(t, s)) /\ (Sorted(s)' <=> Sorted(s))
                    /\ (OneKey(s)' <=> OneKey(s))
      BY DEF SameOrder, Follows, Sorted, OneKey
    <3>2. Seen' = Seen
      BY DEF SameOrder
    <3>3. ChanOrder(i)'
      BY <3>0, <3>1, <3>2 DEF ChanOrder
    <3>4. BatchOrder(i)'
      BY <1>2, <3>1, <3>2 DEF BatchOrder
    <3>5. ListOrder(i)'
      <4>1. pc'[i] \notin {"idle", "modify", "classify"}
        BY DEF Reserved
      <4>2. \A a \in DOMAIN list'[i] : \E b \in DOMAIN batch'[i] : list'[i][a] = batch'[i][b]
        BY <1>7
      <4>3. Sorted(list[i])'
        BY <1>2, <3>1 DEF ListOrder
      <4> QED BY <4>1, <4>2, <4>3 DEF ListOrder
    <3> QED BY <1>12, <2>3, <3>3, <3>4, <3>5 DEF GoroutineOrder
  <2> QED BY <2>2, <2>3
<1>14. \A k \in Key : DistOrder(k)'
  BY DEF BackOrder, DistOrder, SameOrder, Sorted
<1>15. IssuedOrder'
  <2> SUFFICES ASSUME NEW e \in Issued'
               PROVE  /\ e.msg \in Seen /\ KeyOf[e.msg] = ConvKey[e.conv]
                      /\ \A k \in Key : \A n \in DOMAIN dist[k] : <<dist[k][n], e.msg>> \notin Earlier
                      /\ \A c \in Channel : \A j \in DOMAIN ch[c] : \A n \in DOMAIN ch[c][j] :
                            <<ch[c][j][n], e.msg>> \notin Earlier
    BY DEF IssuedOrder, SameOrder
  <2>1. CASE e \in Issued
    BY <2>1 DEF BackOrder, IssuedOrder
  <2>2. CASE Listed(i, e)
    <3>1. PICK b \in DOMAIN batch[i] : e.msg = batch[i][b]
      BY <1>6, <1>7, <2>2
    <3>2. e.msg \in Seen /\ \A k \in Key : \A n \in DOMAIN dist[k] : <<dist[k][n], e.msg>> \notin Earlier
      BY <1>2, <3>1 DEF BatchOrder, Follows
    <3>3. KeyOf[e.msg] = KeyOf[batch[i][1]] /\ e.conv = WorkConv(i)
      BY <1>2, <1>6, <2>2, <3>1 DEF BatchOrder, OneKey
    <3>4. ASSUME NEW c \in Channel, NEW j \in DOMAIN ch[c], NEW n \in DOMAIN ch[c][j]
          PROVE  <<ch[c][j][n], e.msg>> \notin Earlier
      <4>1. CASE c = i
        BY <1>2, <3>1, <4>1 DEF BatchOrder, Follows
      <4>2. CASE c # i
        <5>1. ch[c] \in Seq(Seq(Msg))
          BY <1>1 DEF TypeInv, TypeOK, ChanOK
        <5>2. ChannelOf[KeyOf[ch[c][j][1]]] = c
          <6>1. j \in 1 .. Len(ch[c])
            BY <5>1
          <6> QED BY <1>1, <6>1 DEF TypeInv, Routing, ChanRouting
        <5>3. KeyOf[ch[c][j][n]] = KeyOf[ch[c][j][1]]
          BY DEF BackOrder, GoroutineOrder, ChanOrder, OneKey
        <5>4. KeyOf[ch[c][j][n]] # KeyOf[e.msg]
          BY <1>5, <3>3, <4>2, <5>2, <5>3
        <5> QED BY <5>4 DEF Earlier
      <4> QED BY <4>1, <4>2
    <3> QED BY <1>5, <3>2, <3>3, <3>4
  <2> QED BY <2>1, <2>2
<1>16. SeqOrder'
  <2> SUFFICES ASSUME NEW e \in Issued', NEW f \in Issued', e.conv = f.conv, f.seq <= e.seq
               PROVE  <<e.msg, f.msg>> \notin Earlier
    BY DEF SeqOrder, SameOrder
  <2>1. CASE e.conv = WorkConv(i) /\ e.seq > cur[i]
    <3>1. PICK a : a = e.seq - cur[i]
      OBVIOUS
    <3>2. a \in DOMAIN list[i] /\ e.msg = list[i][a]
      <4>1. e.msg = list[i][e.seq - cur[i]]
        BY <1>4, <2>1
      <4>2. e.seq \in 1 .. maxSeq[WorkConv(i)]
        BY <1>4, <2>1 DEF WithinMaxSeq
      <4>3. cur[i] + Len(list[i]) = maxSeq[WorkConv(i)]
        BY <1>1 DEF NumberingInv, GoroutineInv, ReservedInv
      <4> QED BY <1>3, <1>11, <2>1, <3>1, <4>1, <4>2, <4>3
    <3>3. CASE f.seq > cur[i]
      <4>1. PICK b : b = f.seq - cur[i]
        OBVIOUS
      <4>2. f.msg = list[i][b]
        BY <1>4, <2>1, <3>3, <4>1
      <4>3. b \in 1 .. a /\ a \in 1 .. Len(list[i])
        BY <1>3, <1>11, <3>1, <3>2, <3>3, <4>1
      <4>4. b \in DOMAIN list[i] /\ (b = a \/ b < a)
        BY <1>3, <4>3
      <4>5. CASE b = a
        <5>1. e.msg = f.msg /\ e.msg \in Msg
          BY <1>3, <3>2, <4>2, <4>5
        <5> QED BY <1>1, <5>1, NotBeforeItself
      <4>6. CASE b < a
        BY <1>2, <3>2, <4>2, <4>4, <4>6 DEF ListOrder, Sorted
      <4> QED BY <4>4, <4>5, <4>6
    <3>4. CASE ~(f.seq > cur[i])
      <4>1. f \in Issued /\ f.seq <= cur[i]
        BY <1>3, <1>6, <1>11, <3>4
      <4>2. BatchNotBefore(i, f)
        BY <1>10, <2>1, <4>1
      <4>3. PICK b \in DOMAIN batch[i] : e.msg = batch[i][b]
        BY <1>7, <3>2
      <4> QED BY <4>2, <4>3 DEF BatchNotBefore
    <3> QED BY <3>3, <3>4
  <2>2. CASE ~(e.conv = WorkConv(i) /\ e.seq > cur[i])
    <3>1. e \in Issued
      BY <1>6, <2>2
    <3>2. ~(f.conv = WorkConv(i) /\ f.seq > cur[i])
      BY <1>3, <1>11, <2>2
    <3>3. f \in Issued
      BY <1>6, <3>2
    <3> QED BY <3>1, <3>3 DEF BackOrder, SeqOrder
  <2> QED BY <2>1, <2>2
<1> QED BY <1>13, <1>14, <1>15, <1>16 DEF BackOrder

\* What goes to the topics are messages of the list.
LEMMA EntriesListed ==
    ASSUME TypeInv, NEW i \in Channel PROVE \A e \in BatchEntries(WorkBatch(i)) : Listed(i, e)
<1> SUFFICES ASSUME NEW e \in BatchEntries(WorkBatch(i)) PROVE Listed(i, e)
  OBVIOUS
<1>1. PICK n \in DOMAIN list[i] : e = [conv |-> WorkConv(i), seq |-> cur[i] + n, msg |-> list[i][n]]
  BY DEF BatchEntries, WorkBatch
<1>2. n \in 1 .. Len(list[i])
  BY DEF TypeInv, TypeOK, WorkOK
<1> QED BY <1>1, <1>2 DEF Listed

LEMMA MsgToMongoMQOrder ==
    ASSUME NumberingInv, FrontOrder, BackOrder, SameOrder, NEW i \in Channel, MsgToMongoMQ(i)
    PROVE  BackOrder'
<1>1. WorkOK /\ TypeInv
  BY DEF NumberingInv, TypeInv, TypeOK
<1>2. /\ UNCHANGED <<stage, batch, list, cur, maxSeq, toPush, dist, ch>>
      /\ toMongo' \in {toMongo, [toMongo EXCEPT ![WorkPart(i)] = Append(toMongo[WorkPart(i)], WorkBatch(i))]}
      /\ pos' = [pos EXCEPT ![i] = 0]
      /\ pc' = [pc EXCEPT ![i] = "push"]
      /\ pc[i] = "toMongo"
  BY DEF MsgToMongoMQ, Goto, redisVars, distVars
<1>3. WorkPart(i) \in Partition /\ WorkBatch(i) \in MongoBatch
  BY <1>1, <1>2, WorkConvType, WorkBatchType
<1>4. \A e \in BatchEntries(WorkBatch(i)) : Listed(i, e)
  BY <1>1, EntriesListed
<1>5. /\ \A e \in Issued' : e \in Issued \/ Listed(i, e)
      /\ PushedEntries' = PushedEntries
  <2>1. CASE toMongo' = toMongo
    BY <1>2, <2>1, IssuedUnchanged
  <2>2. CASE toMongo' = [toMongo EXCEPT ![WorkPart(i)] = Append(toMongo[WorkPart(i)], WorkBatch(i))]
    BY <1>1, <1>2, <1>3, <1>4, <2>2, QueueAppends
  <2> QED BY <1>2, <2>1, <2>2
<1>6. pc'[i] = "push" /\ \A j \in Channel \ {i} : SameWork(j)
  BY <1>1, <1>2 DEF WorkOK, SameWork
<1>7. pc[i] \in Reserved /\ pc'[i] \in Reserved
  BY <1>2, <1>6 DEF Reserved
<1> QED BY <1>2, <1>5, <1>6, <1>7, IssueOrder

LEMMA PushOrder ==
    ASSUME NumberingInv, FrontOrder, BackOrder, SameOrder, NEW i \in Channel, Push(i)
    PROVE  BackOrder'
<1>1. WorkOK /\ TypeInv
  BY DEF NumberingInv, TypeInv, TypeOK
<1>2. /\ UNCHANGED <<pc, stage, batch, list, cur, maxSeq, toMongo, dist, ch>>
      /\ toPush' \in {toPush, [toPush EXCEPT ![WorkPart(i)] = Append(toPush[WorkPart(i)], PushEntry(i))]}
      /\ pos' = [pos EXCEPT ![i] = pos[i] + 1]
      /\ pc[i] = "push" /\ pos[i] < Len(list[i])
  BY DEF Push, redisVars, distVars
<1>3. WorkPart(i) \in Partition /\ PushEntry(i) \in Entry
  BY <1>1, <1>2, WorkConvType, PushEntryType
<1>4. Listed(i, PushEntry(i))
  BY <1>1, <1>2, PushEntryListed, EntriesListed
<1>5. /\ \A e \in Issued' : e \in Issued \/ Listed(i, e)
      /\ \A e \in PushedEntries' : e \in PushedEntries \/ Listed(i, e)
  <2>1. CASE toPush' = toPush
    BY <1>2, <2>1, IssuedUnchanged
  <2>2. CASE toPush' = [toPush EXCEPT ![WorkPart(i)] = Append(toPush[WorkPart(i)], PushEntry(i))]
    <3>1. /\ \A e \in Issued' : e \in Issued \/ e = PushEntry(i)
          /\ \A e \in PushedEntries' : e \in PushedEntries \/ e = PushEntry(i)
      BY <1>1, <1>2, <1>3, <2>2, PushAppends
    <3> QED BY <1>4, <3>1
  <2> QED BY <1>2, <2>1, <2>2
<1>6. \A j \in Channel \ {i} : SameWork(j)
  BY <1>1, <1>2 DEF WorkOK, SameWork
<1>7. pc[i] \in Reserved /\ pc'[i] \in Reserved
  BY <1>2 DEF Reserved
<1> QED BY <1>2, <1>5, <1>6, <1>7, IssueOrder

LEMMA WorkOrder ==
    ASSUME NumberingInv, FrontOrder, BackOrder, NEW i \in Channel, Work(i)
    PROVE  FrontOrder' /\ BackOrder'
<1>1. UNCHANGED <<topic, next, messages, flush, slice, dist>>
  BY DEF Work, Receive, Classify, Classified, GetMaxSeq, SetMessageToCache, SetMaxSeq, SetHasReadSeqs,
         CreateConversation, MsgToMongoMQ, Push, Pushed, BatchDone, kafkaVars, intakeVars, distVars
<1>2. FrontOrder' /\ SameOrder
  BY <1>1, FrontSame
<1>3. TypeInv /\ WorkOK
  BY DEF NumberingInv, TypeInv, TypeOK
<1>4. CASE Leave(i) /\ pc[i] # "idle" /\ UNCHANGED <<ch, toPush, toMongo>>
  BY <1>1, <1>2, <1>3, <1>4, LeaveOrder
<1>5. CASE Receive(i) \/ BatchDone(i) \/ Classify(i) \/ MsgToMongoMQ(i) \/ Push(i)
  BY <1>2, <1>3, <1>5, ReceiveOrder, BatchDoneOrder, ClassifyOrder, MsgToMongoMQOrder, PushOrder
<1>6. CASE Classified(i)
  <2>1. CASE Leave(i)
    BY <1>4, <1>6, <2>1 DEF Classified, kafkaVars
  <2>2. CASE ~Leave(i)
    <3>1. /\ pc[i] = "classify" /\ pc' = [pc EXCEPT ![i] = "getMaxSeq"] /\ pos' = [pos EXCEPT ![i] = 0]
          /\ UNCHANGED <<stage, batch, list, cur, ch, toPush, toMongo>>
      BY <1>6, <2>2 DEF Classified, Goto, kafkaVars
    <3>2. /\ \A j \in Channel \ {i} : SameWork(j) /\ pc[i] \notin Reserved /\ "getMaxSeq" \in Numbers
      BY <1>3, <3>1 DEF WorkOK, SameWork, Reserved, Numbers
    <3>3. Issued' = Issued
      BY <3>1, IssuedUnchanged
    <3>4. pc[i] \in {"classify"} \cup Numbers /\ pc[i] \notin Reserved /\ "getMaxSeq" \in Numbers
      BY <3>1 DEF Reserved, Numbers
    <3> QED BY <1>1, <1>2, <1>3, <3>1, <3>2, <3>3, <3>4, MoveOrder
  <2> QED BY <2>1, <2>2
<1>7. CASE GetMaxSeq(i)
  <2>1. CASE Leave(i)
    BY <1>4, <1>7, <2>1 DEF GetMaxSeq, kafkaVars
  <2>2. CASE ~Leave(i)
    <3>1. /\ pc[i] = "getMaxSeq" /\ pc' = [pc EXCEPT ![i] = "setCache"] /\ cur' = [cur EXCEPT ![i] = MaxSeqRead(i)]
          /\ UNCHANGED <<stage, batch, list, pos, ch, toPush, toMongo>>
      BY <1>7, <2>2 DEF GetMaxSeq, GetMaxSeqError, Goto, kafkaVars
    <3>2. \A j \in Channel \ {i} : SameWork(j)
      BY <1>3, <3>1 DEF WorkOK, SameWork
    <3>3. Issued' = Issued
      BY <3>1, IssuedUnchanged
    <3>4. pc[i] \in {"classify"} \cup Numbers /\ pc[i] \notin Reserved /\ "setCache" \in Numbers
      BY <3>1 DEF Reserved, Numbers, Fresh
    <3> QED BY <1>1, <1>2, <1>3, <3>1, <3>2, <3>3, <3>4, MoveOrder
  <2> QED BY <2>1, <2>2
<1>8. CASE SetMessageToCache(i)
  <2>1. /\ pc[i] = "setCache" /\ pc' = [pc EXCEPT ![i] = "setMaxSeq"]
        /\ UNCHANGED <<stage, batch, list, cur, pos, ch, toPush, toMongo>>
    BY <1>8 DEF SetMessageToCache, Goto, kafkaVars
  <2>2. \A j \in Channel \ {i} : SameWork(j)
    BY <1>3, <2>1 DEF WorkOK, SameWork
  <2>3. Issued' = Issued
    BY <2>1, IssuedUnchanged
  <2>4. pc[i] \in {"classify"} \cup Numbers /\ pc[i] \notin Reserved /\ "setMaxSeq" \in Numbers
    BY <2>1 DEF Reserved, Numbers, Fresh
  <2> QED BY <1>1, <1>2, <1>3, <2>1, <2>2, <2>3, <2>4, MoveOrder
<1>9. CASE SetMaxSeq(i)
  <2>1. /\ pc[i] = "setMaxSeq" /\ UNCHANGED <<stage, batch, list, cur, pos, ch, toPush, toMongo>>
        /\ \E l \in {"setHasRead", "setHasReadFailed"} : pc' = [pc EXCEPT ![i] = l]
    BY <1>9 DEF SetMaxSeq, AfterSetMaxSeqError, Goto, kafkaVars
  <2>2. PICK l \in {"setHasRead", "setHasReadFailed"} : pc' = [pc EXCEPT ![i] = l]
    BY <2>1
  <2>3. \A j \in Channel \ {i} : SameWork(j)
    BY <1>3, <2>1, <2>2 DEF WorkOK, SameWork
  <2>4. Issued' = Issued
    BY <2>1, IssuedUnchanged
  <2>5. pc[i] \in {"classify"} \cup Numbers /\ pc[i] \notin Reserved /\ (l \in Numbers \/ l = "setHasReadFailed")
    BY <2>1 DEF Reserved, Numbers, Fresh
  <2> QED BY <1>1, <1>2, <1>3, <2>1, <2>2, <2>3, <2>4, <2>5, MoveOrder
<1>10. CASE SetHasReadSeqs(i) /\ pc[i] = "setHasReadFailed"
  BY <1>4, <1>10 DEF SetHasReadSeqs, kafkaVars
<1>11. CASE (SetHasReadSeqs(i) /\ pc[i] # "setHasReadFailed") \/ CreateConversation(i)
  <2>1. /\ pc[i] \in {"setHasRead", "create"} /\ UNCHANGED <<stage, batch, list, cur, pos, ch, toPush, toMongo>>
        /\ \E l \in {"create", "toMongo"} : pc' = [pc EXCEPT ![i] = l]
    BY <1>11 DEF SetHasReadSeqs, CreateConversation, Goto, kafkaVars
  <2>2. PICK l \in {"create", "toMongo"} : pc' = [pc EXCEPT ![i] = l]
    BY <2>1
  <2>3. \A j \in Channel \ {i} : SameWork(j)
    BY <1>3, <2>1, <2>2 DEF WorkOK, SameWork
  <2>4. Issued' = Issued
    BY <2>1, IssuedUnchanged
  <2>5. pc[i] \in {"classify"} \cup Numbers /\ l \in Reserved /\ l \in Numbers /\ cur'[i] = cur[i]
    BY <2>1 DEF Reserved, Numbers
  <2> QED BY <1>1, <1>2, <1>3, <2>1, <2>2, <2>3, <2>4, <2>5, MoveOrder
<1>12. CASE Pushed(i)
  BY <1>4, <1>12 DEF Pushed, kafkaVars
<1> QED BY <1>2, <1>5, <1>6, <1>7, <1>8, <1>9, <1>10, <1>11, <1>12 DEF Work

LEMMA FrontOnly ==
    ASSUME TypeInv, TypeInv', FrontOrder, BackOrder, FrontOrder',
           \A p \in Partition : \A j \in DOMAIN topic[p] : j \in DOMAIN topic'[p] /\ topic'[p][j] = topic[p][j],
           \A p \in Partition : Aggregated(p)' = Aggregated(p),
           UNCHANGED <<dist, ch, workVars, toPush, toMongo>>
    PROVE  BackOrder'
<1>1. \A p \in Partition : Aggregated(p)' >= Aggregated(p)
  BY AggregatedBound
<1>2. KeepsOrder
  BY <1>1, OrderStable DEF KeepsOrder
<1> QED BY <1>2, FrontStep

LEMMA NextOrder == NumberingInv /\ OrderInv /\ [Next]_vars => OrderInv'
<1> SUFFICES ASSUME NumberingInv, OrderInv, [Next]_vars, session' = 1, crashes' = 0
             PROVE  FrontOrder' /\ BackOrder'
  BY DEF OrderInv
<1>1. session = 1 /\ crashes = 0 /\ FrontOrder /\ BackOrder
  BY StillFirst
<1>2. TypeInv /\ TypeInv'
  BY NextNumbering DEF NumberingInv
<1>3. ASSUME NEW m \in Msg, MsgToMQ(m) PROVE FrontOrder' /\ BackOrder'
  <2>1. UNCHANGED <<dist, ch, workVars, toPush, toMongo>>
    BY <1>3 DEF MsgToMQ, distVars
  <2> QED BY <1>1, <1>2, <1>3, <2>1, MsgToMQOrder, FrontOnly
<1>4. ASSUME NEW p \in Partition, ConsumeOne(p) PROVE FrontOrder' /\ BackOrder'
  <2>1. UNCHANGED <<dist, ch, workVars, toPush, toMongo>>
    BY <1>4 DEF ConsumeOne, distVars
  <2>2. FrontOrder' /\ UNCHANGED topic /\ \A q \in Partition : Aggregated(q)' = Aggregated(q)
    BY <1>1, <1>2, <1>4, ConsumeOneOrder
  <2> QED BY <1>1, <1>2, <2>1, <2>2, FrontOnly
<1>5. ASSUME NEW p \in Partition, NEW s \in Session, Tick(p, s) PROVE FrontOrder' /\ BackOrder'
  <2>1. UNCHANGED <<dist, ch, workVars, toPush, toMongo>>
    BY <1>5 DEF Tick, kafkaVars, distVars
  <2>2. FrontOrder' /\ UNCHANGED topic /\ \A q \in Partition : Aggregated(q)' = Aggregated(q)
    BY <1>1, <1>2, <1>5, TickOrder
  <2> QED BY <1>1, <1>2, <2>1, <2>2, FrontOnly
<1>6. ASSUME NEW p \in Partition, NEW s \in Session, SendSlice(p, s) PROVE FrontOrder' /\ BackOrder'
  <2>1. UNCHANGED <<dist, ch, workVars, toPush, toMongo>>
    BY <1>6 DEF SendSlice, kafkaVars
  <2>2. FrontOrder' /\ UNCHANGED topic /\ \A q \in Partition : Aggregated(q)' = Aggregated(q)
    BY <1>1, <1>2, <1>6, SendSliceOrder
  <2> QED BY <1>1, <1>2, <2>1, <2>2, FrontOnly
<1>7. CASE Aggregate
  BY <1>1, <1>2, <1>7, AggregateOrder
<1>8. ASSUME NEW k \in Key, Distribute(k) PROVE FrontOrder' /\ BackOrder'
  <2>1. UNCHANGED <<topic, next, messages, flush, slice>>
    BY <1>8 DEF Distribute, kafkaVars, intakeVars
  <2> QED BY <1>1, <1>2, <1>8, <2>1, FrontSame, DistributeOrder
<1>9. ASSUME NEW i \in Channel, Work(i) PROVE FrontOrder' /\ BackOrder'
  BY <1>1, <1>9, WorkOrder
<1>10. CASE \/ \E p \in Partition : MongoWork(p) \/ CommitOffsets(p)
            \/ UNCHANGED vars
  <2>1. UNCHANGED <<topic, next, messages, flush, slice, dist, ch, workVars, toPush, toMongo>>
    BY <1>10 DEF MongoWork, BatchInsertChat2DB, DeleteMessagesFromCache, CommitOffsets, vars, kafkaVars,
                 intakeVars, distVars
  <2>2. FrontOrder' /\ SameOrder
    BY <1>1, <2>1, FrontSame
  <2>3. KeepsOrder
    BY <2>2 DEF KeepsOrder, SameOrder
  <2> QED BY <1>1, <1>2, <2>1, <2>2, <2>3, FrontStep
<1>11. CASE Rebalance
  BY <1>1, <1>11 DEF Rebalance
<1>12. CASE Crash \/ \E i \in Channel : ModifyPanic(i)
  BY <1>1, <1>12 DEF Crash, ModifyPanic, Restart
<1> QED BY <1>3, <1>4, <1>5, <1>6, <1>7, <1>8, <1>9, <1>10, <1>11, <1>12 DEF Next, Intake

LEMMA InitOrder == Init => OrderInv
<1> SUFFICES ASSUME Init PROVE FrontOrder /\ BackOrder
  BY DEF OrderInv
<1>1. 1 \in Session
  BY ConstantsAssumption DEF Session
<1>2. ASSUME NEW p \in Partition PROVE TopicOrder(p) /\ IntakeOrder(p)
  <2>1. /\ topic[p] = <<>> /\ next[p] = 0 /\ slice = <<>>
        /\ \A s \in Session : messages[p][s] = <<>> /\ flush[p][s] = <<>>
    BY DEF Init
  <2>2. Taken(p) = 0 /\ InSlice(p) = 0 /\ Aggregated(p) = 0
    BY <1>1, <2>1 DEF Taken, InSlice, Aggregated
  <2> QED BY <1>1, <2>1, <2>2 DEF TopicOrder, IntakeOrder
<1>3. Issued = {}
  BY DEF Init, Issued, PushedEntries, QueuedEntries
<1>4. \A k \in Key : dist[k] = <<>>
  BY DEF Init
<1>5. \A k \in Key : DistOrder(k)
  BY <1>4 DEF DistOrder, Sorted
<1>6. ASSUME NEW i \in Channel PROVE GoroutineOrder(i)
  <2>1. ch[i] = <<>> /\ batch[i] = <<>> /\ list[i] = <<>> /\ pc[i] = "idle"
    BY DEF Init
  <2> QED BY <1>3, <2>1 DEF GoroutineOrder, ChanOrder, BatchOrder, ListOrder, IssuedBatch, Sorted, OneKey, Follows
<1> QED BY <1>2, <1>3, <1>5, <1>6 DEF FrontOrder, BackOrder, IssuedOrder, SeqOrder

\* In the first session of the first life, the order of every place between the
\* topic and what was issued is the order of production.
THEOREM OrderInvariant == Spec => []OrderInv
<1>1. Init => OrderInv
  BY InitOrder
<1>2. NumberingInv /\ OrderInv /\ [Next]_vars => OrderInv'
  BY NextOrder
<1> QED BY <1>1, <1>2, NumberingInvariant, PTL DEF Spec

\* Messages of one key are numbered in the order the RPC service produced them,
\* as long as neither the session nor the process ends, whatever calls fail.
THEOREM NumberedInSendOrderHolds == Spec => []NumberedInSendOrder
<1>1. NumberingInv /\ OrderInv => NumberedInSendOrder
  <2> SUFFICES ASSUME NumberingInv, OrderInv, session = 1, crashes = 0, NEW e \in Issued, NEW f \in Issued,
                      e.conv = f.conv, Before(e.msg, f.msg)
               PROVE  e.seq < f.seq
    BY DEF NumberedInSendOrder
  <2>1. IssuedOrder /\ SeqOrder
    BY DEF OrderInv, BackOrder
  <2>2. e \in Entry /\ f \in Entry
    BY IssuedType DEF NumberingInv
  <2>3. e.msg \in Msg /\ f.msg \in Msg /\ e.seq \in Nat /\ f.seq \in Nat
    BY <2>2 DEF Entry
  <2>4. KeyOf[e.msg] = KeyOf[f.msg]
    BY <2>1 DEF IssuedOrder
  <2>5. <<e.msg, f.msg>> \in Earlier
    BY <2>3, <2>4 DEF Earlier
  <2>6. ~(f.seq <= e.seq)
    BY <2>1, <2>5 DEF SeqOrder
  <2> QED BY <2>3, <2>6
<1> QED BY <1>1, NumberingInvariant, OrderInvariant, PTL

=============================================================================
