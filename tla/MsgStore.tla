------------------------------ MODULE MsgStore ------------------------------
(***************************************************************************)
(* The stored messages of one conversation and the calls that read, mark,  *)
(* revoke and delete them: pkg/common/db/controller/msg.go with its Redis  *)
(* (cache/msg.go) and MongoDB (unrelation/msg.go) drivers, the RPCs of     *)
(* internal/rpc/msg on top of it, the Mongo consumer of msgtransfer and    *)
(* the cron jobs of internal/tools.                                        *)
(*                                                                         *)
(* A numbered message is first in the Redis cache and in the Mongo queue.  *)
(* The consumer writes it into a document of DocSize slots, then empties   *)
(* the cache.  Every Redis and MongoDB command of a call is a step of its  *)
(* own (a pipeline is one step); each call of Call runs once, at any time. *)
(* A message is identified by its seq.                                     *)
(***************************************************************************)
EXTENDS Integers, Sequences, FiniteSets

CONSTANTS
    User,
    Call,          \* the calls of this instance
    Scenario,      \* what the calls may ask for together: functions of Call to requests
    Consumer,      \* the Mongo consumer, a writer beside the calls
    MaxMsgs,       \* bound: messages sent to the conversation
    MaxBatch,      \* bound: messages of one Kafka batch
    DocSize,       \* singleGocMsgNum, 100 in the code
    PageLimit,     \* pageMsgLimit, 50 in the code
    Sender,        \* Sender[s]: who sends message s
    Quote,         \* Quote[s]: the seq message s quotes, 0 when it quotes none
    MaxRedeliver   \* bound: times the Mongo consumer starts over

Seqs  == 1 .. MaxMsgs
Index == 0 .. DocSize - 1
Kinds == {"pull", "pullSeqs", "revoke", "deleteSelf", "deleteAll", "purge", "destruct",
          "clearSelf", "clearAll", "markMsgs", "markConv", "readSeq", "setRead"}

\* What a client asks for is what it was told of: users and seqs that exist,
\* and a mark names at least one message.
RequestOK(r) ==
    /\ r.kind \in Kinds
    /\ r.kind # "purge" => r.user \in User
    /\ r.kind \in {"pull", "pullSeqs", "revoke"} =>
           r.begin \in Seqs /\ r.end \in Seqs /\ r.num \in Nat /\ r.cap \in Nat
    /\ r.kind \in {"deleteSelf", "deleteAll", "markMsgs", "markConv", "readSeq", "setRead"} =>
           r.seqs \subseteq Seqs /\ r.seqs # {}
    /\ r.kind \in {"purge", "destruct"} => r.upTo \in 0 .. MaxMsgs
    /\ r.kind = "purge" => r.clean \in BOOLEAN
    /\ r.kind = "destruct" => r.since \in 0 .. MaxMsgs

ASSUME ConstantsAssumption ==
    /\ Consumer \notin Call
    /\ MaxMsgs \in Nat
    /\ MaxBatch \in Nat \ {0}
    /\ DocSize \in Nat \ {0}
    /\ PageLimit \in Nat \ {0}
    /\ MaxRedeliver \in Nat
    /\ Sender \in [Seqs -> User]
    /\ Quote \in [Seqs -> 0 .. MaxMsgs]
    /\ \A o \in Scenario : DOMAIN o = Call /\ \A k \in Call : RequestOK(o[k])

\* tempCache of findMsgInfoBySeq never has a hit: of the messages of a
\* document no two quote the same message.
ASSUME QuoteAssumption ==
    \A s, t \in Seqs : Quote[s] # 0 /\ Quote[s] = Quote[t] => s = t

VARIABLES
    \* Redis
    maxSeq, minSeq,    \* MAX_SEQ and MIN_SEQ, 0 when the key does not exist
    userMin,           \* userMin[u]: CON_USER_MIN_SEQ
    hasRead,           \* hasRead[u]: HAS_READ_SEQ
    cache,             \* the seqs cached under MESSAGE_CACHE
    msgDel,            \* msgDel[s]: MESSAGE_DEL_USER_LIST, users
    userDel,           \* userDel[u]: USER_DEL_MESSAGES_LIST, seqs
    \* Kafka and MongoDB
    queue, qpos,       \* the batches [first, last] of the Mongo topic, consumed ones
    docs,              \* the documents that exist
    slot,              \* slot[d][i]: msgs.i of document d
    \* the processes
    fresh,             \* the batch msgtransfer is numbering
    mc, left,          \* the Mongo consumer: where it is, seqs whose lists it still clears
    users,             \* the users it read from msgDel
    blk,               \* blk[w]: the locals i, last, tryUpdate of BatchInsertBlock
    op,                \* op[k]: the request of call k, a record with field kind
    pc,                \* pc[k]: where call k is
    view,              \* view[k]: the locals of call k that reads
    todo,              \* todo[k]: what the loop of call k still has to do
    num,               \* num[k]: a number call k read from Redis
    hist,              \* history: which calls had ended when k began, had begun when it ended
    redelivered

redisVars == <<maxSeq, minSeq, userMin, hasRead, cache, msgDel, userDel>>
mongoVars == <<docs, slot>>
feedVars  == <<queue, qpos, fresh, mc, left, users, redelivered>>
callVars  == <<op, pc, view, todo, num, hist>>
vars == <<redisVars, mongoVars, feedVars, blk, callVars>>

-----------------------------------------------------------------------------
(* Documents and slots.                                                    *)

\* GetDocID, by its number, and GetMsgIndex.
DocOf(s)   == (s - 1) \div DocSize
IndexOf(s) == (s - 1) % DocSize
Docs       == { DocOf(s) : s \in Seqs }

\* A slot: message 0 is a nil msg; hasDel is FALSE when the field del_list is
\* missing; rewritten: the quoted message inside msg was replaced.
EmptySlot   == [msg |-> 0, rewritten |-> FALSE, revoke |-> FALSE, hasDel |-> TRUE,
                del |-> {}, isRead |-> FALSE]
\* What $set msgs.i = {msg: nil} leaves.
RemovedSlot == [EmptySlot EXCEPT !.hasDel = FALSE]

SlotOf(s)   == slot[DocOf(s)][IndexOf(s)]
Stored(s)   == DocOf(s) \in docs /\ SlotOf(s).msg = s
\* The seqs of a set that fall into document d.
InDoc(S, d) == { s \in S : DocOf(s) = d }

\* Mutant: the whole slot is replaced instead of one of its fields.
WholeSlot(sl, s, key) ==
    IF key = "msg" THEN [EmptySlot EXCEPT !.msg = s] ELSE [EmptySlot EXCEPT !.revoke = TRUE]
\* UpdateMsg with key "msg" or "revoke": $set msgs.i.<key>.
SetField(sl, s, key) ==
    IF key = "msg" THEN [sl EXCEPT !.msg = s, !.rewritten = FALSE] ELSE [sl EXCEPT !.revoke = TRUE]

\* GetMsgBySeqIndexIn1Doc for one seq: $in fails on a missing del_list; a slot
\* the user deleted or without a message is skipped; a revoked message is
\* shown as such.
ReadFails(s)      == ~SlotOf(s).hasDel
ReadSkips(u, s)   == u \in SlotOf(s).del \/ SlotOf(s).msg = 0
\* Mutant: the revoke beside the message is not looked at.
AsStored(s)       == [seq |-> SlotOf(s).msg,
                      how |-> IF SlotOf(s).rewritten THEN "rewritten" ELSE "plain"]
Shown(s)          == [seq |-> SlotOf(s).msg,
                      how |-> IF SlotOf(s).revoke THEN "revoked"
                              ELSE IF SlotOf(s).rewritten THEN "rewritten" ELSE "plain"]

-----------------------------------------------------------------------------
NoView  == [begin |-> 0, end |-> 0, first |-> 0, miss |-> {}, page |-> {}, got |-> {},
            seqs |-> {}]
NoBlock == [i |-> 1, last |-> 0, try |-> TRUE]

Init ==
    /\ maxSeq = 0 /\ minSeq = 0
    /\ userMin = [u \in User |-> 0]
    /\ hasRead = [u \in User |-> 0]
    /\ cache = {}
    /\ msgDel = [s \in Seqs |-> {}]
    /\ userDel = [u \in User |-> {}]
    /\ queue = <<>> /\ qpos = 0
    /\ docs = {}
    /\ slot = [d \in Docs |-> [i \in Index |-> EmptySlot]]
    /\ fresh = [pc |-> "idle", n |-> 0]
    /\ mc = "idle" /\ left = <<>> /\ users = {}
    /\ blk = [w \in Call \cup {Consumer} |-> NoBlock]
    /\ op \in Scenario
    /\ pc = [k \in Call |-> "start"]
    /\ view = [k \in Call |-> NoView]
    /\ todo = [k \in Call |-> {}]
    /\ num = [k \in Call |-> 0]
    /\ hist = [k \in Call |-> [before |-> {}, during |-> {}]]
    /\ redelivered = 0

Kind(k)  == op[k].kind
Final    == {"done", "failed"}
Ended(k) == pc[k] \in Final
\* Call k goes on at l.  The history notes what had ended when k began, and
\* what had begun when it ended.
Go(k, l) ==
    /\ pc' = [pc EXCEPT ![k] = l]
    /\ hist' = [hist EXCEPT
         ![k].before = IF pc[k] = "start" THEN { j \in Call : Ended(j) } ELSE @,
         ![k].during = IF l \in Final THEN { j \in Call : pc[j] # "start" } ELSE @]

-----------------------------------------------------------------------------
(* The numbering of a batch: MsgTransfer.tla models it in full.            *)

\* SetMessageToCache.
CacheBatch(n) ==
    /\ fresh.pc = "idle"
    /\ maxSeq + n <= MaxMsgs
    /\ fresh' = [pc |-> "cached", n |-> n]
    /\ cache' = cache \cup ((maxSeq + 1) .. (maxSeq + n))
    /\ UNCHANGED <<maxSeq, minSeq, userMin, hasRead, msgDel, userDel, mongoVars, queue, qpos, mc,
                   left, users, redelivered, blk, callVars>>

\* SetMaxSeq.
NumberBatch ==
    /\ fresh.pc = "cached"
    /\ fresh' = [fresh EXCEPT !.pc = "numbered"]
    /\ maxSeq' = maxSeq + fresh.n
    /\ UNCHANGED <<minSeq, userMin, hasRead, cache, msgDel, userDel, mongoVars, queue, qpos, mc,
                   left, users, redelivered, blk, callVars>>

FirstFresh == maxSeq - fresh.n + 1
\* SetHasReadSeqs: a sender has read its own last message.
SenderHasRead ==
    /\ fresh.pc = "numbered"
    /\ fresh' = [fresh EXCEPT !.pc = "marked"]
    /\ hasRead' = [u \in User |->
                     LET own == { s \in FirstFresh .. maxSeq : Sender[s] = u } IN
                     IF own = {} THEN hasRead[u] ELSE CHOOSE s \in own : \A t \in own : t <= s]
    /\ UNCHANGED <<maxSeq, minSeq, userMin, cache, msgDel, userDel, mongoVars, queue, qpos, mc,
                   left, users, redelivered, blk, callVars>>

\* MsgToMongoMQ.
QueueBatch ==
    /\ fresh.pc = "marked"
    /\ fresh' = [pc |-> "idle", n |-> 0]
    /\ queue' = Append(queue, [first |-> FirstFresh, last |-> maxSeq])
    /\ UNCHANGED <<redisVars, mongoVars, qpos, mc, left, users, redelivered, blk, callVars>>

-----------------------------------------------------------------------------
(* BatchInsertBlock, run by the consumer (key "msg") and by a revoke call. *)

KeyOf(w)     == IF w = Consumer THEN "msg" ELSE "revoke"
Writing(w)   == IF w = Consumer THEN mc = "insert" ELSE pc[w] = "write"
Writers      == { w \in Call \cup {Consumer} : w = Consumer \/ Kind(w) = "revoke" }
\* The loop is over: the consumer goes on to the cache, the RPC answers.
AfterBlock(w, b) ==
    /\ blk' = [blk EXCEPT ![w] = b]
    /\ IF w = Consumer
       THEN mc' = (IF b.i > b.last THEN "cache" ELSE "insert") /\ UNCHANGED <<pc, hist>>
       ELSE /\ UNCHANGED mc
            /\ Go(w, IF b.i > b.last THEN "done" ELSE "write")

\* updateMsgModel: a document that does not exist is not matched.
BlockUpdate(w) ==
    LET s == blk[w].i IN
    /\ Writing(w) /\ blk[w].try
    /\ IF DocOf(s) \in docs
       THEN /\ slot' = [slot EXCEPT ![DocOf(s)][IndexOf(s)] = SetField(@, s, KeyOf(w))]
            /\ AfterBlock(w, [blk[w] EXCEPT !.i = s + 1])
       ELSE /\ AfterBlock(w, [blk[w] EXCEPT !.try = FALSE])
            /\ UNCHANGED slot
    /\ UNCHANGED <<op, redisVars, docs, queue, qpos, fresh, left, users, redelivered, view, todo, num>>

\* Mutant: after a duplicate key the loop goes on with the next message.
SkipDuplicate(b) == [b EXCEPT !.i = @ + 1, !.try = TRUE]
\* Mutant: tryUpdate is not set again, the insert is repeated for ever.
InsertAgain(b) == b
\* A duplicate key: i--, tryUpdate = true.
RetryDuplicate(b) == [b EXCEPT !.try = TRUE]

\* Create: all the messages of the batch that belong to the document at once.
\* doc_id is unique, so a concurrent creation is a duplicate key.
BlockCreate(w) ==
    LET s == blk[w].i
        d == DocOf(s)
        new == InDoc(s .. blk[w].last, d) IN
    /\ Writing(w) /\ ~blk[w].try
    /\ IF d \in docs
       THEN AfterBlock(w, RetryDuplicate(blk[w])) /\ UNCHANGED mongoVars
       ELSE /\ docs' = docs \cup {d}
            /\ slot' = [slot EXCEPT ![d] = [i \in Index |->
                 IF \E t \in new : IndexOf(t) = i
                 THEN SetField(EmptySlot, CHOOSE t \in new : IndexOf(t) = i, KeyOf(w))
                 ELSE EmptySlot]]
            /\ AfterBlock(w, [blk[w] EXCEPT !.i = s + Cardinality(new)])
    /\ UNCHANGED <<op, redisVars, queue, qpos, fresh, left, users, redelivered, view, todo, num>>

-----------------------------------------------------------------------------
(* The Mongo consumer: handleChatWs2Mongo.                                 *)

Batch == queue[qpos + 1]

\* Mutant: the cache is emptied when the insert starts.
ConsumeAndDrop ==
    /\ mc = "idle" /\ qpos < Len(queue)
    /\ mc' = "insert"
    /\ cache' = cache \ (Batch.first .. Batch.last)
    /\ blk' = [blk EXCEPT ![Consumer] = [i |-> Batch.first, last |-> Batch.last, try |-> TRUE]]
    /\ UNCHANGED <<maxSeq, minSeq, userMin, hasRead, msgDel, userDel, mongoVars, queue, qpos,
                   fresh, left, users, redelivered, callVars>>
\* BatchInsertChat2DB starts.
ConsumeBatch ==
    /\ mc = "idle" /\ qpos < Len(queue)
    /\ mc' = "insert"
    /\ blk' = [blk EXCEPT ![Consumer] = [i |-> Batch.first, last |-> Batch.last, try |-> TRUE]]
    /\ UNCHANGED <<redisVars, mongoVars, queue, qpos, fresh, left, users, redelivered, callVars>>

\* DeleteMessagesFromCache.
DropFromCache ==
    /\ mc = "cache"
    /\ cache' = cache \ (Batch.first .. Batch.last)
    /\ mc' = "lists"
    /\ left' = [i \in 1 .. Batch.last - Batch.first + 1 |-> Batch.first + i - 1]
    /\ UNCHANGED <<maxSeq, minSeq, userMin, hasRead, msgDel, userDel, mongoVars, queue, qpos,
                   fresh, users, redelivered, blk, callVars>>

\* DelUserDeleteMsgsList: SMEMBERS, then SREM for every user and DEL.
ReadDelList ==
    /\ mc = "lists" /\ left # <<>>
    /\ users' = msgDel[Head(left)]
    /\ mc' = "clear"
    /\ UNCHANGED <<redisVars, mongoVars, queue, qpos, fresh, left, redelivered, blk, callVars>>

ClearDelList ==
    LET s == Head(left) IN
    /\ mc = "clear"
    /\ userDel' = [u \in User |-> IF u \in users THEN userDel[u] \ {s} ELSE userDel[u]]
    /\ msgDel' = [msgDel EXCEPT ![s] = IF users = {} THEN @ ELSE {}]
    /\ users' = {}
    /\ left' = Tail(left)
    /\ mc' = "lists"
    /\ UNCHANGED <<maxSeq, minSeq, userMin, hasRead, cache, mongoVars, queue, qpos, fresh,
                   redelivered, blk, callVars>>

\* MarkMessage.
BatchDone ==
    /\ mc = "lists" /\ left = <<>>
    /\ mc' = "idle"
    /\ qpos' = qpos + 1
    /\ UNCHANGED <<redisVars, mongoVars, queue, fresh, left, users, redelivered, blk, callVars>>

\* A restart or a rebalance: consumption resumes at the committed offset,
\* which trails the marked one.
Redeliver(q) ==
    /\ redelivered < MaxRedeliver
    /\ mc # "idle" \/ q < qpos
    /\ redelivered' = redelivered + 1
    /\ qpos' = q
    /\ mc' = "idle" /\ left' = <<>> /\ users' = {}
    /\ blk' = [blk EXCEPT ![Consumer] = NoBlock]
    /\ UNCHANGED <<redisVars, mongoVars, queue, fresh, callVars>>

-----------------------------------------------------------------------------
(***************************************************************************)
(* Reads.  "pull" is GetMsgBySeqsRange, the pull of a chat; "pullSeqs" is  *)
(* GetMsgBySeqs, the pull of notifications, which RevokeMsg also calls to  *)
(* find its message.                                                       *)
(***************************************************************************)
Readers    == { k \in Call : Kind(k) \in {"pull", "pullSeqs", "revoke"} }
Larger(a, b)  == IF a > b THEN a ELSE b
Smaller(a, b) == IF a < b THEN a ELSE b
\* MAX_SEQ, lowered to the MaxSeq of the user's conversation when that is set.
UpperSeq(k) == IF op[k].cap # 0 THEN Smaller(op[k].cap, maxSeq) ELSE maxSeq

\* A client asks for seqs it was told of.
GetUserMinSeq(k) ==
    /\ pc[k] = "start" /\ op[k].end <= maxSeq
    /\ num' = [num EXCEPT ![k] = userMin[op[k].user]]
    /\ Go(k, "min")
    /\ UNCHANGED <<op, redisVars, mongoVars, feedVars, blk, view, todo>>

\* The range read starts at the larger of the two lower limits, GetMsgBySeqs
\* at the smaller one.
LowerSeq(k) == IF Kind(k) = "pull" THEN Larger(num[k], minSeq) ELSE Smaller(num[k], minSeq)

GetMinSeq(k) ==
    /\ k \in Readers /\ pc[k] = "min"
    /\ IF Kind(k) = "pull" /\ LowerSeq(k) > op[k].end
       THEN Go(k, "done") /\ UNCHANGED view
       ELSE /\ view' = [view EXCEPT ![k].begin = Larger(op[k].begin, LowerSeq(k))]
            /\ Go(k, "max")
    /\ UNCHANGED <<op, redisVars, mongoVars, feedVars, blk, todo, num>>

\* The page: the last op[k].num seqs of the window.
GetMaxSeq(k) ==
    LET begin == view[k].begin
        end   == Smaller(op[k].end, UpperSeq(k)) IN
    /\ k \in Readers /\ pc[k] = "max"
    /\ IF Kind(k) = "pull" /\ end < begin
       THEN Go(k, "failed") /\ UNCHANGED view
       ELSE /\ view' = [view EXCEPT ![k].end = end,
                         ![k].first = IF Kind(k) = "pull" THEN Larger(begin, end - op[k].num + 1)
                                      ELSE begin]
            /\ Go(k, "cache")
    /\ UNCHANGED <<op, redisVars, mongoVars, feedVars, blk, todo, num>>

Page(k) == view[k].first .. view[k].end
Cached(S) == { [seq |-> s, how |-> "cached"] : s \in S }

\* GetMessagesBySeq: what is not cached is looked up in MongoDB.
ReadCache(k) ==
    /\ pc[k] = "cache"
    /\ view' = [view EXCEPT ![k].got = Cached(Page(k) \cap cache), ![k].miss = Page(k) \ cache]
    /\ Go(k, IF Kind(k) = "pull" /\ Page(k) \cap cache # {} THEN "dels" ELSE "docs")
    /\ UNCHANGED <<op, redisVars, mongoVars, feedVars, blk, todo, num>>

\* The seqs below the page that replace those the user deleted.  The loop over
\* them does not advance at a deleted one: it then never ends.
Replacing(k, gone) ==
    { s \in view[k].begin .. (view[k].first - 1) : s >= view[k].first - Cardinality(gone) }

\* GetUserDelList.
DropDeleted(k) ==
    LET del  == userDel[op[k].user]
        gone == { e \in view[k].got : e.seq \in del }
        more == Replacing(k, gone) IN
    /\ pc[k] = "dels"
    /\ view' = [view EXCEPT ![k].got = @ \ gone]
    /\ todo' = [todo EXCEPT ![k] = more]
    /\ Go(k, IF more \cap del # {} THEN "spin" ELSE IF more # {} THEN "again" ELSE "docs")
    /\ UNCHANGED <<op, redisVars, mongoVars, feedVars, blk, num>>

ReadAgain(k) ==
    /\ pc[k] = "again"
    /\ view' = [view EXCEPT ![k].got = @ \cup Cached(todo[k] \cap cache),
                            ![k].miss = @ \cup (todo[k] \ cache)]
    /\ todo' = [todo EXCEPT ![k] = {}]
    /\ Go(k, "docs")
    /\ UNCHANGED <<op, redisVars, mongoVars, feedVars, blk, num>>

\* Seq s comes before t in the list of the missing seqs: those of the page upwards,
\* then the replacing ones downwards.
Before(k, s, t) ==
    IF s >= view[k].first THEN t < view[k].first \/ s < t ELSE t < s

\* findMsgInfoBySeq: the missing seqs document by document, in the order of a
\* Go map; no document, or a slot without del_list, fails the whole read.
ReadDoc(k, d) ==
    LET mine == InDoc(view[k].miss, d)
        seen == { s \in mine : ~ReadSkips(op[k].user, s) }
        page == { s \in seen : Cardinality({ t \in seen : Before(k, t, s) }) < PageLimit } IN
    /\ pc[k] = "docs" /\ view[k].page = {}
    /\ mine # {}
    /\ IF d \notin docs \/ \E s \in mine : ReadFails(s)
       THEN Go(k, "failed") /\ UNCHANGED view
       ELSE /\ view' = [view EXCEPT ![k].page = { Shown(s) : s \in page },
                                    ![k].miss = @ \ mine]
            /\ UNCHANGED <<pc, hist>>
    /\ UNCHANGED <<op, redisVars, mongoVars, feedVars, blk, todo, num>>

\* handlerDBMsg looks at a message that quotes another and was not rewritten.
LiveQuote(e) == e.how = "plain" /\ Quote[e.seq] # 0
\* e is the next message of the page.
IsNext(k, e) == \A f \in view[k].page : f = e \/ Before(k, e.seq, f.seq)
TakeMsg(k, e, as) ==
    view' = [view EXCEPT ![k].got = @ \cup {as}, ![k].page = @ \ {e}]

HandleMsg(k, e) ==
    /\ pc[k] = "docs" /\ IsNext(k, e)
    /\ ~LiveQuote(e)
    /\ TakeMsg(k, e, e)
    /\ UNCHANGED <<op, redisVars, mongoVars, feedVars, blk, pc, hist, todo, num>>

\* The quoted message as this user sees it: an error or a visible message
\* leaves the quote alone, a revoked or an absent one has it rewritten.
ReadQuoted(k, e) ==
    LET q == Quote[e.seq] IN
    /\ pc[k] = "docs" /\ IsNext(k, e)
    /\ LiveQuote(e)
    /\ IF \/ DocOf(q) \notin docs \/ ReadFails(q)
          \/ ~ReadSkips(op[k].user, q) /\ ~SlotOf(q).revoke
       THEN TakeMsg(k, e, e) /\ UNCHANGED <<pc, hist>>
       ELSE Go(k, "rewrite") /\ UNCHANGED view
    /\ UNCHANGED <<op, redisVars, mongoVars, feedVars, blk, todo, num>>

\* UpdateMsg "msg" with the message as it was read.
RewriteQuote(k, e) ==
    LET s == e.seq IN
    /\ pc[k] = "rewrite" /\ IsNext(k, e)
    /\ slot' = [slot EXCEPT ![DocOf(s)][IndexOf(s)] =
                  IF DocOf(s) \in docs THEN [SetField(@, s, "msg") EXCEPT !.rewritten = TRUE] ELSE @]
    /\ TakeMsg(k, e, [e EXCEPT !.how = "rewritten"])
    /\ Go(k, "docs")
    /\ UNCHANGED <<op, redisVars, docs, feedVars, blk, todo, num>>

\* A pull answers.  RevokeMsg goes on to RevokeMsg of the database when it found
\* the message and it was not revoked yet.
ReadEnds(k) ==
    /\ pc[k] = "docs" /\ view[k].page = {} /\ view[k].miss = {}
    /\ IF Kind(k) = "revoke"
       THEN IF \E e \in view[k].got : e.how # "revoked"
            THEN /\ Go(k, "write")
                 /\ blk' = [blk EXCEPT ![k] = [i |-> op[k].end, last |-> op[k].end, try |-> TRUE]]
            ELSE Go(k, "failed") /\ UNCHANGED blk
       ELSE Go(k, "done") /\ UNCHANGED blk
    /\ UNCHANGED <<op, redisVars, mongoVars, feedVars, view, todo, num>>

Read(k) ==
    \/ k \in Readers /\ GetUserMinSeq(k)
    \/ GetMinSeq(k) \/ GetMaxSeq(k) \/ ReadCache(k) \/ DropDeleted(k) \/ ReadAgain(k)
    \/ \E d \in Docs : ReadDoc(k, d)
    \/ \E e \in view[k].page : HandleMsg(k, e) \/ ReadQuoted(k, e) \/ RewriteQuote(k, e)
    \/ k \in Readers /\ ReadEnds(k)

-----------------------------------------------------------------------------
(* DeleteMsgs and DeleteMsgPhysicalBySeq.                                  *)

\* DeleteUserMsgsBySeqs: the deleted messages that are cached.
FindCached(k) ==
    /\ Kind(k) = "deleteSelf" /\ pc[k] = "start"
    /\ \A s \in op[k].seqs : s <= maxSeq
    /\ todo' = [todo EXCEPT ![k] = op[k].seqs \cap cache]
    /\ view' = [view EXCEPT ![k].seqs = op[k].seqs \cap cache]
    /\ Go(k, "users")
    /\ UNCHANGED <<op, redisVars, mongoVars, feedVars, blk, num>>

\* UserDeleteMsgs: for every cached seq SADD of the user and SADD of the seq.
NextSeq(S) == CHOOSE s \in S : \A t \in S : s <= t
AddUser(k) ==
    /\ pc[k] = "users" /\ todo[k] # {}
    /\ msgDel' = [msgDel EXCEPT ![NextSeq(todo[k])] = @ \cup {op[k].user}]
    /\ Go(k, "seqs")
    /\ UNCHANGED <<op, maxSeq, minSeq, userMin, hasRead, cache, userDel, mongoVars, feedVars, blk,
                   view, todo, num>>
AddSeq(k) ==
    /\ pc[k] = "seqs"
    /\ userDel' = [userDel EXCEPT ![op[k].user] = @ \cup {NextSeq(todo[k])}]
    /\ todo' = [todo EXCEPT ![k] = @ \ {NextSeq(@)}]
    /\ Go(k, "users")
    /\ UNCHANGED <<op, maxSeq, minSeq, userMin, hasRead, cache, msgDel, mongoVars, feedVars, blk,
                   view, num>>
ListsWritten(k) ==
    /\ pc[k] = "users" /\ todo[k] = {}
    /\ todo' = [todo EXCEPT ![k] = op[k].seqs]
    /\ Go(k, "push")
    /\ UNCHANGED <<op, redisVars, mongoVars, feedVars, blk, view, num>>

\* $addToSet creates a del_list that is missing.
AddToDelList(sl, u) == [sl EXCEPT !.del = @ \cup {u}, !.hasDel = TRUE]

\* PushUnique matches a document that exists, whether or not the message is in it.
PushMatches(k, s) == DocOf(s) \in docs

\* PushUnique: $addToSet msgs.i.del_list.
PushDelList(k, s) ==
    /\ pc[k] = "push" /\ s \in todo[k]
    /\ slot' = [slot EXCEPT ![DocOf(s)][IndexOf(s)] =
                  IF PushMatches(k, s) THEN AddToDelList(@, op[k].user) ELSE @]
    /\ todo' = [todo EXCEPT ![k] = @ \ {s}]
    /\ Go(k, IF todo[k] = {s} THEN "done" ELSE "push")
    /\ UNCHANGED <<op, redisVars, docs, feedVars, blk, view, num>>

\* DeleteMsgsPhysicalBySeqs: the cache first, then document by document.
DropDeletedFromCache(k) ==
    /\ Kind(k) = "deleteAll" /\ pc[k] = "start"
    /\ \A s \in op[k].seqs : s <= maxSeq
    /\ cache' = cache \ op[k].seqs
    /\ todo' = [todo EXCEPT ![k] = op[k].seqs]
    /\ Go(k, "remove")
    /\ UNCHANGED <<op, maxSeq, minSeq, userMin, hasRead, msgDel, userDel, mongoVars, feedVars, blk,
                   view, num>>

\* DeleteMsgsInOneDocByIndex.
Remove(d, S) ==
    slot' = [slot EXCEPT ![d] = [i \in Index |->
              IF d \in docs /\ \E s \in S : IndexOf(s) = i THEN RemovedSlot ELSE slot[d][i]]]

RemoveMsgs(k, d) ==
    /\ pc[k] = "remove" /\ InDoc(todo[k], d) # {}
    /\ Remove(d, InDoc(todo[k], d))
    /\ todo' = [todo EXCEPT ![k] = @ \ InDoc(@, d)]
    /\ Go(k, IF todo[k] = InDoc(todo[k], d) THEN "done" ELSE "remove")
    /\ UNCHANGED <<op, redisVars, docs, feedVars, blk, view, num>>

Delete(k) ==
    \/ FindCached(k) \/ AddUser(k) \/ AddSeq(k) \/ ListsWritten(k)
    \/ \E s \in Seqs : PushDelList(k, s)
    \/ DropDeletedFromCache(k)
    \/ \E d \in Docs : RemoveMsgs(k, d)

-----------------------------------------------------------------------------
(***************************************************************************)
(* The cron jobs.  op[k].upTo is the youngest message that has expired     *)
(* when the job runs; num[k] is the number of documents it has skipped.    *)
(* Documents are visited in the order of their IDs, which is the order of  *)
(* their numbers up to ten documents.                                      *)
(***************************************************************************)
ASSUME FewDocs == \A d \in Docs : d < 10

\* GetMsgDocModelByIndex: d is the document with n documents before it.
IsNth(d, n) == d \in docs /\ Cardinality({ e \in docs : e < d }) = n
Expired(k, m) == m # 0 /\ m <= op[k].upTo
MsgsIn(d) == { slot[d][i].msg : i \in Index } \ {0}
LastOf(S) == CHOOSE s \in S : \A t \in S : t <= s
IsFull(d) == slot[d][DocSize - 1].msg # 0

\* deleteMsgRecursion, one document.  A full document whose last message has
\* expired is deleted at the end (todo), in any other the expired messages are
\* removed by a second command (view: first is the document, seqs its messages,
\* end the seq minSeq was last set to).
PurgeStarts(k) ==
    /\ Kind(k) = "purge" /\ pc[k] = "start"
    /\ op[k].upTo <= maxSeq
    /\ Go(k, "scan")
    /\ UNCHANGED <<op, redisVars, mongoVars, feedVars, blk, view, todo, num>>
PurgeDoc(k, d) ==
    LET old == { m \in MsgsIn(d) : Expired(k, m) } IN
    /\ pc[k] = "scan" /\ IsNth(d, num[k])
    /\ num' = [num EXCEPT ![k] = @ + 1]
    /\ \/ /\ IsFull(d) /\ Expired(k, slot[d][DocSize - 1].msg)
          /\ todo' = [todo EXCEPT ![k] = @ \cup {d}]
          /\ view' = [view EXCEPT ![k].end = slot[d][DocSize - 1].msg]
          /\ Go(k, "scan")
       \/ /\ ~(IsFull(d) /\ Expired(k, slot[d][DocSize - 1].msg))
          /\ old # {}
          /\ view' = [view EXCEPT ![k].first = d, ![k].seqs = old]
          /\ Go(k, "expire")
          /\ UNCHANGED todo
       \/ /\ ~(IsFull(d) /\ Expired(k, slot[d][DocSize - 1].msg))
          /\ old = {}
          /\ Go(k, "scan")
          /\ UNCHANGED <<view, todo>>
    /\ UNCHANGED <<op, redisVars, mongoVars, feedVars, blk>>
PurgeExpired(k) ==
    /\ pc[k] = "expire"
    /\ Remove(view[k].first, view[k].seqs)
    /\ view' = [view EXCEPT ![k].end = LastOf(view[k].seqs), ![k].seqs = {}, ![k].first = 0]
    /\ Go(k, "scan")
    /\ UNCHANGED <<op, redisVars, docs, feedVars, blk, todo, num>>
\* DeleteDocs.
PurgeDocs(k) ==
    /\ pc[k] = "scan" /\ num[k] >= Cardinality(docs)
    /\ docs' = docs \ todo[k]
    /\ slot' = [d \in Docs |-> IF d \in todo[k] THEN [i \in Index |-> EmptySlot] ELSE slot[d]]
    /\ Go(k, IF op[k].clean THEN "clean" ELSE "setMin")
    /\ UNCHANGED <<op, redisVars, feedVars, blk, view, todo, num>>
\* remainTime = 0: CleanUpOneConversationAllMsg.
PurgeCache(k) ==
    /\ pc[k] = "clean"
    /\ cache' = {}
    /\ Go(k, "setMin")
    /\ UNCHANGED <<op, maxSeq, minSeq, userMin, hasRead, msgDel, userDel, mongoVars, feedVars, blk,
                   view, todo, num>>

\* getSetMinSeq() + 1.
AfterPurged(n) == n + 1

\* Never 0, so SetMinSeq runs although nothing was purged.
PurgeSetsMin(k) ==
    /\ pc[k] = "setMin"
    /\ minSeq' = AfterPurged(view[k].end)
    /\ Go(k, "done")
    /\ UNCHANGED <<op, maxSeq, userMin, hasRead, cache, msgDel, userDel, mongoVars, feedVars, blk,
                   view, todo, num>>

\* UserMsgsDestruct: the messages up to the first that is missing or has not
\* expired; those after the last run (op[k].since) that the user had not deleted
\* are collected (todo).
DestructDoc(k, d) ==
    LET keep == { i \in Index : ~Expired(k, slot[d][i].msg) }
        old == { i \in Index : \A j \in keep : i < j } IN
    /\ Kind(k) = "destruct" /\ pc[k] \in {"start", "look"}
    /\ op[k].upTo <= maxSeq
    /\ IsNth(d, num[k])
    /\ todo' = [todo EXCEPT ![k] = @ \cup
                  { m \in { slot[d][i].msg : i \in { j \in old : op[k].user \notin slot[d][j].del } } :
                      m > op[k].since }]
    /\ num' = [num EXCEPT ![k] = @ + 1]
    /\ Go(k, IF keep = {} THEN "look" ELSE "getMin")
    /\ UNCHANGED <<op, redisVars, mongoVars, feedVars, blk, view>>
DestructNoDoc(k) ==
    /\ Kind(k) = "destruct" /\ pc[k] \in {"start", "look"}
    /\ op[k].upTo <= maxSeq
    /\ num[k] >= Cardinality(docs)
    /\ Go(k, "getMin")
    /\ UNCHANGED <<op, redisVars, mongoVars, feedVars, blk, view, todo, num>>
\* The user's lower limit is read and compared, then set.
DestructGetMin(k) ==
    /\ pc[k] = "getMin"
    /\ Go(k, IF todo[k] # {} /\ userMin[op[k].user] < LastOf(todo[k]) + 1 THEN "moveMin" ELSE "done")
    /\ UNCHANGED <<op, redisVars, mongoVars, feedVars, blk, view, todo, num>>
DestructSetMin(k) ==
    /\ pc[k] = "moveMin"
    /\ userMin' = [userMin EXCEPT ![op[k].user] = LastOf(todo[k]) + 1]
    /\ Go(k, "done")
    /\ UNCHANGED <<op, maxSeq, minSeq, hasRead, cache, msgDel, userDel, mongoVars, feedVars, blk,
                   view, todo, num>>

Cron(k) ==
    \/ PurgeStarts(k) \/ PurgeExpired(k) \/ PurgeDocs(k) \/ PurgeCache(k)
    \/ PurgeSetsMin(k)
    \/ \E d \in docs : PurgeDoc(k, d) \/ DestructDoc(k, d)
    \/ DestructNoDoc(k) \/ DestructGetMin(k) \/ DestructSetMin(k)

-----------------------------------------------------------------------------
(* clearConversation and the read marks of as_read.go.                     *)

\* Mutant: the clear hides one message more than was sent.
HideOneMore(n) == n + 2
\* getMinSeqs.
AfterLast(n) == n + 1

\* GetMaxSeqs leaves a conversation without MAX_SEQ out.
ClearGetMax(k) ==
    /\ Kind(k) \in {"clearSelf", "clearAll"} /\ pc[k] = "start"
    /\ num' = [num EXCEPT ![k] = maxSeq]
    /\ Go(k, IF maxSeq = 0 THEN "done" ELSE "hide")
    /\ UNCHANGED <<op, redisVars, mongoVars, feedVars, blk, view, todo>>
ClearSetMin(k) ==
    /\ pc[k] = "hide"
    /\ IF Kind(k) = "clearSelf"
       THEN userMin' = [userMin EXCEPT ![op[k].user] = AfterLast(num[k])] /\ UNCHANGED minSeq
       ELSE minSeq' = AfterLast(num[k]) /\ UNCHANGED userMin
    /\ Go(k, "setRead")
    /\ UNCHANGED <<op, maxSeq, hasRead, cache, msgDel, userDel, mongoVars, feedVars, blk, view, todo, num>>

\* The seqs a mark call marks in MongoDB, and the position it sets.
MarkTo(k) == IF Kind(k) \in {"clearSelf", "clearAll"} THEN num[k] ELSE LastOf(op[k].seqs)

\* MarkMsgsAsRead and SetConversationHasReadSeq refuse a seq above MAX_SEQ.
MarkCheckMax(k) ==
    /\ Kind(k) \in {"markMsgs", "setRead"} /\ pc[k] = "start"
    /\ IF MarkTo(k) > maxSeq THEN Go(k, "failed")
       ELSE Go(k, IF Kind(k) = "markMsgs" THEN "mark" ELSE "setRead")
    /\ todo' = [todo EXCEPT ![k] = op[k].seqs]
    /\ UNCHANGED <<op, redisVars, mongoVars, feedVars, blk, view, num>>

\* GetHasReadSeq: MarkMsgsAsRead reads it after the messages were marked, the
\* other two before.
MarkGetRead(k) ==
    LET u == op[k].user IN
    /\ \/ Kind(k) = "markMsgs" /\ pc[k] = "getRead"
       \/ Kind(k) \in {"markConv", "readSeq"} /\ pc[k] = "start" /\ MarkTo(k) <= maxSeq
    /\ num' = [num EXCEPT ![k] = hasRead[u]]
    /\ todo' = [todo EXCEPT ![k] =
                  IF Kind(k) = "markConv" THEN (hasRead[u] + 1 .. MarkTo(k)) \cup op[k].seqs ELSE {}]
    /\ Go(k, IF Kind(k) = "markConv" THEN "mark"
             ELSE IF MarkTo(k) > hasRead[u] THEN "setRead" ELSE "done")
    /\ UNCHANGED <<op, redisVars, mongoVars, feedVars, blk, view>>

\* MarkSingleChatMsgsAsRead: is_read of the slots whose message another user
\* sent; a slot without a message matches as well.
MarkDoc(k, d) ==
    LET S == InDoc(todo[k], d) IN
    /\ pc[k] = "mark" /\ S # {}
    /\ slot' = [slot EXCEPT ![d] = [i \in Index |->
         LET sl == slot[d][i] IN
         IF /\ d \in docs /\ \E s \in S : IndexOf(s) = i
            /\ sl.msg = 0 \/ Sender[sl.msg] # op[k].user
         THEN [sl EXCEPT !.isRead = TRUE] ELSE sl]]
    /\ view' = [view EXCEPT ![k].seqs = @ \cup { s \in S : d \in docs }]
    /\ todo' = [todo EXCEPT ![k] = @ \ S]
    /\ UNCHANGED <<op, redisVars, docs, feedVars, blk, pc, hist, num>>
MarkedAll(k) ==
    /\ pc[k] = "mark" /\ todo[k] = {}
    /\ Go(k, IF Kind(k) = "markMsgs" THEN "getRead"
             ELSE IF MarkTo(k) > num[k] THEN "setRead" ELSE "done")
    /\ UNCHANGED <<op, redisVars, mongoVars, feedVars, blk, view, todo, num>>

\* SetHasReadSeq, UserSetHasReadSeqs.
SetHasRead(k) ==
    /\ pc[k] = "setRead"
    /\ hasRead' = [hasRead EXCEPT ![op[k].user] = MarkTo(k)]
    /\ Go(k, "done")
    /\ UNCHANGED <<op, maxSeq, minSeq, userMin, cache, msgDel, userDel, mongoVars, feedVars, blk,
                   view, todo, num>>

Mark(k) ==
    \/ ClearGetMax(k) \/ ClearSetMin(k)
    \/ MarkCheckMax(k) \/ MarkGetRead(k) \/ MarkedAll(k) \/ SetHasRead(k)
    \/ \E d \in Docs : MarkDoc(k, d)

-----------------------------------------------------------------------------
Numbering ==
    \/ \E n \in 1 .. MaxBatch : CacheBatch(n)
    \/ NumberBatch \/ SenderHasRead \/ QueueBatch

Insert == ConsumeBatch \/ BlockUpdate(Consumer) \/ BlockCreate(Consumer)
          \/ DropFromCache \/ ReadDelList \/ ClearDelList \/ BatchDone

Run(k) ==
    \/ Read(k) \/ Delete(k) \/ Cron(k) \/ Mark(k)
    \/ k \in Writers /\ (BlockUpdate(k) \/ BlockCreate(k))

Next ==
    \/ Numbering
    \/ Insert
    \/ \E q \in 0 .. qpos : Redeliver(q)
    \/ \E k \in Call : Run(k)

Spec == Init /\ [][Next]_vars

\* The consumers run until their topics are drained, and a call that was taken
\* up keeps running; whether a client ever calls is its own choice.
Continue(k) == pc[k] # "start" /\ Run(k)
FairSpec == Spec /\ WF_vars(NumberBatch \/ SenderHasRead \/ QueueBatch) /\ WF_vars(Insert)
                 /\ \A k \in Call : WF_vars(Continue(k))

-----------------------------------------------------------------------------
(* Properties.                                                             *)

Begun(k) == pc[k] # "start"
\* Call j takes message s away from everyone.
Covers(j, s) ==
    \/ Kind(j) = "deleteAll" /\ s \in op[j].seqs
    \/ Kind(j) = "purge" /\ (s <= op[j].upTo \/ op[j].clean)

\* A purge that left the cache alone is over.
Purged(j) == Kind(j) = "purge" /\ ~op[j].clean /\ pc[j] = "done"

\* BatchInsertBlock against its own retry, a revoke that creates the document
\* first, a redelivered batch and the purge: a message at or above MIN_SEQ that
\* nobody removed is in the cache or in its slot, and the slot can be read.
Readable ==
    \A s \in 1 .. maxSeq :
        \/ s \in cache
        \/ Stored(s) /\ ~ReadFails(s)
        \/ \E j \in Call : Begun(j) /\ Covers(j, s) /\ ~(Purged(j) /\ s >= minSeq)

\* What a call wrote beside a message is not lost when the message is written
\* before or after it: a revoke and a read mark that were acknowledged are in
\* the slot (a read mark only if its document existed).
MarksLast ==
    \A k \in Call : pc[k] = "done" =>
        \A s \in Seqs : (\A j \in Call : Covers(j, s) => ~Begun(j)) =>
            /\ (Kind(k) = "revoke" /\ s = op[k].end) => SlotOf(s).revoke
            /\ (Kind(k) \in {"markMsgs", "markConv"} /\ s \in view[k].seqs) =>
                  (SlotOf(s).isRead \/ Sender[s] = op[k].user)

Answer(k) == { e.seq : e \in view[k].got }
\* No removal overlaps pull k: it ended before k began or began after k ended.
Quiet(k, s) ==
    \A j \in Call : Covers(j, s) =>
        \/ j \notin hist[k].during
        \/ Kind(j) = "purge" /\ j \in hist[k].before

\* The seqs a pull may look at: its page and those below it that may replace
\* deleted ones.
Window(k) == view[k].begin .. view[k].end

\* A pull that no removal overlaps succeeds and answers every message of its
\* page that the user has not deleted, wherever the message was when it looked:
\* in the cache, moving to MongoDB, or in a document a revoke created.
PullComplete ==
    \A k \in Call : Kind(k) = "pull" /\ Ended(k) /\ view[k].end # 0
                      /\ (\A s \in Window(k) : Quiet(k, s)) =>
        /\ pc[k] = "done"
        /\ \A s \in Page(k) :
             \/ s \in Answer(k)
             \/ \E j \in hist[k].during : /\ Kind(j) = "deleteSelf" /\ s \in op[j].seqs
                                          /\ op[j].user = op[k].user

\* A message that had left the cache when its user deleted it is in none of the
\* user's later pulls, whatever is written to its slot in the meantime.
DeletedStaysHidden ==
    \A j, k \in Call :
        Kind(j) = "deleteSelf" /\ k \in Readers /\ op[j].user = op[k].user
        /\ j \in hist[k].before /\ pc[j] = "done" /\ Ended(k) =>
        \A s \in op[j].seqs \ view[j].seqs :
            s \notin Answer(k) \/ \E i \in Call : Begun(i) /\ Covers(i, s)

\* A pull that begins after a revoke was acknowledged and reads the message from
\* MongoDB shows it as revoked.
RevokedIsShown ==
    \A j, k \in Call :
        Kind(j) = "revoke" /\ k \in Readers /\ j \in hist[k].before /\ pc[j] = "done" =>
        \A e \in view[k].got : e.seq = op[j].end =>
            \/ e.how \in {"revoked", "cached"}
            \/ \E i \in Call : Begun(i) /\ Covers(i, e.seq)

\* The limits never run ahead of the numbered messages: nothing is hidden or
\* counted as read that was not sent, however clears, marks, purges and the
\* numbering interleave.
LimitsInRange ==
    /\ minSeq <= maxSeq + 1
    /\ \A u \in User : userMin[u] <= maxSeq + 1 /\ hasRead[u] <= maxSeq

\* Every call that was taken up answers: no retry of BatchInsertBlock goes on for
\* ever, nor does a read, but for the one that replaces a deleted seq of its page
\* by another deleted one (GetMsgBySeqsRange).
EveryCallReturns == \A k \in Call : Begun(k) ~> Ended(k) \/ pc[k] = "spin"

\* Every numbered message reaches its slot and leaves the cache, unless it is
\* removed.
EverythingStored ==
    \A s \in Seqs : (s <= maxSeq) ~>
        \/ Stored(s) /\ s \notin cache
        \/ \E j \in Call : Begun(j) /\ Covers(j, s)

=============================================================================
