------------------------------- MODULE Push ---------------------------------
(***************************************************************************)
(* The push service (internal/push): the consumer of the push topic, one   *)
(* goroutine per message, which asks the group service who the members     *)
(* are, hands the message to the gateways and to the offline push vendor,  *)
(* and finishes what the group service began when a member left or a group *)
(* was dismissed.                                                          *)
(*                                                                         *)
(* One group and one topic.  The group service is here only as far as push *)
(* depends on it: the member rows, the entries of GROUP_MEMBER_IDS and     *)
(* GROUP_MEMBERS_HASH in Redis (rockscache with strong consistency), the   *)
(* max_seq of a leaver.  Module Group has its calls in full.               *)
(***************************************************************************)
EXTENDS Integers, Sequences, FiniteSets, SequencesExt

CONSTANTS
    User,
    Owner,         \* the group's owner
    Gateway,       \* msggateway processes
    Device,        \* the users' devices
    UserOf,        \* UserOf[d]: whose device d is
    PlatformOf,    \* PlatformOf[d]: "ios", "android" or "web"
    HostOf,        \* HostOf[u]: the gateway k8s discovery maps u to by hash
    Scenario,      \* where to start and what to serve: records k8s, gateway, muted, member,
                   \* dev, ask, and the bounds moves, faults, crashes: changes of the
                   \* devices' connections; failed gateway calls, writes and vendor calls
                   \* and messages that are too old; crashes of the push process
    MaxMsgs        \* bound: messages in the topic

Request == [kind : {"chat", "single", "quit", "kick", "join", "dismiss"}, by : User, user : User]

ASSUME ConstantsAssumption ==
    /\ Owner \in User
    /\ UserOf \in [Device -> User]
    /\ PlatformOf \in [Device -> {"ios", "android", "web"}]
    /\ HostOf \in [User -> Gateway]
    /\ \A s \in Scenario :
           /\ s.k8s \in BOOLEAN /\ s.member \subseteq User /\ s.ask \in Seq(Request)
           /\ s.moves \in Nat /\ s.faults \in Nat /\ s.crashes \in Nat
    /\ MaxMsgs \in Nat

VARIABLES
    cfg,        \* the scenario: k8s or zookeeper discovery, the gateways it knows, muted: the
                \* users whose conversation row says not to notify them, and the bounds
    joined,     \* joined[u]: join time of u's group_member row, 0 without one
    was,        \* was[u]: join time in the row last deleted, which GROUP_MEMBER_INFO may
                \* hold until its flush
    clock,      \* the last join time
    hashE,      \* the entry of GROUP_MEMBERS_HASH
    idsE,       \* the entry of GROUP_MEMBER_IDS
    dismissed,  \* the group's status
    maxSeq,     \* MAX_SEQ of the group's conversation
    convMax,    \* convMax[u]: max_seq of u's conversation row, 0 unlimited
    svc,        \* what the group service's call has still to do
    asked,      \* the request it serves
    svcMax,     \* the MAX_SEQ it read
    ask,        \* the requests not yet served
    log,        \* the push topic
    next,       \* the first message not consumed; the offsets before it are marked
    committed,  \* the offset the consumer last started from
    local,      \* GroupLocalCache: hash and userIDs
    pc, hash, list, val,    \* per message: the goroutine's position and locals
    to,         \* to[m]: the users the gateways are asked to push to
    wait,       \* wait[m]: the gateways that have not answered
    got,        \* got[m]: wsResults, a set of records gw, user, online, first, failed
    latest,     \* latest[c][u]: latest_msg_send_time of u's row of the group's or the
                \* single conversation, as a place in the topic
    dev,        \* dev[d]: at (a gateway or "none"), background, closed
    moves, faults, crashes,
    reached,    \* history: users on one of whose phones a write succeeded
    handed,     \* history: users handed to the vendor
    excused,    \* history: pushes with a failed vendor call, or no gateway that answered
    owed,       \* history: owed[m]: members since before the push of m began
    barred,     \* history: barred[m]: outside the group since before it began
    stale,      \* history: pushes whose hash or list comes from ids that were read between
                \* the write of a row and the flush of the ids
    late,       \* history: pushes whose hash is older than the last change of the members
    spoilt,     \* history: "hash": so is GROUP_MEMBERS_HASH, "list": so is the local list;
                \* "pair": the local list was read after a change its hash does not show
    leftAt,     \* history: leftAt[u]: MAX_SEQ when u's row was deleted, -1 if it never was
    rejoined    \* history: users back in before the push of their leaving ended, or when a
                \* restart repeats it

groupVars == <<joined, was, clock, hashE, idsE, dismissed, maxSeq, convMax>>
svcVars   == <<svc, asked, svcMax, ask>>
topicVars == <<log, next, committed>>
runVars   == <<pc, hash, list, val, to, wait, got>>
devVars   == <<dev, moves>>
pushHist  == <<reached, handed, excused>>
listHist  == <<owed, barred, stale, late, spoilt>>
leaveHist == <<leftAt, rejoined>>
vars == <<cfg, groupVars, svcVars, topicVars, local, runVars, latest, devVars,
          faults, crashes, pushHist, listHist, leaveHist>>

-----------------------------------------------------------------------------
(* Messages.  "leftMsg" and "goneMsg" are the stored, numbered copies of   *)
(* the notifications of a leaving and of a dismissal; "leftTip" and        *)
(* "goneTip" the notifications themselves (isSendMsg: true,                *)
(* reliabilityLevel: 1 in notification.yaml).                              *)

Kinds     == {"single", "chat", "leftMsg", "leftTip", "goneMsg", "goneTip"}
Numbered  == {"chat", "leftMsg", "goneMsg"}
LeftKinds == {"leftMsg", "leftTip"}
Msg       == 1..MaxMsgs

NoRequest == [kind |-> "none", by |-> Owner, user |-> Owner]
Absent    == [is |-> "absent"]
Held(m)   == [is |-> "held", by |-> m]
Full(v)   == [is |-> "full", value |-> v]
NoHash    == {<<"none", 0>>}
NoList    == [hash |-> NoHash, ids |-> {}]

Members   == { u \in User : joined[u] # 0 }
Ended(m)  == pc[m] \in {"done", "lost"}
Running(m) == pc[m] # "none" /\ ~Ended(m)

\* A membership row is written and its entries are not all flushed.
SvcWindow     == svc # <<>> /\ Head(svc) \in {"flushHash", "flushIds", "flushInfo"}
DismissWindow == \E m \in Msg : pc[m] \in {"dismissIds", "dismissHash", "dismissInfo"}
Window        == SvcWindow \/ DismissWindow
Changing == (IF SvcWindow THEN {asked.user} ELSE {})
            \cup (IF DismissWindow THEN User ELSE {})
\* The part of it in which GROUP_MEMBER_IDS, or GROUP_MEMBERS_HASH, is not flushed.
IdsBehind == \/ svc # <<>> /\ Head(svc) \in {"flushHash", "flushIds"}
             \/ \E m \in Msg : pc[m] = "dismissIds"
Unhashed  == (IF svc # <<>> /\ Head(svc) = "flushHash" THEN {asked.user} ELSE {})
             \cup (IF \E m \in Msg : pc[m] \in {"dismissIds", "dismissHash"} THEN User ELSE {})
\* The pushes that have read the hash or the ids for it, and not yet the list.
WithHash  == { m \in Msg : pc[m] \in {"hashInfo", "compare", "ids"} }

Init ==
    \E s \in Scenario :
        /\ cfg = s
        /\ joined = [u \in User |-> IF u \in s.member THEN 1 ELSE 0]
        /\ was = [u \in User |-> 0]
        /\ clock = 1
        /\ hashE = Absent /\ idsE = Absent
        /\ dismissed = FALSE
        /\ maxSeq = 1
        /\ convMax = [u \in User |-> 0]
        /\ svc = <<>> /\ asked = NoRequest /\ svcMax = 0 /\ ask = s.ask
        /\ log = <<>> /\ next = 1 /\ committed = 1
        /\ local = NoList
        /\ pc = [m \in Msg |-> "none"]
        /\ hash = [m \in Msg |-> NoHash]
        /\ list = [m \in Msg |-> {}]
        /\ val = [m \in Msg |-> 0]
        /\ to = [m \in Msg |-> {}]
        /\ wait = [m \in Msg |-> {}]
        /\ got = [m \in Msg |-> {}]
        /\ latest = [c \in {"sg", "si"} |-> [u \in User |-> 0]]
        /\ dev = s.dev
        /\ moves = 0 /\ faults = 0 /\ crashes = 0
        /\ reached = [m \in Msg |-> {}]
        /\ handed = [m \in Msg |-> {}]
        /\ excused = {}
        /\ owed = [m \in Msg |-> {}] /\ barred = [m \in Msg |-> {}]
        /\ stale = {} /\ late = {} /\ spoilt = {}
        /\ leftAt = [u \in User |-> -1]
        /\ rejoined = {}

-----------------------------------------------------------------------------
(* The group service and the senders, one request after the other.         *)

Entry(k, r, s) == [kind |-> k, from |-> r.by, user |-> r.user, seq |-> s]

\* What a request does once its checks have passed.
Steps(r) ==
    CASE r.kind \in {"chat", "single"} -> <<"send">>
      [] r.kind \in {"quit", "kick"} ->
             <<"delete", "flushHash", "flushIds", "flushInfo", "notify", "readMax", "setMax">>
      [] r.kind = "join"    -> <<"create", "flushHash", "flushIds", "flushInfo", "lift">>
      [] r.kind = "dismiss" -> <<"mark", "notify">>

Permitted(r) ==
    CASE r.kind = "single" -> TRUE
      [] r.kind = "chat" -> r.by \in Members /\ ~dismissed
      [] r.kind = "quit" -> r.user \in Members \ {Owner}
      [] r.kind = "kick" -> r.user \in Members \ {Owner} /\ Owner \in Members
      [] r.kind = "join" -> r.user \notin Members /\ ~dismissed
      [] r.kind = "dismiss" -> Owner \in Members /\ ~dismissed

Serve ==
    /\ svc = <<>> /\ ask # <<>>
    /\ ask' = Tail(ask)
    /\ asked' = Head(ask)
    /\ svc' = IF Permitted(Head(ask)) THEN Steps(Head(ask)) ELSE <<>>
    /\ UNCHANGED <<cfg, groupVars, svcMax, topicVars, local, runVars, latest, devVars,
                   faults, crashes, pushHist, listHist, leaveHist>>

SvcStep(s) == svc # <<>> /\ Head(svc) = s /\ svc' = Tail(svc)
RestUnchanged == UNCHANGED <<cfg, asked, ask, next, committed, local, runVars, latest,
                             devVars, faults, crashes, pushHist>>

\* A message's numbering and its way to the push topic (module MsgTransfer).
Send ==
    /\ SvcStep("send") /\ Len(log) < MaxMsgs
    /\ maxSeq' = IF asked.kind \in Numbered THEN maxSeq + 1 ELSE maxSeq
    /\ log' = Append(log, Entry(asked.kind, asked, maxSeq'))
    /\ UNCHANGED <<joined, was, clock, hashE, idsE, dismissed, convMax, svcMax, listHist, leaveHist>>
    /\ RestUnchanged

\* The stored copy enters the topic first, then the notification.
Notify ==
    /\ SvcStep("notify") /\ Len(log) + 1 < MaxMsgs
    /\ maxSeq' = maxSeq + 1
    /\ LET k == IF asked.kind = "dismiss" THEN <<"goneMsg", "goneTip">>
                ELSE <<"leftMsg", "leftTip">>
       IN log' = log \o <<Entry(k[1], asked, maxSeq'), Entry(k[2], asked, 0)>>
    /\ UNCHANGED <<joined, was, clock, hashE, idsE, dismissed, convMax, svcMax, listHist, leaveHist>>
    /\ RestUnchanged

WriteRow ==
    /\ \/ /\ SvcStep("delete")
          /\ joined' = [joined EXCEPT ![asked.user] = 0]
          /\ was' = [was EXCEPT ![asked.user] = joined[asked.user]]
          /\ leftAt' = [leftAt EXCEPT ![asked.user] = maxSeq]
          /\ clock' = clock
       \/ /\ SvcStep("create")
          /\ joined' = [joined EXCEPT ![asked.user] = clock + 1]
          /\ clock' = clock + 1
          /\ UNCHANGED <<was, leftAt>>
    /\ owed' = [m \in Msg |-> owed[m] \ {asked.user}]
    /\ barred' = [m \in Msg |-> barred[m] \ {asked.user}]
    /\ late' = late \cup WithHash
    /\ UNCHANGED <<hashE, idsE, dismissed, maxSeq, convMax, svcMax, log, stale, spoilt, rejoined>>
    /\ RestUnchanged

\* ExecDel marks the keys as deleted one after the other, the hash first.
Flush ==
    /\ \/ SvcStep("flushHash") /\ hashE' = Absent /\ idsE' = idsE
       \/ SvcStep("flushIds") /\ idsE' = Absent /\ hashE' = hashE
       \/ SvcStep("flushInfo") /\ UNCHANGED <<hashE, idsE>>
    /\ UNCHANGED <<joined, was, clock, dismissed, maxSeq, convMax, svcMax, log, listHist, leaveHist>>
    /\ RestUnchanged

\* CreateGroupChatConversation sets the max_seq of a row it finds to 0.
Lift ==
    /\ SvcStep("lift")
    /\ convMax' = [convMax EXCEPT ![asked.user] = 0]
    /\ rejoined' = IF \E m \in 1..Len(log) : /\ log[m].kind \in LeftKinds
                                             /\ log[m].user = asked.user
                                             /\ ~Ended(m)
                   THEN rejoined \cup {asked.user} ELSE rejoined
    /\ UNCHANGED <<joined, was, clock, hashE, idsE, dismissed, maxSeq, svcMax, log, listHist, leftAt>>
    /\ RestUnchanged

MarkDismissed ==
    /\ SvcStep("mark")
    /\ dismissed' = TRUE
    /\ UNCHANGED <<joined, was, clock, hashE, idsE, maxSeq, convMax, svcMax, log, listHist, leaveHist>>
    /\ RestUnchanged

\* deleteMemberAndSetConversationSeq of the group service.
SetLeaverMax ==
    /\ \/ SvcStep("readMax") /\ svcMax' = maxSeq /\ convMax' = convMax
       \/ SvcStep("setMax") /\ convMax' = [convMax EXCEPT ![asked.user] = svcMax]
          /\ svcMax' = svcMax
    /\ UNCHANGED <<joined, was, clock, hashE, idsE, dismissed, maxSeq, log, listHist, leaveHist>>
    /\ RestUnchanged

GroupService == \/ Serve \/ Send \/ Notify \/ WriteRow \/ Flush
                \/ Lift \/ MarkDismissed \/ SetLeaverMax

-----------------------------------------------------------------------------
(* The consumer and the goroutine of a message, up to the list of users.   *)

GroupUnchanged == UNCHANGED <<cfg, clock, dismissed, maxSeq, svcVars, log, dev, moves, crashes,
                              leaveHist>>

\* ConsumeClaim marks the message and starts a goroutine.
Consume ==
    /\ next <= Len(log) /\ ~Running(next)
    /\ pc' = [pc EXCEPT ![next] = "start"]
    /\ next' = next + 1
    /\ UNCHANGED <<joined, was, hashE, idsE, convMax, committed, local, hash, list, val, to, wait,
                   got, latest, faults, pushHist, listHist>>
    /\ GroupUnchanged

Hosts(U) == IF cfg.k8s THEN { HostOf[u] : u \in U } ELSE IF U = {} THEN {} ELSE cfg.gateway

\* Where the goroutine goes with the users it is to push to.
StartOnline(m, U) ==
    /\ list' = [list EXCEPT ![m] = U]
    /\ to' = [to EXCEPT ![m] = U]
    /\ wait' = [wait EXCEPT ![m] = Hosts(U)]
    /\ pc' = [pc EXCEPT ![m] = IF Hosts(U) = {} THEN "offline" ELSE "online"]

\* handleMs2PsChat: nothing for a message older than 30 s; a single chat's message
\* goes to the receiver and, synchronised, to the sender's other devices.
Begin(m) ==
    /\ pc[m] = "start"
    /\ \/ /\ faults < cfg.faults
          /\ faults' = faults + 1
          /\ pc' = [pc EXCEPT ![m] = "done"]
          /\ UNCHANGED <<list, to, wait, owed, barred>>
       \/ /\ log[m].kind = "single"
          /\ StartOnline(m, {log[m].user, log[m].from})
          /\ UNCHANGED <<faults, owed, barred>>
       \/ /\ log[m].kind # "single"
          /\ pc' = [pc EXCEPT ![m] = "hash"]
          /\ owed' = [owed EXCEPT ![m] = Members \ Changing]
          /\ barred' = [barred EXCEPT ![m] = User \ (Members \cup Changing)]
          /\ UNCHANGED <<faults, list, to, wait>>
    /\ UNCHANGED <<joined, was, hashE, idsE, convMax, next, committed, local, hash, val, got, latest,
                   pushHist, stale, late, spoilt>>
    /\ GroupUnchanged

\* A set with m in it or not.
Mark(S, m, in) == IF in THEN S \cup {m} ELSE S \ {m}

\* GetGroupAbstractInfo: the hash entry, or a lock on it to compute the hash.
FetchHash(m) ==
    /\ pc[m] = "hash"
    /\ \/ /\ hashE.is = "full"
          /\ hash' = [hash EXCEPT ![m] = hashE.value]
          /\ pc' = [pc EXCEPT ![m] = "compare"]
          /\ hashE' = hashE
          /\ stale' = Mark(stale, m, "hash" \in spoilt)
          /\ late' = Mark(late, m, Unhashed # {})
       \/ /\ hashE.is = "absent"
          /\ hashE' = Held(m)
          /\ pc' = [pc EXCEPT ![m] = "hashIds"]
          /\ hash' = hash
          /\ stale' = stale \ {m} /\ late' = late \ {m}
    /\ UNCHANGED <<joined, was, idsE, convMax, next, committed, local, list, val, to, wait, got, latest,
                   faults, pushHist, owed, barred, spoilt>>
    /\ GroupUnchanged

\* GetGroupMemberIDs: the ids entry, or the rows, which fill it.
FetchIds == IF idsE.is = "full" THEN idsE.value ELSE Members
FillIds(m) ==
    /\ list' = [list EXCEPT ![m] = FetchIds]
    /\ idsE' = Full(FetchIds)
    /\ stale' = Mark(stale, m, IdsBehind /\ idsE.is = "full")

HashIds(m) ==
    /\ pc[m] = "hashIds"
    /\ FillIds(m)
    /\ pc' = [pc EXCEPT ![m] = "hashInfo"]
    /\ UNCHANGED <<joined, was, hashE, convMax, next, committed, local, hash, val, to, wait, got, latest,
                   faults, pushHist, owed, barred, late, spoilt>>
    /\ GroupUnchanged

\* GetGroupHash: the md5 of the members' rows, join times included.  A row deleted a
\* moment ago may still be cached; an id without a row is skipped.
Infos(u) == {joined[u]} \cup (IF Window /\ joined[u] = 0 THEN {was[u]} ELSE {})
HashOf(ids, row) == { <<u, row[u]>> : u \in { x \in ids : row[x] # 0 } }

\* The entry is written only while this fetch's lock is on it.
HashInfo(m) ==
    /\ pc[m] = "hashInfo"
    /\ \E row \in [User -> 0..clock] :
           /\ \A u \in User : row[u] \in Infos(u)
           /\ hash' = [hash EXCEPT ![m] = HashOf(list[m], row)]
    /\ hashE' = IF hashE = Held(m) THEN Full(hash'[m]) ELSE hashE
    /\ spoilt' = IF hashE = Held(m) THEN Mark(spoilt, "hash", m \in stale) ELSE spoilt
    /\ pc' = [pc EXCEPT ![m] = "compare"]
    /\ UNCHANGED <<joined, was, idsE, convMax, next, committed, local, list, val, to, wait, got, latest,
                   faults, pushHist, owed, barred, stale, late>>
    /\ GroupUnchanged

\* The lock of a fetch that died with its process expires.
LockExpires ==
    /\ hashE.is = "held" /\ pc[hashE.by] \notin {"hashIds", "hashInfo"}
    /\ hashE' = Absent
    /\ UNCHANGED <<joined, was, idsE, convMax, next, committed, local, runVars, latest, faults,
                   pushHist, listHist>>
    /\ GroupUnchanged

\* The one who left is told too.
Targets(m, ids) == ids \cup (IF log[m].kind \in LeftKinds THEN {log[m].user} ELSE {})

UseAnyList(m) == local # NoList
UseLocal(m) == local.hash = hash[m]

\* A list that is not the one it should be; the history keeps only what it must contain
\* and must not contain if the reads were in order.
Excuse(m, o, b) ==
    /\ owed' = [owed EXCEPT ![m] = IF o THEN {} ELSE @]
    /\ barred' = [barred EXCEPT ![m] = IF b THEN {} ELSE @]

Compare(m) ==
    /\ pc[m] = "compare"
    /\ \/ /\ UseLocal(m)
          /\ StartOnline(m, Targets(m, local.ids))
          /\ Excuse(m, m \in stale \/ "list" \in spoilt,
                       m \in stale \/ "list" \in spoilt \/ "pair" \in spoilt)
       \/ /\ ~UseLocal(m)
          /\ pc' = [pc EXCEPT ![m] = "ids"]
          /\ UNCHANGED <<list, to, wait, owed, barred>>
    /\ UNCHANGED <<joined, was, hashE, idsE, convMax, next, committed, local, hash, val, got, latest,
                   faults, pushHist, stale, late, spoilt>>
    /\ GroupUnchanged

\* GetGroupMemberUserIDs.
ReadIds(m) ==
    /\ pc[m] = "ids"
    /\ FillIds(m)
    /\ late' = IF m \in stale THEN late \cup {m} ELSE late
    /\ pc' = [pc EXCEPT ![m] = "store"]
    /\ UNCHANGED <<joined, was, hashE, convMax, next, committed, local, hash, val, to, wait, got, latest,
                   faults, pushHist, owed, barred, spoilt>>
    /\ GroupUnchanged

\* The answer is kept with the hash read before it.
StoreIds(m) ==
    /\ pc[m] = "store"
    /\ local' = [hash |-> hash[m], ids |-> list[m]]
    /\ StartOnline(m, Targets(m, list[m]))
    /\ spoilt' = Mark(Mark(spoilt, "list", m \in stale), "pair", m \in late)
    /\ Excuse(m, m \in stale, m \in stale)
    /\ UNCHANGED <<joined, was, hashE, idsE, convMax, next, committed, hash, val, got, latest, faults,
                   pushHist, stale, late>>
    /\ GroupUnchanged

-----------------------------------------------------------------------------
(* Online and offline push.                                                *)

ToHost(m, g) == IF cfg.k8s THEN { u \in to[m] : HostOf[u] = g } ELSE to[m]
Phones == {"ios", "android"}
ConnsOf(u, g) == { d \in Device : UserOf[d] = u /\ dev[d].at = g }
Skipped(d)   == dev[d].background /\ PlatformOf[d] = "ios"

\* SuperGroupOnlineBatchPushOneMsg for one user: bad are the connections whose write
\* fails; a closed one takes the message and drops it.  RecvPlatFormID of Resp[0],
\* the first of the user's connections with an entry, is f.
Written(u, g, bad) == { d \in ConnsOf(u, g) : ~Skipped(d) /\ d \notin bad }
WithEntry(u, g, bad) == { d \in ConnsOf(u, g) : d \notin Written(u, g, bad) \/ PlatformOf[d] \in Phones }
FirstOf(u, g, bad) ==
    LET F == { PlatformOf[d] : d \in WithEntry(u, g, bad) } IN IF F = {} THEN {"none"} ELSE F
OnPhone(u, g, bad) == \E d \in Written(u, g, bad) : PlatformOf[d] \in Phones
Result(u, g, bad, f) ==
    [gw |-> g, user |-> u, online |-> OnPhone(u, g, bad), first |-> f,
     failed |-> { PlatformOf[d] : d \in bad \cap ConnsOf(u, g) }]

\* A gateway's answer to the request, or its failure, which is ignored.
Answer(m, g) ==
    /\ pc[m] \in {"online", "again"} /\ g \in wait[m]
    /\ wait' = [wait EXCEPT ![m] = @ \ {g}]
    /\ pc' = [pc EXCEPT ![m] = IF wait[m] # {g} THEN @
                               ELSE IF @ = "online" THEN "offline" ELSE "defer"]
    /\ \/ /\ faults < cfg.faults
          /\ faults' = faults + 1
          /\ excused' = IF cfg.k8s THEN excused \cup {m} ELSE excused
          /\ UNCHANGED <<got, reached>>
       \/ \E bad \in SUBSET { d \in UNION { ConnsOf(u, g) : u \in ToHost(m, g) } :
                                  ~Skipped(d) /\ ~dev[d].closed } :
            /\ faults + Cardinality(bad) <= cfg.faults
            /\ faults' = faults + Cardinality(bad)
            /\ \E f \in [ToHost(m, g) -> Phones \cup {"web", "none"}] :
                 /\ \A u \in ToHost(m, g) : f[u] \in FirstOf(u, g, bad)
                 /\ got' = [got EXCEPT ![m] = IF pc[m] = "online"
                               THEN @ \cup { Result(u, g, bad, f[u]) : u \in ToHost(m, g) } ELSE @]
            /\ reached' = [reached EXCEPT ![m] = @ \cup { u \in ToHost(m, g) : OnPhone(u, g, bad) }]
            /\ excused' = excused
    /\ UNCHANGED <<joined, was, hashE, idsE, convMax, next, committed, local, hash, list, val, to,
                   latest, handed, listHist>>
    /\ GroupUnchanged

Online(m) == { r.user : r \in { x \in got[m] : x.online } }
\* Push2User takes a user for reached only when Resp[0] is of platform 1.
OnIos(m)  == { r.user : r \in { x \in got[m] : x.online /\ x.first = "ios" } }
Answered(m) == { r.user : r \in got[m] }
WebFailed(m) == { r.user : r \in { x \in got[m] : ~x.online /\ "web" \in x.failed } }

FirstOnly(A, B) == A \ B
\* utils.DifferenceString, what is in one of the lists only.
Difference(A, B) == (A \ B) \cup (B \ A)

\* The users without a successful online push.
NeedOffline(m) == IF cfg.k8s THEN Answered(m) \ Online(m)
                  ELSE Difference({log[m].from} \cup Online(m), list[m])

\* offlinePushMsg of the lists A and B: getui pushes to A, then to B, unless A failed.
Vendor(m, A, B) ==
    \/ /\ handed' = [handed EXCEPT ![m] = @ \cup A \cup B]
       /\ UNCHANGED <<faults, excused>>
    \/ /\ faults < cfg.faults /\ A \cup B # {}
       /\ faults' = faults + 1
       /\ excused' = excused \cup {m}
       /\ \E sent \in {{}} \cup (IF A # {} /\ B # {} THEN {A} ELSE {}) :
              handed' = [handed EXCEPT ![m] = @ \cup sent]

PushAgain(m, U) ==
    /\ to' = [to EXCEPT ![m] = U]
    /\ wait' = [wait EXCEPT ![m] = Hosts(U)]
    /\ pc' = [pc EXCEPT ![m] = IF Hosts(U) = {} THEN "defer" ELSE "again"]

Offline(m) ==
    /\ pc[m] = "offline"
    /\ \/ /\ log[m].kind = "single"
          /\ LET A == OnIos(m)
                 B == (Answered(m) \ A) \ {log[m].from}
             IN IF got[m] = {}
                THEN excused' = excused \cup {m} /\ UNCHANGED <<handed, faults>>
                ELSE Vendor(m, A, B)
          /\ pc' = [pc EXCEPT ![m] = "latest"]
          /\ UNCHANGED <<to, wait>>
       \/ /\ log[m].kind = "chat"
          /\ LET B == NeedOffline(m) \ cfg.muted
             IN IF B = {} THEN /\ pc' = [pc EXCEPT ![m] = "defer"]
                               /\ UNCHANGED <<handed, faults, excused, to, wait>>
                ELSE IF cfg.k8s
                THEN /\ Vendor(m, B, {})
                     /\ pc' = [pc EXCEPT ![m] = "defer"]
                     /\ UNCHANGED <<to, wait>>
                ELSE /\ Vendor(m, {log[m].from} \cup Online(m), B)
                     /\ PushAgain(m, IF excused' = excused THEN B \cap WebFailed(m) ELSE {})
       \/ /\ log[m].kind \notin {"single", "chat"}   \* isOfflinePush is false for them
          /\ pc' = [pc EXCEPT ![m] = "defer"]
          /\ UNCHANGED <<handed, faults, excused, to, wait>>
    /\ UNCHANGED <<joined, was, hashE, idsE, convMax, next, committed, local, hash, list, val, got,
                   latest, reached, listHist>>
    /\ GroupUnchanged

-----------------------------------------------------------------------------
(* What a goroutine does when Push2SuperGroup returns.                     *)

\* DeleteMemberAndSetConversationSeq reads MAX_SEQ; DismissGroup needs an owner.
Defer(m) ==
    /\ pc[m] = "defer"
    /\ val' = [val EXCEPT ![m] = maxSeq]
    /\ pc' = [pc EXCEPT ![m] = IF log[m].kind \in LeftKinds THEN "setMax"
                               ELSE IF log[m].kind = "goneTip" /\ Owner \in Members
                               THEN "dismissRows" ELSE "latest"]
    /\ UNCHANGED <<joined, was, hashE, idsE, convMax, next, committed, local, hash, list, to, wait, got,
                   latest, faults, pushHist, listHist>>
    /\ GroupUnchanged

\* Mutant: the leaver keeps reading without a limit.
NoLimit(m)   == 0
\* The largest seq, read by GetConversationMaxSeq.
LeaverMax(m) == val[m]

SetMax(m) ==
    /\ pc[m] = "setMax"
    /\ convMax' = [convMax EXCEPT ![log[m].user] = LeaverMax(m)]
    /\ pc' = [pc EXCEPT ![m] = "latest"]
    /\ UNCHANGED <<joined, was, hashE, idsE, next, committed, local, hash, list, val, to, wait, got,
                   latest, faults, pushHist, listHist>>
    /\ GroupUnchanged

\* The group service's DismissGroup with deleteMember: rows, then ids, hash and infos.
Dismiss(m) ==
    /\ \/ /\ pc[m] = "dismissRows"
          /\ joined' = [u \in User |-> 0]
          /\ was' = [u \in User |-> IF joined[u] = 0 THEN was[u] ELSE joined[u]]
          /\ owed' = [k \in Msg |-> {}] /\ barred' = [k \in Msg |-> {}]
          /\ late' = late \cup WithHash
          /\ pc' = [pc EXCEPT ![m] = "dismissIds"]
          /\ UNCHANGED <<idsE, hashE>>
       \/ /\ pc[m] = "dismissIds"
          /\ idsE' = Absent
          /\ pc' = [pc EXCEPT ![m] = "dismissHash"]
          /\ UNCHANGED <<joined, was, hashE, owed, barred, late>>
       \/ /\ pc[m] = "dismissHash"
          /\ hashE' = Absent
          /\ pc' = [pc EXCEPT ![m] = "dismissInfo"]
          /\ UNCHANGED <<joined, was, idsE, owed, barred, late>>
       \/ /\ pc[m] = "dismissInfo"
          /\ pc' = [pc EXCEPT ![m] = "latest"]
          /\ UNCHANGED <<joined, was, hashE, idsE, owed, barred, late>>
    /\ UNCHANGED <<convMax, next, committed, local, hash, list, val, to, wait, got, latest,
                   faults, pushHist, stale, spoilt>>
    /\ GroupUnchanged

\* SetConversations for the sender, of sg_ and si_ conversations only.
SetLatest(m) ==
    /\ pc[m] = "latest"
    /\ latest' = CASE log[m].kind = "single"    -> [latest EXCEPT !["si"][log[m].from] = m]
                   [] log[m].kind \in Numbered  -> [latest EXCEPT !["sg"][log[m].from] = m]
                   [] OTHER -> latest
    /\ pc' = [pc EXCEPT ![m] = "done"]
    /\ UNCHANGED <<joined, was, hashE, idsE, convMax, next, committed, local, hash, list, val, to, wait,
                   got, faults, pushHist, listHist>>
    /\ GroupUnchanged

-----------------------------------------------------------------------------
(* Devices and crashes.                                                    *)

\* A device connects, disconnects, goes to the background or is closed by the gateway,
\* which takes it off its table later.
Move(d) ==
    /\ moves < cfg.moves
    /\ \E c \in [at : (IF cfg.k8s THEN {HostOf[UserOf[d]]} ELSE cfg.gateway) \cup {"none"},
                 background : BOOLEAN, closed : BOOLEAN] :
           /\ c # dev[d]
           /\ c.at = "none" => ~c.background /\ ~c.closed
           /\ dev' = [dev EXCEPT ![d] = c]
    /\ moves' = moves + 1
    /\ UNCHANGED <<cfg, groupVars, svcVars, topicVars, local, runVars, latest, faults, crashes,
                   pushHist, listHist, leaveHist>>

\* The goroutines die, and the consumer restarts from the offset c that was committed
\* last; a dismissal they asked for goes on in the group service.
Dismissing(m) == pc[m] \in {"dismissRows", "dismissIds", "dismissHash", "dismissInfo"}
Crash ==
    /\ crashes < cfg.crashes
    /\ crashes' = crashes + 1
    /\ local' = NoList
    /\ \E c \in committed..next :
        /\ committed' = c
        /\ next' = c
        /\ pc' = [m \in Msg |-> IF Dismissing(m) THEN pc[m]
                                ELSE IF m >= c THEN "none"
                                ELSE IF Running(m) THEN "lost" ELSE pc[m]]
        /\ LET Kept(f, none) == [m \in Msg |-> IF pc'[m] \in {"none", "lost"} THEN none ELSE f[m]]
           IN /\ got' = Kept(got, {}) /\ list' = Kept(list, {}) /\ to' = Kept(to, {})
              /\ wait' = Kept(wait, {}) /\ hash' = Kept(hash, NoHash) /\ val' = Kept(val, 0)
        /\ rejoined' = rejoined \cup { u \in Members : \E m \in c..Len(log) :
                                           log[m].kind \in LeftKinds /\ log[m].user = u }
    /\ UNCHANGED <<cfg, groupVars, svcVars, log, latest, devVars, faults, pushHist, listHist,
                   leftAt>>

Settled == /\ svc = <<>> /\ ask = <<>>
           /\ next > Len(log)
           /\ \A m \in Msg : ~Running(m)

Rest == Settled /\ UNCHANGED vars

Goroutine(m) ==
    \/ Begin(m) \/ FetchHash(m) \/ HashIds(m) \/ HashInfo(m) \/ Compare(m) \/ ReadIds(m) \/ StoreIds(m)
    \/ (\E g \in Gateway : Answer(m, g)) \/ Offline(m)
    \/ Defer(m) \/ SetMax(m) \/ Dismiss(m) \/ SetLatest(m)

Next ==
    \/ GroupService
    \/ Consume \/ LockExpires \/ Crash
    \/ \E m \in 1..Len(log) : Goroutine(m)
    \/ \E d \in Device : Move(d)
    \/ Rest

Spec == Init /\ [][Next]_vars

-----------------------------------------------------------------------------
(* Properties.                                                             *)

\* GroupLocalCache with the two cache entries behind it: a push goes to everyone who has
\* been a member since before the push began and to no one who has been outside since
\* then, but for the leaver it tells.  A read of the ids between the write of a member row
\* and their flush spoils the pushes and the entries it reaches; a list read after a change
\* that its hash does not show may name too many once the change is undone.
ListFresh ==
    \A m \in Msg : pc[m] \in {"online", "offline"} /\ log[m].kind # "single" =>
        /\ owed[m] \subseteq list[m]
        /\ list[m] \cap barred[m] \subseteq Targets(m, {})

\* Push2User and Push2SuperGroup: when the push of a chat message ends, each of its
\* receivers has it on a phone, or was handed to the vendor, or has the conversation
\* muted, whatever gateways and devices did meanwhile; unless the vendor failed or (in a
\* single chat, or with k8s discovery) the gateway did.
NoOneForgotten ==
    \A m \in Msg : pc[m] = "done" /\ log[m].kind \in {"single", "chat"} /\ m \notin excused =>
        list[m] \ {log[m].from} \subseteq reached[m] \cup handed[m]
            \cup (IF log[m].kind = "chat" THEN cfg.muted ELSE {})

\* DeleteMemberAndSetConversationSeq runs in the group service and again, later, in the
\* push service, with crashes and redeliveries between.  When all is quiet, one who left
\* can read no further than MAX_SEQ and all it could read when it left; a member can read
\* everything.  Excepted is who came back before the push of its leaving ended or before a
\* restart repeated it, and, in a dismissed group, who lost its row with the group.
LeaverBounded ==
    Settled =>
        \A u \in User \ rejoined :
            /\ u \notin Members /\ leftAt[u] # -1 /\ ~dismissed =>
                   convMax[u] \in leftAt[u]..maxSeq
            /\ u \in Members => convMax[u] = 0
=============================================================================
