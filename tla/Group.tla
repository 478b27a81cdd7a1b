------------------------------- MODULE Group --------------------------------
(***************************************************************************)
(* One group: its row, its members, its join requests and what the calls   *)
(* of internal/rpc/group do to them, through controller/group.go, the      *)
(* cache-aside cache of cache/group.go and the seq limits that joining and *)
(* leaving give a user (controller/conversation.go, msg cache); and        *)
(* messageVerification of internal/rpc/msg/verify.go, which lets a member's*)
(* message pass by the cached rows.                                        *)
(*                                                                         *)
(* A call first reads, key by key, then writes, step by step.  Every Redis *)
(* and MongoDB command is a step of its own.  MongoDB is the standalone    *)
(* server of docker-compose.yml, for which tx.Transaction runs the         *)
(* function it is given as it is: a failing step undoes nothing.           *)
(***************************************************************************)
EXTENDS Integers, Sequences, FiniteSets, SequencesExt

CONSTANTS
    User,
    Call,          \* the goroutines that serve the calls
    Scenario,      \* the groups to start from and the requests to serve: records
                   \* role (of each user), verify, ask (requests kind, by, user, val)
    MaxMsgs        \* bound: messages numbered in the group's conversation

Roles    == {"owner", "admin", "ordinary"}
\* constant.Directly, ApplyNeedVerificationInviteDirectly, AllNeedVerification
Verifies == {"directly", "apply", "all"}

\* The RPCs of the group service and the sending of a message to the group.
Kinds == {"join", "invite", "approve", "refuse", "kick", "quit", "transfer", "setRole",
          "muteMember", "unmuteMember", "muteGroup", "unmuteGroup", "setInfo", "dismiss", "send"}
IsRequest(o) == /\ o.kind \in Kinds /\ o.by \in User /\ o.user \in User
                /\ o.kind = "setRole" => o.val \in Roles

ASSUME ConstantsAssumption ==
    /\ IsFiniteSet(User)
    /\ MaxMsgs \in Nat \ {0}
    /\ \A s \in Scenario :
           /\ s.role \in [User -> Roles \cup {"none"}] /\ s.verify \in Verifies
           /\ \A o \in s.ask : IsRequest(o)

VARIABLES
    info,       \* the group row: status and verify
    member,     \* member[u]: the group_member row of u, NoRow without one
    request,    \* request[u]: HandleResult of u's group_request row
    maxSeq,     \* MAX_SEQ of the conversation
    convMax,    \* convMax[u]: max_seq of u's conversation row, 0 unlimited, -1 no row
    userMin,    \* userMin[u]: CON_USER_MIN_SEQ
    hasRead,    \* hasRead[u]: HAS_READ_SEQ
    entry,      \* entry[k]: the rockscache entry of key k
    op,         \* op[c]: the request call c serves
    todo,       \* todo[c]: the commands it has still to issue, in order
    got,        \* got[c]: what it read, a function of keys
    val,        \* val[c]: what its running fetch read from MongoDB
    ask,        \* the requests not yet served
    torn,       \* history: users whose limits were left as they were: joining and leaving
                \* overlapped, two calls inserted the conversation row, or a dismissal
    asked,      \* history: asked[u]: MAX_SEQ when the call that let u in or filed the request began
    began,      \* history: began[c]: MAX_SEQ when call c began
    abandoned,  \* history: keys of rows written by a call that will not delete their entries
    barred      \* history: sends that began when the rows forbade them, no other call
                \* running then or since

dbVars   == <<info, member, request>>
seqVars  == <<maxSeq, convMax, userMin, hasRead>>
callVars == <<op, todo, got, val>>
histVars == <<torn, asked, began, abandoned, barred>>
vars == <<dbVars, seqVars, entry, callVars, ask, histVars>>

-----------------------------------------------------------------------------
(* Commands: a key to read, <<"write", w>> or <<"flush", k>>.              *)

Info       == <<"info">>           \* GROUP_INFO
Ids        == <<"ids">>            \* GROUP_MEMBER_IDS and GROUP_MEMBER_NUM
Owners     == <<"owners">>         \* GROUP_ROLE_LEVEL_MEMBER_IDS of the owner
Member(u)  == <<"member", u>>      \* GROUP_MEMBER_INFO
\* Read where they are stored, without a cache entry.
Request(u) == <<"request", u>>
Conv(u)    == <<"conv", u>>
Read(u)    == <<"hasRead", u>>
MaxKey     == <<"max">>

Begin      == <<"begin">>          \* the call starts
Decide     == <<"decide">>         \* its checks have passed
Error      == <<<<"error">>>>      \* it returns an error
Write(w)   == <<"write", w>>
Flush(q)   == [i \in DOMAIN q |-> <<"flush", q[i]>>]
CacheKeys  == {Info, Ids, Owners} \cup { Member(u) : u \in User }

NoRow   == [role |-> "none", muted |-> FALSE]
Absent  == [is |-> "absent"]               \* no entry, or one marked as deleted
Held(c) == [is |-> "held", by |-> c]       \* locked by the fetch of call c
Full(v) == [is |-> "full", value |-> v]
Cached(k) == entry[k].is = "full"

\* What a read of key k finds in MongoDB or, for MAX_SEQ and HAS_READ_SEQ, in Redis.
DbValue(k) ==
    CASE k = Info   -> info
      [] k = Ids    -> { u \in User : member[u] # NoRow }
      [] k = Owners -> { u \in User : member[u].role = "owner" }
      [] k = MaxKey -> maxSeq
      [] k[1] = "member"  -> member[k[2]]
      [] k[1] = "request" -> request[k[2]]
      [] k[1] = "conv"    -> convMax[k[2]] # -1
      [] k[1] = "hasRead" -> hasRead[k[2]]

NoRequest  == [kind |-> "none", by |-> "none", user |-> "none", val |-> "none"]
Idle(c)    == op[c] = NoRequest
JoinKinds  == {"join", "invite", "approve"}
LeaveKinds == {"kick", "quit"}
Running(u, K) == \E c \in Call : op[c].kind \in K /\ op[c].user = u

AtLeastAdmin(row) == row.role \in {"owner", "admin"}

-----------------------------------------------------------------------------
(* The calls.  An operator of a call gives, for what the call has read (g, *)
(* the value of key k last), the commands that come before the rest: at    *)
(* Begin its reads, at Decide its writes, Error when the value ends it.    *)

Unless(bad) == IF bad THEN Error ELSE <<>>

\* The role checks between the operator's row a and the other member's row m.
MayKick(a, m) == \/ a.role = "owner"
                 \/ a.role = "admin" /\ m.role = "ordinary"
MayMute(a, m) == \/ m.role = "admin" /\ a.role = "owner"
                 \/ m.role = "ordinary" /\ AtLeastAdmin(a)
MaySetRole(a, m, self) ==
    \/ a.role = "owner"
    \/ a.role = "admin" /\ (m.role = "ordinary" \/ self)
    \/ a.role = "ordinary" /\ self

\* The keys of a member row's creation, deletion and change of role, in the
\* order ExecDel deletes them.
MemberKeys(u) == <<Ids, Member(u), Owners>>
SetRead(u)    == <<Read(u), Write("hasRead")>>
MakeConv(u)   == <<Conv(u), Write("conv")>>
\* CreateGroupRequest.
AskToJoin     == <<Write("delRequest"), Write("addRequest")>>
\* CreateGroup of a member row, and the conversation it may read.
LetIn(u)      == <<Write("create")>> \o Flush(MemberKeys(u)) \o MakeConv(u)
\* DeleteGroupMember, deleteMemberAndSetConversationSeq.
LetGo(u)      == <<Write("delete")>> \o Flush(MemberKeys(u)) \o <<MaxKey, Write("convMax")>>

JoinGroup(o, g, k) ==
    CASE k = Begin          -> <<Info, Member(o.user), MaxKey, Decide>>
      [] k = Info           -> Unless(g[k].status = "dismissed")
      [] k = Member(o.user) -> Unless(g[k] # NoRow)
      [] k = Decide         ->
             (IF g[Info].verify = "directly" \/ o.val = "rights" THEN LetIn(o.user) ELSE AskToJoin)
             \o SetRead(o.user) \o <<Write("userMin")>>
      [] OTHER -> <<>>

InviteUserToGroup(o, g, k) ==
    CASE k = Begin        -> <<Info, Member(o.by), MaxKey, Decide>>
      [] k = Info         -> Unless(g[k].status = "dismissed")
      [] k = Member(o.by) -> Unless(g[k] = NoRow)
      [] k = Decide       ->
             (IF g[Info].verify = "all" /\ ~AtLeastAdmin(g[Member(o.by)])
              THEN AskToJoin ELSE LetIn(o.user))
             \o <<Write("userMin")>> \o SetRead(o.user)
      [] OTHER -> <<>>

GroupApplicationResponse(o, g, k) ==
    CASE k = Begin           -> <<Member(o.by), Info, Request(o.user), Member(o.user), Decide>>
      [] k = Member(o.by)    -> Unless(~AtLeastAdmin(g[k]))
      [] k = Request(o.user) -> Unless(g[k] # "waiting")
      [] k = Decide          ->
             <<Write("handle")>>
             \o (IF o.kind = "approve" /\ g[Member(o.user)] = NoRow
                 THEN <<Write("create")>> \o Flush(<<Member(o.user), Ids>>) ELSE <<>>)
             \o (IF o.kind = "approve" THEN MakeConv(o.user) ELSE <<>>)
      [] OTHER -> <<>>

KickGroupMember(o, g, k) ==
    CASE k = Begin        -> <<Info, Member(o.user), Member(o.by), Ids, Owners, Decide>>
      [] k = Member(o.by) -> Unless(g[Member(o.user)] = NoRow \/ ~MayKick(g[k], g[Member(o.user)]))
      [] k = Decide       -> LetGo(o.user)
      [] OTHER -> <<>>

QuitGroup(o, g, k) ==
    CASE k = Begin          -> <<Member(o.user), Decide>>
      [] k = Member(o.user) -> Unless(g[k] = NoRow \/ g[k].role = "owner")
      [] k = Decide         -> LetGo(o.user)
      [] OTHER -> <<>>

TransferGroupOwner(o, g, k) ==
    CASE k = Begin          -> <<Info, Member(o.by), Member(o.user), Decide>>
      [] k = Info           -> Unless(g[k].status = "dismissed")
      [] k = Member(o.user) -> Unless(g[k] = NoRow \/ g[Member(o.by)].role # "owner")
      [] k = Decide         -> <<Write("demote"), Write("promote")>>
                               \o Flush(<<Member(o.by), Member(o.user), Owners>>)
      [] OTHER -> <<>>

\* The rows of the member and of the operator, found in one list.
BothRows(o) == <<Member(o.user)>> \o (IF o.by = o.user THEN <<>> ELSE <<Member(o.by)>>)

SetGroupMemberInfo(o, g, k) ==
    CASE k = Begin        -> Append(BothRows(o), Decide)
      [] k = Member(o.by) -> Unless(\/ g[Member(o.user)] = NoRow
                                    \/ ~MaySetRole(g[k], g[Member(o.user)], o.by = o.user))
      [] k = Decide       -> <<Write("setRole")>> \o Flush(<<Owners, Member(o.user)>>)
      [] OTHER -> <<>>

\* CancelMuteGroupMember differs in the mute it writes.
MuteGroupMember(o, g, k) ==
    CASE k = Begin        -> Append(BothRows(o), Decide)
      [] k = Member(o.by) -> Unless(~MayMute(g[k], g[Member(o.user)]))
      [] k = Member(o.user) /\ o.by # o.user -> Unless(g[k] = NoRow)
      [] k = Decide       -> <<Write("setMuted")>> \o Flush(<<Member(o.user)>>)
      [] OTHER -> <<>>

\* CancelMuteGroup differs in the status it writes.
MuteGroup(o, g, k) ==
    CASE k = Begin        -> <<Member(o.by), Decide>>
      [] k = Member(o.by) -> Unless(~AtLeastAdmin(g[k]))
      [] k = Decide       -> <<Write("setStatus")>> \o Flush(<<Info>>)
      [] OTHER -> <<>>

\* GetGroupOwner goes on to the member rows of the owners it found, in the
\* order MongoDB lists them; without a row it fails.
OwnerRows(o, k, v) ==
    IF k = Owners /\ o.kind \in {"setInfo", "dismiss"}
    THEN { [i \in DOMAIN q |-> Member(q[i])] : q \in SetToSeqs(v) } ELSE {<<>>}
NoOwner(g) == \A u \in g[Owners] : Member(u) \in DOMAIN g /\ g[Member(u)] = NoRow

SetGroupInfo(o, g, k) ==
    CASE k = Begin  -> <<Member(o.by), Info, Ids, Owners, Decide>>
      [] k = Decide -> <<Write("setVerify")>> \o Flush(<<Info>>) \o <<Info>>
      [] k \notin {Begin, Decide} /\ Owners \in DOMAIN g -> Unless(NoOwner(g))
      [] k = Member(o.by) /\ Owners \notin DOMAIN g -> Unless(~AtLeastAdmin(g[k]))
      [] k = Info /\ Owners \notin DOMAIN g -> Unless(g[k].status = "dismissed")
      [] OTHER -> <<>>

DismissGroup(o, g, k) ==
    CASE k = Begin  -> <<Owners, Info, Decide>>
      [] k = Owners -> Unless(NoOwner(g))
      \* members[0], the first row found, is not the operator's
      [] k[1] = "member" ->
             Unless(\/ NoOwner(g)
                    \/ /\ g[k] # NoRow /\ k # Member(o.by)
                       /\ Member(o.by) \notin DOMAIN g \/ g[Member(o.by)] = NoRow)
      [] k = Info   -> Unless(o.val = "keep" /\ g[k].status = "dismissed")
      [] k = Decide -> <<Write("setStatus")>>
                       \o (IF o.val = "delete" THEN <<Ids, Write("deleteAll")>> ELSE <<>>)
                       \o Flush(<<Info>>) \o <<Ids>>
      [] OTHER -> <<>>

\* Mutant: the mute of one member is not looked at.
GroupMuteOnly(i, m) ==
    i.status # "dismissed" /\ m # NoRow /\ (AtLeastAdmin(m) \/ i.status # "muted")
\* messageVerification: row m of the sender in the group of row i.
MaySend(i, m) ==
    /\ i.status # "dismissed"
    /\ m # NoRow
    /\ AtLeastAdmin(m) \/ (~m.muted /\ i.status # "muted")

\* Of a sender without special rights.
sendMsgSuperGroupChat(o, g, k) ==
    CASE k = Begin        -> <<Info, Member(o.by), Decide>>
      [] k = Info         -> Unless(g[k].status = "dismissed")
      [] k = Member(o.by) -> Unless(~MaySend(g[Info], g[k]))
      [] k = Decide       -> <<Write("queue")>>
      [] OTHER -> <<>>

Follow(o, g, k) ==
    CASE o.kind = "join"     -> JoinGroup(o, g, k)
      [] o.kind = "invite"   -> InviteUserToGroup(o, g, k)
      [] o.kind \in {"approve", "refuse"} -> GroupApplicationResponse(o, g, k)
      [] o.kind = "kick"     -> KickGroupMember(o, g, k)
      [] o.kind = "quit"     -> QuitGroup(o, g, k)
      [] o.kind = "transfer" -> TransferGroupOwner(o, g, k)
      [] o.kind = "setRole"  -> SetGroupMemberInfo(o, g, k)
      [] o.kind \in {"muteMember", "unmuteMember"} -> MuteGroupMember(o, g, k)
      [] o.kind \in {"muteGroup", "unmuteGroup"} -> MuteGroup(o, g, k)
      [] o.kind = "setInfo"  -> SetGroupInfo(o, g, k)
      [] o.kind = "dismiss"  -> DismissGroup(o, g, k)
      [] o.kind = "send"     -> sendMsgSuperGroupChat(o, g, k)

-----------------------------------------------------------------------------
(* Steps of a call.                                                        *)

Nothing == [k \in {} |-> 0]
Put(g, k, v) == [x \in DOMAIN g \cup {k} |-> IF x = k THEN v ELSE g[x]]
NoFetch == Absent

Init ==
    /\ \E s \in Scenario :
           /\ info = [status |-> "ok", verify |-> s.verify]
           /\ member = [u \in User |-> [role |-> s.role[u], muted |-> FALSE]]
           /\ convMax = [u \in User |-> IF s.role[u] = "none" THEN -1 ELSE 0]
           /\ ask = s.ask
    /\ request = [u \in User |-> "none"]
    /\ maxSeq = 1
    /\ userMin = [u \in User |-> 0]
    /\ hasRead = [u \in User |-> 0]
    /\ entry = [k \in CacheKeys |-> Absent]
    /\ op = [c \in Call |-> NoRequest]
    /\ todo = [c \in Call |-> <<>>]
    /\ got = [c \in Call |-> Nothing]
    /\ val = [c \in Call |-> NoFetch]
    /\ torn = {}
    /\ asked = [u \in User |-> -1]
    /\ began = [c \in Call |-> 0]
    /\ abandoned = {}
    /\ barred = {}

\* The rows forbid u to send: u left, was muted with or without the group, or
\* the group is dismissed.
Silenced(u) ==
    \/ member[u] = NoRow \/ info.status = "dismissed"
    \/ member[u].role = "ordinary" /\ (member[u].muted \/ info.status = "muted")

\* A request arrives.
Start(c) ==
    /\ Idle(c)
    /\ \E o \in ask :
           /\ ask' = ask \ {o}
           /\ op' = [op EXCEPT ![c] = o]
           /\ todo' = [todo EXCEPT ![c] = Follow(o, Nothing, Begin)]
           /\ torn' = torn \cup { u \in {o.user} :
                  \/ o.kind \in JoinKinds /\ Running(u, LeaveKinds)
                  \/ o.kind \in LeaveKinds /\ Running(u, JoinKinds) }
           /\ barred' = IF o.kind # "send" THEN {}
                        ELSE IF ~Silenced(o.by)
                                \/ \E d \in Call : op[d].kind \notin {"none", "send"}
                        THEN barred ELSE barred \cup {c}
    /\ began' = [began EXCEPT ![c] = maxSeq]
    /\ UNCHANGED <<dbVars, seqVars, entry, got, val, asked, abandoned>>

\* The call returns, or goes on with the commands rest having read g.
Go(c, rest, g) ==
    LET next == IF rest # <<>> /\ Head(rest) = Decide THEN Follow(op[c], g, Decide) ELSE rest
    IN /\ todo' = [todo EXCEPT ![c] = next]
       /\ got' = [got EXCEPT ![c] = IF next = <<>> THEN Nothing ELSE g]
       /\ op' = [op EXCEPT ![c] = IF next = <<>> THEN NoRequest ELSE @]
       /\ began' = [began EXCEPT ![c] = IF next = <<>> THEN 0 ELSE @]
       /\ val' = [val EXCEPT ![c] = NoFetch]
       /\ barred' = IF next = <<>> THEN barred \ {c} ELSE barred
       /\ UNCHANGED ask

\* The value v of the key read reaches the call.
Deliver(c, v) ==
    LET k == Head(todo[c])
        g == Put(got[c], k, v)
    IN IF Follow(op[c], g, k) = Error THEN Go(c, <<>>, g)
       ELSE \E q \in OwnerRows(op[c], k, v) : Go(c, q \o Tail(todo[c]), g)

Next1(c, K) == todo[c] # <<>> /\ Head(todo[c]) \in K

\* getCache: rockscache.Fetch2 with StrongConsistency finds the entry.
CacheHit(c) ==
    /\ Next1(c, CacheKeys)
    /\ val[c] = NoFetch
    /\ Cached(Head(todo[c]))
    /\ Deliver(c, entry[Head(todo[c])].value)
    /\ UNCHANGED <<dbVars, seqVars, entry, torn, asked, abandoned>>

\* It locks the entry that is missing or marked as deleted; a locked one is waited for.
FetchLock(c) ==
    /\ Next1(c, CacheKeys)
    /\ val[c] = NoFetch
    /\ entry[Head(todo[c])] = Absent
    /\ entry' = [entry EXCEPT ![Head(todo[c])] = Held(c)]
    /\ val' = [val EXCEPT ![c] = Held(c)]
    /\ UNCHANGED <<dbVars, seqVars, op, todo, got, ask, histVars>>

FetchLoad(c) ==
    /\ val[c] = Held(c)
    /\ val' = [val EXCEPT ![c] = Full(DbValue(Head(todo[c])))]
    /\ UNCHANGED <<dbVars, seqVars, entry, op, todo, got, ask, histVars>>

Stored(k, v) == IF k[1] = "member" /\ v = NoRow THEN Absent ELSE Full(v)
\* Mutant: the fetch stores what it read whoever holds the lock.
StoreAlways(c, k, v) == entry' = [entry EXCEPT ![k] = Stored(k, v)]
\* The value is stored by the holder of the lock alone; a row that is not
\* found releases the lock and is not cached.
StoreIfHeld(c, k, v) ==
    entry' = [entry EXCEPT ![k] = IF @ = Held(c) THEN Stored(k, v) ELSE @]

FetchStore(c) ==
    /\ val[c].is = "full"
    /\ StoreIfHeld(c, Head(todo[c]), val[c].value)
    /\ Deliver(c, val[c].value)
    /\ UNCHANGED <<dbVars, seqVars, torn, asked, abandoned>>

\* The lock or the entry expires.
Expire(k) ==
    /\ entry[k] # Absent
    /\ entry' = [entry EXCEPT ![k] = Absent]
    /\ UNCHANGED <<dbVars, seqVars, callVars, ask, histVars>>

\* GetMaxSeq, GetHasReadSeq, TakeGroupRequest, FindUserID: read where stored.
ReadStored(c) ==
    /\ todo[c] # <<>>
    /\ Head(todo[c]) \notin CacheKeys
    /\ Head(todo[c])[1] \in {"max", "hasRead", "request", "conv"}
    /\ Deliver(c, DbValue(Head(todo[c])))
    /\ UNCHANGED <<dbVars, seqVars, entry, torn, asked, abandoned>>

\* ExecDel: TagAsDeleted of one key.
FlushKey(c) ==
    /\ todo[c] # <<>>
    /\ Head(todo[c])[1] = "flush"
    /\ entry' = [entry EXCEPT ![Head(todo[c])[2]] = Absent]
    /\ abandoned' = abandoned \ {Head(todo[c])[2]}
    /\ Go(c, Tail(todo[c]), got[c])
    /\ UNCHANGED <<dbVars, seqVars, torn, asked>>

At(c, w)   == todo[c] # <<>> /\ Head(todo[c]) = Write(w)
Done(c)    == Go(c, Tail(todo[c]), got[c])
Failed(c)  == Go(c, <<>>, got[c])
\* Mutant: the last seq itself.
LastSeq(c)  == got[c][MaxKey]
\* maxSeq += 1 after GetMaxSeq: the first seq a joining user may read.
NextSeq(c)  == got[c][MaxKey] + 1
Least(S)   == CHOOSE n \in S : \A m \in S : n <= m

-----------------------------------------------------------------------------
(* Writes of members.                                                      *)

\* groupMemberDB.Create; the index group_id, user_id is unique.
CreateMember(c) ==
    LET u == op[c].user
        others == { began[d] : d \in { d \in Call \ {c} : op[d].kind \in JoinKinds /\ op[d].user = u } }
    IN /\ At(c, "create")
       /\ IF member[u] # NoRow
          THEN Failed(c) /\ UNCHANGED <<member, asked>>
          ELSE /\ member' = [member EXCEPT ![u] = [role |-> "ordinary", muted |-> FALSE]]
               /\ asked' = IF op[c].kind = "approve" THEN asked
                           ELSE [asked EXCEPT ![u] = Least({began[c]} \cup others)]
               /\ Done(c)
       /\ UNCHANGED <<info, request, seqVars, entry, torn, abandoned>>

DeleteMember(c) ==
    /\ At(c, "delete")
    /\ member' = [member EXCEPT ![op[c].user] = NoRow]
    /\ Done(c)
    /\ UNCHANGED <<info, request, seqVars, entry, torn, asked, abandoned>>

\* DismissGroup with deleteMember: every row goes; the keys deleted are those
\* of the members whose IDs were read before.
DeleteMembers(c) ==
    /\ At(c, "deleteAll")
    /\ member' = [u \in User |-> NoRow]
    /\ torn' = torn \cup { u \in User : member[u] # NoRow }
    /\ Go(c, Flush(<<Ids, Owners>> \o SetToSeq({ Member(u) : u \in got[c][Ids] }))
             \o Tail(todo[c]), got[c])
    /\ abandoned' = abandoned \cup { Member(u) : u \in DbValue(Ids) \ got[c][Ids] }
    /\ UNCHANGED <<info, request, seqVars, entry, asked>>

\* An UpdateOne that fails when it matches no row.
UpdateRow(c, u, row) ==
    IF member[u] = NoRow THEN Failed(c) /\ UNCHANGED member
    ELSE member' = [member EXCEPT ![u] = row] /\ Done(c)

Role(u, r) == [member[u] EXCEPT !.role = r]

\* TransferGroupOwner: the old owner takes the role the new one had.
Demote(c) ==
    /\ At(c, "demote")
    /\ UpdateRow(c, op[c].by, Role(op[c].by, got[c][Member(op[c].user)].role))
    /\ UNCHANGED <<info, request, seqVars, entry, torn, asked, abandoned>>

Promote(c) ==
    /\ At(c, "promote")
    /\ UpdateRow(c, op[c].user, Role(op[c].user, "owner"))
    /\ abandoned' = IF member[op[c].user] # NoRow THEN abandoned
                    ELSE abandoned \cup {Member(op[c].by), Owners}
    /\ UNCHANGED <<info, request, seqVars, entry, torn, asked>>

\* UpdateGroupMembers with role_level.
SetRole(c) ==
    /\ At(c, "setRole")
    /\ UpdateRow(c, op[c].user, Role(op[c].user, op[c].val))
    /\ UNCHANGED <<info, request, seqVars, entry, torn, asked, abandoned>>

\* UpdateGroupMember with mute_end_time.
SetMuted(c) ==
    /\ At(c, "setMuted")
    /\ UpdateRow(c, op[c].user, [member[op[c].user] EXCEPT !.muted = op[c].kind = "muteMember"])
    /\ UNCHANGED <<info, request, seqVars, entry, torn, asked, abandoned>>

-----------------------------------------------------------------------------
(* Writes of the group row and of requests.                                *)

SetStatus(c) ==
    /\ At(c, "setStatus")
    /\ info' = [info EXCEPT !.status = CASE op[c].kind = "muteGroup"   -> "muted"
                                         [] op[c].kind = "unmuteGroup" -> "ok"
                                         [] op[c].kind = "dismiss"     -> "dismissed"]
    /\ Done(c)
    /\ UNCHANGED <<member, request, seqVars, entry, torn, asked, abandoned>>

SetVerify(c) ==
    /\ At(c, "setVerify")
    /\ info' = [info EXCEPT !.verify = op[c].val]
    /\ Done(c)
    /\ UNCHANGED <<member, request, seqVars, entry, torn, asked, abandoned>>

\* CreateGroupRequest: the old row is deleted, then one is inserted.
DelRequest(c) ==
    /\ At(c, "delRequest")
    /\ request' = [request EXCEPT ![op[c].user] = "none"]
    /\ Done(c)
    /\ UNCHANGED <<info, member, seqVars, entry, torn, asked, abandoned>>

AddRequest(c) ==
    LET u == op[c].user
    IN /\ At(c, "addRequest")
       /\ IF request[u] # "none" THEN Failed(c) /\ UNCHANGED request
          ELSE request' = [request EXCEPT ![u] = "waiting"] /\ Done(c)
       /\ UNCHANGED <<info, member, seqVars, entry, torn, asked, abandoned>>

\* HandlerGroupRequest: UpdateHandler.
Handle(c) ==
    LET u == op[c].user
    IN /\ At(c, "handle")
       /\ IF request[u] = "none" THEN Failed(c) /\ UNCHANGED request
          ELSE /\ request' = [request EXCEPT ![u] = IF op[c].kind = "approve" THEN "agreed"
                                                    ELSE "refused"]
               /\ Done(c)
       /\ UNCHANGED <<info, member, seqVars, entry, torn, asked, abandoned>>

-----------------------------------------------------------------------------
(* Writes of the limits between which a user may read the conversation.    *)

\* Mutant: a conversation row that exists keeps its limit.
KeepLimit(u) == UNCHANGED convMax
\* CreateGroupChatConversation for a user whose row exists; a row is inserted
\* for one without, which fails when another call has inserted it meanwhile.
LiftLimit(u) == convMax' = [convMax EXCEPT ![u] = 0]

PutConversation(c) ==
    LET u == op[c].user
    IN /\ At(c, "conv")
       /\ IF got[c][Conv(u)] THEN LiftLimit(u) /\ Done(c) /\ UNCHANGED torn
          ELSE IF convMax[u] = -1
               THEN convMax' = [convMax EXCEPT ![u] = 0] /\ Done(c) /\ UNCHANGED torn
               ELSE Failed(c) /\ torn' = torn \cup {u} /\ UNCHANGED convMax
       /\ UNCHANGED <<dbVars, maxSeq, userMin, hasRead, entry, asked, abandoned>>

\* SetConversationMaxSeq of the user who left.
SetConvMax(c) ==
    LET u == op[c].user
    IN /\ At(c, "convMax")
       /\ convMax' = [convMax EXCEPT ![u] = IF @ = -1 THEN @ ELSE got[c][MaxKey]]
       /\ Done(c)
       /\ UNCHANGED <<dbVars, maxSeq, userMin, hasRead, entry, torn, asked, abandoned>>

SetUserMin(c) ==
    /\ At(c, "userMin")
    /\ userMin' = [userMin EXCEPT ![op[c].user] = NextSeq(c)]
    /\ Done(c)
    /\ UNCHANGED <<dbVars, maxSeq, convMax, hasRead, entry, torn, asked, abandoned>>

\* ReadSeqs.
SetHasRead(c) ==
    LET u == op[c].user
    IN /\ At(c, "hasRead")
       /\ hasRead' = [hasRead EXCEPT ![u] = IF NextSeq(c) > got[c][Read(u)] THEN NextSeq(c) ELSE @]
       /\ Done(c)
       /\ UNCHANGED <<dbVars, maxSeq, convMax, userMin, entry, torn, asked, abandoned>>

\* msgtransfer numbers a message of the conversation.
SendMsg ==
    /\ maxSeq < MaxMsgs
    /\ maxSeq' = maxSeq + 1
    /\ UNCHANGED <<dbVars, convMax, userMin, hasRead, entry, callVars, ask, histVars>>

\* MsgToMQ.
Queue(c) ==
    /\ At(c, "queue")
    /\ Done(c)
    /\ UNCHANGED <<dbVars, seqVars, entry, torn, asked, abandoned>>

Serve(c) ==
    \/ CacheHit(c) \/ FetchLock(c) \/ FetchLoad(c) \/ FetchStore(c) \/ ReadStored(c) \/ FlushKey(c)
    \/ CreateMember(c) \/ DeleteMember(c) \/ DeleteMembers(c)
    \/ Demote(c) \/ Promote(c) \/ SetRole(c) \/ SetMuted(c)
    \/ SetStatus(c) \/ SetVerify(c) \/ DelRequest(c) \/ AddRequest(c) \/ Handle(c)
    \/ PutConversation(c) \/ SetConvMax(c) \/ SetUserMin(c) \/ SetHasRead(c)
    \/ Queue(c)

Next ==
    \/ SendMsg
    \/ \E k \in CacheKeys : Expire(k)
    \/ \E c \in Call : Start(c) \/ Serve(c)

Spec == Init /\ [][Next]_vars

-----------------------------------------------------------------------------
\* Call c has written the row of key k and has still to delete the entry.
Pending(c, k) ==
    /\ \E i \in DOMAIN todo[c] : todo[c][i] = <<"flush", k>>
    /\ \/ Head(todo[c])[1] # "write"
       \/ Head(todo[c]) \in {Write("promote"), Write("deleteAll")}

(***************************************************************************)
(* A cached entry that differs from its row is about to be deleted by the  *)
(* call that wrote the row: once the calls have returned the cache tells   *)
(* the truth, whatever fetches ran beside them (getCache and ExecDel of    *)
(* meta_cache.go; every writer of controller/group.go names all its keys). *)
(* There are two exceptions: a transfer of ownership to a member who has   *)
(* just left fails after the first of its two writes and skips ExecDel; a  *)
(* dismissal deletes the entries of the members it listed before it deleted*)
(* the rows, not of one who joined in between.                             *)
(***************************************************************************)
CacheFresh ==
    \A k \in CacheKeys :
        Cached(k) /\ entry[k].value # DbValue(k) =>
            k \in abandoned \/ \E c \in Call : Pending(c, k)

(***************************************************************************)
(* Between the calls about them, members read without an upper limit and   *)
(* those who left, or never joined, do not: a rejoining user sees new      *)
(* messages again, a kicked one does not (CreateGroupChatConversation,     *)
(* deleteMemberAndSetConversationSeq).  Users whose joining and leaving    *)
(* overlapped, or whom a dismissal removed, are excepted.                  *)
(***************************************************************************)
WindowFollowsMembership ==
    \A u \in User \ torn :
        Running(u, JoinKinds \cup LeaveKinds) \/ (member[u] # NoRow <=> convMax[u] = 0)

(***************************************************************************)
(* A member who joined or was invited does not see the messages that were  *)
(* there when the joining began (GetMaxSeq before, SetConversationUserMinSeq*)
(* after CreateGroup).                                                     *)
(***************************************************************************)
HistoryHidden ==
    \A u \in User \ torn :
        Running(u, JoinKinds \cup LeaveKinds) \/ member[u] = NoRow \/ userMin[u] > asked[u]

(***************************************************************************)
(* Once a call that mutes, kicks or dismisses has returned, no message of  *)
(* the users it concerns passes messageVerification until the next call    *)
(* about the group, although the verification reads cached rows one by one *)
(* and fetches of them may have been running.  The exception is an entry   *)
(* that a failing call has left stale.                                     *)
(***************************************************************************)
SilencedCannotSend == abandoned = {} => \A c \in barred : ~At(c, "queue")
=============================================================================
