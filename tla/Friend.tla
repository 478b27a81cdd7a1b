------------------------------ MODULE Friend --------------------------------
(***************************************************************************)
(* Friend applications, friend rows and blacklists: the calls of           *)
(* internal/rpc/friend on controller/friend.go and controller/black.go,    *)
(* the cache-aside lists of cache/friend.go and cache/black.go, and        *)
(* messageVerification of internal/rpc/msg/verify.go, which lets a single  *)
(* chat message pass by those lists.                                       *)
(*                                                                         *)
(* Every Redis and MongoDB command is a step of its own.  MongoDB is the   *)
(* standalone server of docker-compose.yml, for which tx.Transaction runs  *)
(* the function it is given as it is: a failing step undoes nothing, and   *)
(* InsertMany inserts its rows one after the other.                        *)
(***************************************************************************)
EXTENDS Integers, Sequences

CONSTANTS
    User,
    Call,          \* the goroutines that serve the calls
    FriendVerify,  \* config: messageVerify.friendVerify
    Scenario       \* where to start from and what to serve: records friend, black
                   \* (sets of pairs) and ask (requests kind, by, peer, and a number n
                   \* that tells equal requests apart)

Pairs == { p \in User \X User : p[1] # p[2] }
Kinds == {"apply", "agree", "refuse", "delete", "import", "addBlack", "removeBlack", "send"}

ASSUME ConstantsAssumption ==
    /\ FriendVerify \in BOOLEAN
    /\ \A s \in Scenario :
           /\ s.friend \subseteq Pairs /\ s.black \subseteq Pairs
           /\ \A o \in s.ask : o.kind \in Kinds /\ <<o.by, o.peer>> \in Pairs

VARIABLES
    friend,     \* the friend rows: pairs of owner and friend
    black,      \* the black rows: pairs of owner and blocked user
    request,    \* request[<<from, to>>]: HandleResult of the row, "none" without one
    entry,      \* entry[k]: the rockscache entry of key k
    op,         \* op[c]: the request call c serves
    todo,       \* todo[c]: the commands it has still to issue, in order
    got,        \* got[c]: what it read and inserted, a function of keys
    val,        \* val[c]: what its running fetch read from MongoDB
    ask,        \* the requests not yet served
    barred,     \* history: sends that began while the sender was blocked, and no call
                \* to block or unblock has run since
    cut,        \* history: pairs with a row deleted since the last agreement was recorded,
                \* or before it and another call was adding their rows
    abandoned   \* history: keys of rows written by a call that will not delete their entries

rowVars  == <<friend, black, request>>
callVars == <<op, todo, got, val, ask>>
histVars == <<barred, cut, abandoned>>
vars == <<rowVars, entry, callVars, histVars>>

-----------------------------------------------------------------------------
(* Commands: a key to read, <<"insert", p>>, <<"write", w>>, <<"flush", k>>.*)

Friends(u) == <<"friends", u>>     \* FRIEND_IDS
Blacks(u)  == <<"blacks", u>>      \* BLACK_IDS
CacheKeys  == { Friends(u) : u \in User } \cup { Blacks(u) : u \in User }
\* Read where they are stored, without a cache entry.
Req(p)  == <<"request", p>>        \* friendRequest.Take
Rows(p) == <<"rows", p>>           \* FindUserState, FindFriends

Begin     == <<"begin">>           \* the call starts
Error     == <<<<"error">>>>       \* it returns an error
Insert(p) == <<"insert", p>>
Write(w)  == <<"write", w>>
Flush(q)  == [i \in DOMAIN q |-> <<"flush", q[i]>>]

Absent  == [is |-> "absent"]               \* no entry, or one marked as deleted
Held(c) == [is |-> "held", by |-> c]       \* locked by the fetch of call c
Full(v) == [is |-> "full", value |-> v]
Cached(k) == entry[k].is = "full"

Swap(p) == <<p[2], p[1]>>
Both(p) == {p, Swap(p)}

\* What a read of key k finds in MongoDB.
DbValue(k) ==
    CASE k[1] = "friends" -> { u \in User : <<k[2], u>> \in friend }
      [] k[1] = "blacks"  -> { u \in User : <<k[2], u>> \in black }
      [] k[1] = "request" -> request[k[2]]
      [] k[1] = "rows"    -> friend \cap Both(k[2])

NoRequest == [kind |-> "none", by |-> "none", peer |-> "none", n |-> 0]
Idle(c)   == op[c] = NoRequest
Pair(o)   == <<o.by, o.peer>>
Running(p, K) == \E c \in Call : op[c].kind \in K /\ Pair(op[c]) = p

-----------------------------------------------------------------------------
(* The calls.  An operator of a call gives, for what the call has read (g, *)
(* the value of key k last), the commands that come before the rest; at    *)
(* Begin the ones it starts with; Error when the value ends it.            *)

Unless(bad) == IF bad THEN Error ELSE <<>>

\* Mutant: the list of the user who was blocked is marked as deleted.
OfBlocked(o) == Blacks(o.peer)
\* deleteBlackIDsCache.
OfOwner(o) == Blacks(o.by)

\* Mutant: only the list of the user who acted is marked as deleted.
OfActor(o) == Flush(<<Friends(o.by)>>)
\* DelFriendIDs of AgreeFriendRequest, of BecomeFriends and of Delete.
OfBoth(o) == Flush(IF o.kind = "agree" THEN <<Friends(o.by), Friends(o.peer)>>
                   ELSE <<Friends(o.peer), Friends(o.by)>>)

\* CheckIn: each is in the other's list.
ApplyToAddFriend(o, g, k) ==
    CASE k = Begin           -> <<Friends(o.by), Friends(o.peer), Req(Pair(o)), Write("file")>>
      [] k = Friends(o.peer) -> Unless(o.by \in g[k] /\ o.peer \in g[Friends(o.by)])
      [] OTHER -> <<>>

Unfound(p, v) == IF p \in v THEN <<>> ELSE <<Insert(p)>>
\* Mutant: only the row of the user who agreed is added.
OwnRow(o, v) == Unfound(Pair(o), v)
\* AgreeFriendRequest: adds, the rows FindUserState did not find.
Adds(o, v) == Unfound(Pair(o), v) \o Unfound(Swap(Pair(o)), v)

\* RespondFriendApply: the handler is o.by, the applicant o.peer.
AgreeFriendRequest(o, g, k) ==
    CASE k = Begin    -> <<Req(Swap(Pair(o))), Write("agree"), Req(Pair(o)), Rows(Pair(o))>>
                         \o OfBoth(o)
      [] k = Req(Swap(Pair(o))) -> Unless(g[k] # "waiting")
      [] k = Req(Pair(o))       -> IF g[k] = "waiting" THEN <<Write("agreeBack")>> ELSE <<>>
      [] k = Rows(Pair(o))      -> Adds(o, g[k])

RefuseFriendRequest(o, g, k) ==
    CASE k = Begin -> <<Req(Swap(Pair(o))), Write("refuse")>>
      [] k = Req(Swap(Pair(o))) -> Unless(g[k] # "waiting")

DeleteFriend(o, g, k) ==
    CASE k = Begin         -> <<Rows(Pair(o)), Write("delete")>> \o OfBoth(o)
      [] k = Rows(Pair(o)) -> Unless(Pair(o) \notin g[k])

\* ImportFriends of one friend.  The rows found are inserted together with the
\* new ones: with or without the reads, an existing row makes the insert fail.
BecomeFriends(o) == <<Insert(Pair(o)), Insert(Swap(Pair(o)))>> \o OfBoth(o)

\* AddBlack, RemoveBlack.
ChangeBlack(o) == <<Write(o.kind)>> \o Flush(<<OfOwner(o)>>)

\* messageVerification and MsgToMQ of a message from o.by to o.peer; IsBlocked
\* is InUser2Blacks, IsFriend is InUser1Friends.
sendMsgSingleChat(o, g, k) ==
    CASE k = Begin           -> <<Blacks(o.by), Blacks(o.peer)>>
                                \o (IF FriendVerify THEN <<Friends(o.peer), Friends(o.by)>> ELSE <<>>)
                                \o <<Write("queue")>>
      [] k = Blacks(o.peer)  -> Unless(o.by \in g[k])
      [] k = Friends(o.peer) -> Unless(o.by \notin g[k])
      [] OTHER -> <<>>

Follow(o, g, k) ==
    CASE o.kind = "apply"  -> ApplyToAddFriend(o, g, k)
      [] o.kind = "agree"  -> AgreeFriendRequest(o, g, k)
      [] o.kind = "refuse" -> RefuseFriendRequest(o, g, k)
      [] o.kind = "delete" -> DeleteFriend(o, g, k)
      [] o.kind = "import" -> BecomeFriends(o)
      [] o.kind \in {"addBlack", "removeBlack"} -> ChangeBlack(o)
      [] o.kind = "send"   -> sendMsgSingleChat(o, g, k)

-----------------------------------------------------------------------------
(* Steps of a call.                                                        *)

Nothing == [k \in {} |-> 0]
Put(g, k, v) == [x \in DOMAIN g \cup {k} |-> IF x = k THEN v ELSE g[x]]

Init ==
    /\ \E s \in Scenario :
           /\ friend = s.friend
           /\ black = s.black
           /\ request = [p \in Pairs |-> "none"]
           /\ ask = s.ask
    /\ entry = [k \in CacheKeys |-> Absent]
    /\ op = [c \in Call |-> NoRequest]
    /\ todo = [c \in Call |-> <<>>]
    /\ got = [c \in Call |-> Nothing]
    /\ val = [c \in Call |-> Absent]
    /\ barred = {}
    /\ cut = Pairs
    /\ abandoned = {}

\* A request arrives.
Start(c) ==
    /\ Idle(c)
    /\ \E o \in ask :
           LET blocks == {"addBlack", "removeBlack"}
               over   == { d \in Call : Pair(op[d]) = Swap(Pair(o)) }
           IN /\ ask' = ask \ {o}
              /\ op' = [op EXCEPT ![c] = o]
              /\ todo' = [todo EXCEPT ![c] = Follow(o, Nothing, Begin)]
              /\ barred' = IF o.kind \in blocks THEN barred \ over
                           ELSE IF o.kind = "send" /\ Swap(Pair(o)) \in black
                                   /\ ~Running(Swap(Pair(o)), blocks)
                           THEN barred \cup {c} ELSE barred
    /\ UNCHANGED <<rowVars, entry, got, val, cut, abandoned>>

\* The call returns, or goes on with the commands rest knowing g.
Go(c, rest, g) ==
    /\ todo' = [todo EXCEPT ![c] = rest]
    /\ got' = [got EXCEPT ![c] = IF rest = <<>> THEN Nothing ELSE g]
    /\ op' = [op EXCEPT ![c] = IF rest = <<>> THEN NoRequest ELSE @]
    /\ val' = [val EXCEPT ![c] = Absent]
    /\ barred' = IF rest = <<>> THEN barred \ {c} ELSE barred
    /\ UNCHANGED ask

Done(c)   == Go(c, Tail(todo[c]), got[c])
Failed(c) == Go(c, <<>>, got[c])

\* The value v of the key read reaches the call.
Deliver(c, v) ==
    LET g == Put(got[c], Head(todo[c]), v)
        q == Follow(op[c], g, Head(todo[c]))
    IN IF q = Error THEN Failed(c) ELSE Go(c, q \o Tail(todo[c]), g)

Reading(c, K) == todo[c] # <<>> /\ Head(todo[c]) \in K

\* getCache: rockscache.Fetch2 with StrongConsistency finds the entry.
CacheHit(c) ==
    /\ Reading(c, CacheKeys)
    /\ val[c] = Absent
    /\ Cached(Head(todo[c]))
    /\ Deliver(c, entry[Head(todo[c])].value)
    /\ UNCHANGED <<rowVars, entry, cut, abandoned>>

\* It locks the entry that is missing or marked as deleted; a locked one is waited for.
FetchLock(c) ==
    /\ Reading(c, CacheKeys)
    /\ val[c] = Absent
    /\ entry[Head(todo[c])] = Absent
    /\ entry' = [entry EXCEPT ![Head(todo[c])] = Held(c)]
    /\ val' = [val EXCEPT ![c] = Held(c)]
    /\ UNCHANGED <<rowVars, op, todo, got, ask, histVars>>

FetchLoad(c) ==
    /\ val[c] = Held(c)
    /\ val' = [val EXCEPT ![c] = Full(DbValue(Head(todo[c])))]
    /\ UNCHANGED <<rowVars, entry, op, todo, got, ask, histVars>>

\* The value is stored by the holder of the lock alone.
FetchStore(c) ==
    LET k == Head(todo[c])
    IN /\ val[c].is = "full"
       /\ entry' = [entry EXCEPT ![k] = IF @ = Held(c) THEN val[c] ELSE @]
       /\ Deliver(c, val[c].value)
       /\ UNCHANGED <<rowVars, cut, abandoned>>

\* The lock or the entry expires.
Expire(k) ==
    /\ entry[k] # Absent
    /\ entry' = [entry EXCEPT ![k] = Absent]
    /\ UNCHANGED <<rowVars, callVars, histVars>>

\* friendRequest.Take, FindUserState, FindFriendsWithError.
ReadStored(c) ==
    /\ todo[c] # <<>>
    /\ Head(todo[c])[1] \in {"request", "rows"}
    /\ Deliver(c, DbValue(Head(todo[c])))
    /\ UNCHANGED <<rowVars, entry, cut, abandoned>>

\* ExecDel: TagAsDeleted of one key.
FlushKey(c) ==
    /\ todo[c] # <<>>
    /\ Head(todo[c])[1] = "flush"
    /\ entry' = [entry EXCEPT ![Head(todo[c])[2]] = Absent]
    /\ abandoned' = abandoned \ {Head(todo[c])[2]}
    /\ Done(c)
    /\ UNCHANGED <<rowVars, cut>>

-----------------------------------------------------------------------------
(* Writes.                                                                 *)

At(c, w) == todo[c] # <<>> /\ Head(todo[c]) = Write(w)

\* AddFriendRequest: the row found is set to not handled; without one a row is
\* inserted, which fails when another call has inserted it meanwhile.
FileRequest(c) ==
    LET p == Pair(op[c])
    IN /\ At(c, "file")
       /\ IF got[c][Req(p)] = "none" /\ request[p] # "none"
          THEN Failed(c) /\ UNCHANGED request
          ELSE Done(c) /\ request' = [request EXCEPT ![p] = "waiting"]
       /\ UNCHANGED <<friend, black, entry, cut, abandoned>>

\* A call other than c has looked for the rows of pair p, to add the missing ones, or
\* has added one.
Adding(c, p) ==
    \E d \in Call \ {c} :
        /\ op[d].kind \in {"agree", "import"} /\ Pair(op[d]) \in Both(p)
        /\ \E k \in DOMAIN got[d] : k[1] \in {"rows", "insert"}

\* friendRequest.Update: its filter names the two users only.
Agree(c) ==
    LET p == Swap(Pair(op[c]))
    IN /\ At(c, "agree")
       /\ request' = [request EXCEPT ![p] = "agreed"]
       /\ cut' = IF Adding(c, p) THEN cut ELSE cut \ Both(p)
       /\ Done(c)
       /\ UNCHANGED <<friend, black, entry, abandoned>>

AgreeBack(c) ==
    /\ At(c, "agreeBack")
    /\ request' = [request EXCEPT ![Pair(op[c])] = "agreed"]
    /\ Done(c)
    /\ UNCHANGED <<friend, black, entry, cut, abandoned>>

Refuse(c) ==
    /\ At(c, "refuse")
    /\ request' = [request EXCEPT ![Swap(Pair(op[c]))] = "refused"]
    /\ Done(c)
    /\ UNCHANGED <<friend, black, entry, cut, abandoned>>

\* One row of friend.Create; the index owner_user_id, friend_user_id is unique,
\* and a call that fails does not reach ExecDel.
InsertRow(c) ==
    LET p == Head(todo[c])[2]
    IN /\ todo[c] # <<>>
       /\ Head(todo[c])[1] = "insert"
       /\ IF p \in friend
          THEN /\ Failed(c)
               /\ abandoned' = abandoned \cup
                      { Friends(q[1]) : q \in { q \in Pairs : Insert(q) \in DOMAIN got[c] } }
               /\ UNCHANGED friend
          ELSE /\ friend' = friend \cup {p}
               /\ Go(c, Tail(todo[c]), Put(got[c], Insert(p), TRUE))
               /\ UNCHANGED abandoned
       /\ UNCHANGED <<black, request, entry, cut>>

\* friend.Delete: the row of the owner alone; no error when it is gone.
DeleteRow(c) ==
    /\ At(c, "delete")
    /\ friend' = friend \ {Pair(op[c])}
    /\ cut' = cut \cup Both(Pair(op[c]))
    /\ Done(c)
    /\ UNCHANGED <<black, request, entry, abandoned>>

AddBlack(c) ==
    LET p == Pair(op[c])
    IN /\ At(c, "addBlack")
       /\ IF p \in black THEN Failed(c) ELSE Done(c)
       /\ black' = black \cup {p}
       /\ UNCHANGED <<friend, request, entry, cut, abandoned>>

RemoveBlack(c) ==
    /\ At(c, "removeBlack")
    /\ black' = black \ {Pair(op[c])}
    /\ Done(c)
    /\ UNCHANGED <<friend, request, entry, cut, abandoned>>

\* MsgToMQ.
Queue(c) ==
    /\ At(c, "queue")
    /\ Done(c)
    /\ UNCHANGED <<rowVars, entry, cut, abandoned>>

Serve(c) ==
    \/ CacheHit(c) \/ FetchLock(c) \/ FetchLoad(c) \/ FetchStore(c) \/ ReadStored(c) \/ FlushKey(c)
    \/ FileRequest(c) \/ Agree(c) \/ AgreeBack(c) \/ Refuse(c) \/ InsertRow(c) \/ DeleteRow(c)
    \/ AddBlack(c) \/ RemoveBlack(c) \/ Queue(c)

Next ==
    \/ \E k \in CacheKeys : Expire(k)
    \/ \E c \in Call : Start(c) \/ Serve(c)

Spec == Init /\ [][Next]_vars

-----------------------------------------------------------------------------
\* Call c has written a row of list k and has still to delete the entry.
Pending(c, k) ==
    /\ \E i \in DOMAIN todo[c] : todo[c][i] = <<"flush", k>>
    /\ \/ Head(todo[c])[1] = "flush"
       \/ \E p \in Pairs : Insert(p) \in DOMAIN got[c]

(***************************************************************************)
(* A cached friend list or blacklist that differs from its rows is about to*)
(* be deleted by the call that wrote them (AgreeFriendRequest,             *)
(* BecomeFriends, Delete and blackDatabase with ExecDel), whatever fetches *)
(* ran beside it.  The exception is a call that inserted the first of two  *)
(* rows and failed on the second, which someone else had inserted.         *)
(***************************************************************************)
CacheFresh ==
    \A k \in CacheKeys :
        Cached(k) /\ entry[k].value # DbValue(k) =>
            k \in abandoned \/ \E c \in Call : Pending(c, k)

(***************************************************************************)
(* Once AddBlack has returned, no message of the blocked user passes       *)
(* messageVerification until someone removes the block, although the       *)
(* verification reads a cached list and the lock of a fetch may expire.    *)
(***************************************************************************)
BlockHolds == \A c \in barred : ~At(c, "queue")

(***************************************************************************)
(* Between the calls about them, two users one of whom has agreed to the   *)
(* other's application, and who have not deleted each other since, have    *)
(* each other's row: no agreement, import or mutual application that ran   *)
(* beside it, and failed on a row already there, leaves a friendship       *)
(* one-sided (AgreeFriendRequest, BecomeFriends).  The exception is a row  *)
(* deleted before the agreement but between the steps of a call that was   *)
(* still adding rows when the agreement was recorded.                      *)
(***************************************************************************)
FriendsBothWays ==
    \A p \in Pairs \ cut :
        Running(p, Kinds) \/ Running(Swap(p), Kinds) \/ Both(p) \subseteq friend
=============================================================================
