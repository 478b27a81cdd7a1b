------------------------------- MODULE Gateway -------------------------------
(***************************************************************************)
(* One openim-msggateway process: internal/msggateway.                     *)
(*                                                                         *)
(* Every websocket connection has an HTTP handler, which accepts it and    *)
(* gives it a Client object from a pool, and a reader goroutine.  One      *)
(* event loop (WsServer.Run) registers and unregisters Client objects in   *)
(* the table of users (UserMap), kicks the connections a newer login       *)
(* replaces, and keeps the counters and the users' online status.  The RPC *)
(* KickUserOffline works on the same table from goroutines of its own, and *)
(* MultiTerminalLoginCheck asks the event loop to kick what a login at     *)
(* another node replaces.                                                  *)
(*                                                                         *)
(* A Client object outlives its connection: it goes back to the pool when  *)
(* it is unregistered and is Reset for a later connection, while           *)
(* goroutines of the earlier one may still hold the pointer.  Every field  *)
(* is therefore read through the object, conn[c], when the code reads it.  *)
(***************************************************************************)
EXTENDS Integers, Sequences, FiniteSets

CONSTANTS
    Conn,        \* websocket connections
    Client,      \* Client objects
    User,
    Platform,
    Token,
    UserOf,      \* UserOf[n], PlatformOf[n], TokenOf[n]: the query arguments
    PlatformOf,  \*   of connection n
    TokenOf,
    Remote,      \* logins at other nodes: records [user, platform, token]
    Kick,        \* calls of KickUserOffline
    KickUser,    \* KickUser[k], KickPlatform[k]: their arguments
    KickPlatform,
    KickPolicy,  \* MultiLoginPolicy: "none", "sameTerminal" or "pcAndOther"
    PC,          \* the platforms of class TerminalPC
    MaxConn,     \* wsMaxConnNum
    ChanCap,     \* capacity of the channels, 1000 in the code
    Quits,       \* bound: connections whose peer hangs up or logs out
    Early,       \* whether a peer may do so before it is registered
    Asks,        \* bound: connections that send a request
    Reuse,       \* whether the pool hands out used objects
    MaxFaults    \* bound: calls to Redis or to the user service that fail

NoConn   == "no connection"
NoClient == "no client"
Free     == "free"
Loop     == "loop"
Closer   == Conn \cup Kick \cup {Loop}

ASSUME GatewayAssumption ==
    /\ UserOf \in [Conn -> User]
    /\ PlatformOf \in [Conn -> Platform]
    /\ TokenOf \in [Conn -> Token]
    /\ Remote \subseteq [user : User, platform : Platform, token : Token]
    /\ KickUser \in [Kick -> User]
    /\ KickPlatform \in [Kick -> Platform]
    /\ KickPolicy \in {"none", "sameTerminal", "pcAndOther"}
    /\ PC \subseteq Platform
    /\ MaxConn \in Nat \ {0}
    /\ ChanCap \in Nat \ {0}
    /\ Quits \subseteq Conn
    /\ Asks \subseteq Conn
    /\ Early \in BOOLEAN
    /\ Reuse \in BOOLEAN
    /\ MaxFaults \in Nat
    /\ NoConn \notin Conn
    /\ NoClient \notin Client
    /\ Client \cap Remote = {}

VARIABLES
    hs,          \* hs[n]: where the handler wsHandler of n is
    client,      \* client[n]: the object the handler and the reader of n hold
    rd,          \* rd[n]: where the reader goroutine readMessage of n is
    on,          \* on[n]: the connection that reader is reading
    sock,        \* sock[n]: "none", "open" or "closed" by the server
    conn,        \* conn[c]: the connection object c was last Reset for
    closed,      \* closed[c]: the flag closed of c
    lock,        \* lock[c]: who holds the mutex w of c
    pool,        \* pool[c]: how often c is in clientPool
    table,       \* table[u]: the objects UserMap holds for u
    userNum, connNum,   \* onlineUserNum (and OnlineUserGauge), onlineUserConnNum
    registerChan, unregisterChan, kickHandlerChan,
    lpc,         \* where the event loop is
    lc,          \* what it works on: an object, or a login at another node
    lold,        \* the oldClients it still has to kick
    lcur,        \* the one it is closing
    lsnap,       \* what it loaded from the table
    lnew,        \* ~userOK
    kpc, kold, kcur, ksnap,  \* the goroutine of each KickUserOffline call
    remote,      \* logins at other nodes that have not happened yet
    tokens,      \* tokens[t]: "normal" or "kicked", in Redis
    status,      \* the <<user, platform>> pairs shown online, in Redis
    replaced,    \* history: connections the event loop closed for a newer login
    faults

connVars == <<hs, client, rd, on, sock>>
objVars  == <<conn, closed, lock, pool>>
mapVars  == <<table, userNum, connNum>>
chanVars == <<registerChan, unregisterChan, kickHandlerChan>>
loopVars == <<lpc, lc, lold, lcur, lsnap, lnew>>
kickVars == <<kpc, kold, kcur, ksnap>>
redisVars == <<tokens, status>>
vars == <<connVars, objVars, mapVars, chanVars, loopVars, kickVars, remote, redisVars, replaced, faults>>

Ok    == UNCHANGED faults
Fails == faults < MaxFaults /\ faults' = faults + 1

-----------------------------------------------------------------------------
(* The fields of a Client object, and the operations of UserMap.            *)

UserID(c)     == UserOf[conn[c]]
PlatformID(c) == PlatformOf[conn[c]]

\* The clients of a user on a platform (UserMap.Get).
Get(u, p) == { c \in table[u] : PlatformID(c) = p }

\* Mutant: the filtered list is not stored.
Unfiltered(cs, gone) == cs
\* Mutant: entries are compared by user and platform instead of address.
WithoutTerminal(cs, gone) ==
    { c \in cs : \A g \in gone : <<UserID(c), PlatformID(c)>> # <<UserID(g), PlatformID(g)>> }
\* The entries whose remote address is not one of a set of clients
\* (UserMap.delete, UserMap.deleteClients).
Without(cs, gone) == { c \in cs : conn[c] \notin { conn[g] : g \in gone } }

\* append(oldClients, v) (UserMap.Set).
With(cs, c) == cs \cup {c}

\* Mutant: the policy falls through to no kick at all.
KicksNone(p) == FALSE
\* multiTerminalLoginChecker: whether the policy kicks on this platform.
Kicks(p) == \/ KickPolicy = "sameTerminal"
            \/ KickPolicy = "pcAndOther" /\ p \notin PC

-----------------------------------------------------------------------------
Init ==
    /\ hs = [n \in Conn |-> "new"]
    /\ client = [n \in Conn |-> NoClient]
    /\ rd = [n \in Conn |-> "none"]
    /\ on = [n \in Conn |-> n]
    /\ sock = [n \in Conn |-> "none"]
    /\ conn = [c \in Client |-> NoConn]
    /\ closed = [c \in Client |-> FALSE]
    /\ lock = [c \in Client |-> Free]
    /\ pool = [c \in Client |-> 0]
    /\ table = [u \in User |-> {}]
    /\ userNum = 0 /\ connNum = 0
    /\ registerChan = <<>> /\ unregisterChan = <<>> /\ kickHandlerChan = <<>>
    /\ lpc = "idle" /\ lc = NoClient /\ lold = {} /\ lcur = NoClient
    /\ lsnap = {} /\ lnew = FALSE
    /\ kpc = [k \in Kick |-> "start"]
    /\ kold = [k \in Kick |-> {}]
    /\ kcur = [k \in Kick |-> NoClient]
    /\ ksnap = [k \in Kick |-> {}]
    /\ remote = Remote
    /\ tokens = [t \in Token |-> "normal"]
    /\ status = {}
    /\ replaced = {}
    /\ faults = 0

-----------------------------------------------------------------------------
(* wsHandler.                                                               *)

\* The check of ParseWSArgs.
AtLimit == connNum >= MaxConn

\* ParseWSArgs, then the upgrade; a refused connection never opens.
ParseWSArgs(n) ==
    /\ hs[n] = "new"
    /\ IF AtLimit \/ tokens[TokenOf[n]] = "kicked"
       THEN hs' = [hs EXCEPT ![n] = "refused"] /\ UNCHANGED sock
       ELSE /\ hs' = [hs EXCEPT ![n] = "upgraded"]
            /\ sock' = [sock EXCEPT ![n] = "open"]
    /\ UNCHANGED <<client, rd, on, objVars, mapVars, chanVars, loopVars, kickVars, remote, redisVars,
                   replaced, faults>>

\* Mutant: an object is in the pool as soon as it was used.
AnyUsed(c) == conn[c] = NoConn \/ Reuse
\* clientPool.Get: a used object, or a new one.
Available(c) == conn[c] = NoConn \/ (Reuse /\ pool[c] > 0)

\* clientPool.Get and ResetClient.
ResetClient(n, c) ==
    /\ hs[n] = "upgraded"
    /\ Available(c)
    /\ pool' = [pool EXCEPT ![c] = IF conn[c] = NoConn THEN 0 ELSE @ - 1]
    /\ conn' = [conn EXCEPT ![c] = n]
    /\ closed' = [closed EXCEPT ![c] = FALSE]
    /\ lock' = [lock EXCEPT ![c] = Free]
    /\ client' = [client EXCEPT ![n] = c]
    /\ hs' = [hs EXCEPT ![n] = "reset"]
    /\ UNCHANGED <<rd, on, sock, mapVars, chanVars, loopVars, kickVars, remote, redisVars, replaced,
                   faults>>

\* The send on registerChan, then go client.readMessage().
Accept(n) ==
    /\ hs[n] = "reset"
    /\ Len(registerChan) < ChanCap
    /\ registerChan' = Append(registerChan, client[n])
    /\ hs' = [hs EXCEPT ![n] = "up"]
    /\ rd' = [rd EXCEPT ![n] = "read"]
    /\ on' = [on EXCEPT ![n] = conn[client[n]]]
    /\ UNCHANGED <<client, sock, objVars, mapVars, unregisterChan, kickHandlerChan, loopVars,
                   kickVars, remote, redisVars, replaced, faults>>

-----------------------------------------------------------------------------
(* Client.close, called by readers, by the event loop and by RPC calls.     *)

\* Mutants: the flag is not tested; the test is inverted.
Untested(c) == FALSE
Inverted(c) == ~closed[c]
\* The first test of close, made before the mutex is taken.
AlreadyClosed(c) == closed[c]

\* w.Lock, closed.Store(true), conn.Close.
CloseMark(who, c) ==
    /\ lock[c] = Free
    /\ lock' = [lock EXCEPT ![c] = who]
    /\ closed' = [closed EXCEPT ![c] = TRUE]
    /\ sock' = [sock EXCEPT ![conn[c]] = "closed"]

\* UnRegister, which blocks while the channel is full, then w.Unlock.
CloseSend(who, c) ==
    /\ Len(unregisterChan) < ChanCap
    /\ unregisterChan' = Append(unregisterChan, c)
    /\ lock' = [lock EXCEPT ![c] = IF @ = who THEN Free ELSE @]

-----------------------------------------------------------------------------
(* readMessage.                                                             *)

\* ReadMessage returns a request.
ReadRequest(n) ==
    /\ rd[n] = "read"
    /\ on[n] \in Asks
    /\ sock[on[n]] = "open"
    /\ rd' = [rd EXCEPT ![n] = "got"]
    /\ UNCHANGED <<hs, client, on, sock, objVars, mapVars, chanVars, loopVars, kickVars, remote,
                   redisVars, replaced, faults>>

\* The test of closed that follows it.
CheckClosed(n) ==
    /\ rd[n] = "got"
    /\ rd' = [rd EXCEPT ![n] = IF closed[client[n]] THEN "close" ELSE "handle"]
    /\ UNCHANGED <<hs, client, on, sock, objVars, mapVars, chanVars, loopVars, kickVars, remote,
                   redisVars, replaced, faults>>

\* handleMessage: a request whose SendID is not the client's user ends the
\* reader; any other is answered and the reader goes on.
HandleMessage(n) ==
    /\ rd[n] = "handle"
    /\ rd' = [rd EXCEPT ![n] = IF UserOf[on[n]] # UserID(client[n]) THEN "close" ELSE "read"]
    /\ on' = [on EXCEPT ![n] = conn[client[n]]]
    /\ UNCHANGED <<hs, client, sock, objVars, mapVars, chanVars, loopVars, kickVars, remote,
                   redisVars, replaced, faults>>

Registered(n) == \E u \in User : \E c \in table[u] : conn[c] = n

\* ReadMessage fails, because the server closed the connection or because the
\* peer is gone, or the peer logs out.
ReadError(n) ==
    /\ rd[n] = "read"
    /\ \/ sock[on[n]] = "closed"
       \/ on[n] \in Quits /\ (Early \/ Registered(on[n]))
    /\ rd' = [rd EXCEPT ![n] = "close"]
    /\ UNCHANGED <<hs, client, on, sock, objVars, mapVars, chanVars, loopVars, kickVars, remote,
                   redisVars, replaced, faults>>

\* The deferred close: the first test of closed.
ReaderCloseCheck(n) ==
    /\ rd[n] = "close"
    /\ rd' = [rd EXCEPT ![n] = IF AlreadyClosed(client[n]) THEN "done" ELSE "mark"]
    /\ UNCHANGED <<hs, client, on, sock, objVars, mapVars, chanVars, loopVars, kickVars, remote,
                   redisVars, replaced, faults>>

ReaderCloseMark(n) ==
    /\ rd[n] = "mark"
    /\ CloseMark(n, client[n])
    /\ rd' = [rd EXCEPT ![n] = "send"]
    /\ UNCHANGED <<hs, client, on, conn, pool, mapVars, chanVars, loopVars, kickVars, remote, redisVars,
                   replaced, faults>>

ReaderCloseSend(n) ==
    /\ rd[n] = "send"
    /\ CloseSend(n, client[n])
    /\ rd' = [rd EXCEPT ![n] = "done"]
    /\ UNCHANGED <<hs, client, on, sock, conn, closed, pool, mapVars, registerChan, kickHandlerChan,
                   loopVars, kickVars, remote, redisVars, replaced, faults>>

ReaderCloses(n) == \/ CheckClosed(n) \/ HandleMessage(n) \/ ReadError(n)
                   \/ ReaderCloseCheck(n) \/ ReaderCloseMark(n) \/ ReaderCloseSend(n)

Reader(n) == ReadRequest(n) \/ ReaderCloses(n)

-----------------------------------------------------------------------------
(* The event loop of Run.                                                   *)

\* The user, platform and token the loop works for, read when they are used.
WorkUser     == IF lc \in Client THEN UserID(lc) ELSE lc.user
WorkPlatform == IF lc \in Client THEN PlatformID(lc) ELSE lc.platform
WorkToken    == IF lc \in Client THEN TokenOf[conn[lc]] ELSE lc.token

\* registerClient: UserMap.Get, then the kicks of multiTerminalLoginChecker or
\* directly UserMap.Set.
RegisterClient ==
    /\ lpc = "idle"
    /\ registerChan # <<>>
    /\ registerChan' = Tail(registerChan)
    /\ LET c   == Head(registerChan)
           old == Get(UserID(c), PlatformID(c))
       IN  /\ lc' = c
           /\ lnew' = (table[UserID(c)] = {})
           /\ IF old # {} /\ Kicks(PlatformID(c))
              THEN lpc' = "delLoad" /\ lold' = old
              ELSE lpc' = "setLoad" /\ UNCHANGED lold
    /\ UNCHANGED <<connVars, objVars, mapVars, unregisterChan, kickHandlerChan, lcur, lsnap,
                   kickVars, remote, redisVars, replaced, faults>>

\* The case of kickHandlerChan.
KickHandler ==
    /\ lpc = "idle"
    /\ kickHandlerChan # <<>>
    /\ kickHandlerChan' = Tail(kickHandlerChan)
    /\ LET i == Head(kickHandlerChan)
       IN  IF i.old # {} /\ Kicks(i.login.platform)
           THEN lc' = i.login /\ lpc' = "delLoad" /\ lold' = i.old
           ELSE UNCHANGED <<lc, lpc, lold>>
    /\ UNCHANGED <<connVars, objVars, mapVars, registerChan, unregisterChan, lcur, lsnap, lnew,
                   kickVars, remote, redisVars, replaced, faults>>

\* UserMap loads the user's clients, and stores the changed list as a step of
\* its own.
Load ==
    /\ lpc \in {"delLoad", "setLoad", "unLoad"}
    /\ lsnap' = table[WorkUser]
    /\ lpc' = CASE lpc = "delLoad" -> "delStore"
                [] lpc = "setLoad" -> "setStore"
                [] lpc = "unLoad"  -> "unStore"
    /\ UNCHANGED <<connVars, objVars, mapVars, chanVars, lc, lold, lcur, lnew, kickVars, remote,
                   redisVars, replaced, faults>>

\* deleteClients(oldClients); what it returns is ignored.
StoreDeleted ==
    /\ lpc = "delStore"
    /\ table' = IF lsnap = {} THEN table
                ELSE [table EXCEPT ![WorkUser] = Without(lsnap, lold)]
    /\ lpc' = "kick"
    /\ UNCHANGED <<connVars, objVars, userNum, connNum, chanVars, lc, lold, lcur, lsnap, lnew,
                   kickVars, remote, redisVars, replaced, faults>>

\* KickOnlineMessage of the next old client, up to the first test of closed.
KickOld ==
    /\ lpc = "kick"
    /\ IF lold = {}
       THEN lpc' = "tokens" /\ UNCHANGED <<lold, lcur>>
       ELSE \E c \in lold :
               IF AlreadyClosed(c)
               THEN lold' = lold \ {c} /\ UNCHANGED <<lpc, lcur>>
               ELSE lcur' = c /\ lpc' = "mark" /\ UNCHANGED lold
    /\ UNCHANGED <<connVars, objVars, mapVars, chanVars, lc, lsnap, lnew, kickVars, remote,
                   redisVars, replaced, faults>>

LoopCloseMark ==
    /\ lpc = "mark"
    /\ CloseMark(Loop, lcur)
    /\ replaced' = replaced \cup {conn[lcur]}
    /\ lpc' = "send"
    /\ UNCHANGED <<hs, client, rd, on, conn, pool, mapVars, chanVars, lc, lold, lcur, lsnap, lnew,
                   kickVars, remote, redisVars, faults>>

LoopCloseSend ==
    /\ lpc = "send"
    /\ CloseSend(Loop, lcur)
    /\ lold' = lold \ {lcur}
    /\ lpc' = "kick"
    /\ UNCHANGED <<connVars, conn, closed, pool, mapVars, registerChan, kickHandlerChan, lc, lcur,
                   lsnap, lnew, kickVars, remote, redisVars, replaced, faults>>

AfterKick == IF lc \in Client THEN "setLoad" ELSE "idle"

\* The tokens of a user on a platform.
TokensOf(u, p) ==
    { TokenOf[n] : n \in { k \in Conn : UserOf[k] = u /\ PlatformOf[k] = p } }
        \cup { r.token : r \in { s \in Remote : s.user = u /\ s.platform = p } }

\* Mutant: the new login's token is marked instead of the others.
OwnKicked(t) == IF t = WorkToken THEN "kicked" ELSE tokens[t]
\* Every token but the new login's is marked; that one keeps its status.
NewTokenStatus(t) == IF t = WorkToken THEN tokens[t] ELSE "kicked"

\* GetTokensWithoutError and SetTokenMapByUidPid; an error of either is logged.
\* Only this loop writes the status of tokens that are in use.
KickTokens ==
    /\ lpc = "tokens"
    /\ \/ /\ Ok
          /\ tokens' = [t \in Token |-> IF t \in TokensOf(WorkUser, WorkPlatform)
                                        THEN NewTokenStatus(t) ELSE tokens[t]]
       \/ Fails /\ UNCHANGED tokens
    /\ lpc' = AfterKick
    /\ UNCHANGED <<connVars, objVars, mapVars, chanVars, lc, lold, lcur, lsnap, lnew, kickVars,
                   remote, status, replaced>>

\* UserMap.Set, and the counters of registerClient.
StoreNew ==
    /\ lpc = "setStore"
    /\ table' = [table EXCEPT ![WorkUser] = With(lsnap, lc)]
    /\ userNum' = IF lnew THEN userNum + 1 ELSE userNum
    /\ connNum' = connNum + 1
    /\ lpc' = "online"
    /\ UNCHANGED <<connVars, objVars, chanVars, lc, lold, lcur, lsnap, lnew, kickVars, remote,
                   redisVars, replaced, faults>>

\* SetUserOnlineStatus(Online); an error is only logged.
SetOnline ==
    /\ lpc = "online"
    /\ \/ Ok /\ status' = status \cup {<<WorkUser, WorkPlatform>>}
       \/ Fails /\ UNCHANGED status
    /\ lpc' = "idle"
    /\ UNCHANGED <<connVars, objVars, mapVars, chanVars, lc, lold, lcur, lsnap, lnew, kickVars,
                   remote, tokens, replaced>>

UnregisterClient ==
    /\ lpc = "idle"
    /\ unregisterChan # <<>>
    /\ unregisterChan' = Tail(unregisterChan)
    /\ lc' = Head(unregisterChan)
    /\ lpc' = "unLoad"
    /\ UNCHANGED <<connVars, objVars, mapVars, registerChan, kickHandlerChan, lold, lcur, lsnap,
                   lnew, kickVars, remote, redisVars, replaced, faults>>

\* Mutant: the user is counted out with every connection.
AnyDeleted == lsnap # {}
\* isDeleteUser: the user was in the table and has no other client.
IsDeleteUser == lsnap # {} /\ Without(lsnap, {lc}) = {}

\* UserMap.delete, and the counters of unregisterClient.
StoreRemoved ==
    /\ lpc = "unStore"
    /\ table' = IF lsnap = {} THEN table
                ELSE [table EXCEPT ![WorkUser] = Without(lsnap, {lc})]
    /\ userNum' = IF IsDeleteUser THEN userNum - 1 ELSE userNum
    /\ connNum' = connNum - 1
    /\ lpc' = "offline"
    /\ UNCHANGED <<connVars, objVars, chanVars, lc, lold, lcur, lsnap, lnew, kickVars, remote,
                   redisVars, replaced, faults>>

\* Mutant: the user goes offline on every platform.
WithoutUser(st) == { x \in st : x[1] # WorkUser }
\* refreshStatusOffline: the platform is removed from the user's list.
WithoutPlatform(st) == st \ {<<WorkUser, WorkPlatform>>}

\* SetUserOnlineStatus(Offline), then clientPool.Put.
SetOffline ==
    /\ lpc = "offline"
    /\ \/ Ok /\ status' = WithoutPlatform(status)
       \/ Fails /\ UNCHANGED status
    /\ pool' = [pool EXCEPT ![lc] = @ + 1]
    /\ lpc' = "idle"
    /\ UNCHANGED <<connVars, conn, closed, lock, mapVars, chanVars, lc, lold, lcur, lsnap, lnew,
                   kickVars, remote, tokens, replaced>>

Run == \/ RegisterClient \/ KickHandler \/ Load \/ StoreDeleted \/ KickOld \/ LoopCloseMark
       \/ LoopCloseSend \/ KickTokens \/ StoreNew \/ SetOnline
       \/ UnregisterClient \/ StoreRemoved \/ SetOffline

-----------------------------------------------------------------------------
(* The RPC calls.                                                           *)

\* MultiTerminalLoginCheck: the old clients are looked up here and kicked when
\* the event loop gets to it.
MultiTerminalLoginCheck(r) ==
    /\ r \in remote
    /\ remote' = remote \ {r}
    /\ Len(kickHandlerChan) < ChanCap
    /\ kickHandlerChan' =
          IF table[r.user] = {} THEN kickHandlerChan
          ELSE Append(kickHandlerChan, [old |-> Get(r.user, r.platform), login |-> r])
    /\ UNCHANGED <<connVars, objVars, mapVars, registerChan, unregisterChan, loopVars, kickVars,
                   redisVars, replaced, faults>>

KGoto(k, l) == kpc' = [kpc EXCEPT ![k] = l]

\* KickUserOffline: GetUserPlatformCons.
KickUserOffline(k) ==
    /\ kpc[k] = "start"
    /\ kold' = [kold EXCEPT ![k] = Get(KickUser[k], KickPlatform[k])]
    /\ KGoto(k, "next")
    /\ UNCHANGED <<connVars, objVars, mapVars, chanVars, loopVars, kcur, ksnap, remote, redisVars,
                   replaced, faults>>

\* KickUserConn of the next client: deleteClients loads.
KickUserConn(k) ==
    /\ kpc[k] = "next"
    /\ IF kold[k] = {}
       THEN KGoto(k, "done") /\ UNCHANGED <<kcur, ksnap>>
       ELSE \E c \in kold[k] :
               /\ kcur' = [kcur EXCEPT ![k] = c]
               /\ ksnap' = [ksnap EXCEPT ![k] = table[UserID(c)]]
               /\ KGoto(k, "store")
    /\ UNCHANGED <<connVars, objVars, mapVars, chanVars, loopVars, kold, remote, redisVars, replaced,
                   faults>>

\* deleteClients stores; what it returns is ignored.
KickStore(k) ==
    /\ kpc[k] = "store"
    /\ table' = IF ksnap[k] = {} THEN table
                ELSE [table EXCEPT ![UserID(kcur[k])] = Without(ksnap[k], {kcur[k]})]
    /\ KGoto(k, "close")
    /\ UNCHANGED <<connVars, objVars, userNum, connNum, chanVars, loopVars, kold, kcur, ksnap, remote,
                   redisVars, replaced, faults>>

\* KickOnlineMessage, up to the first test of closed.
KickCloseCheck(k) ==
    /\ kpc[k] = "close"
    /\ IF AlreadyClosed(kcur[k])
       THEN KGoto(k, "next") /\ kold' = [kold EXCEPT ![k] = @ \ {kcur[k]}]
       ELSE KGoto(k, "mark") /\ UNCHANGED kold
    /\ UNCHANGED <<connVars, objVars, mapVars, chanVars, loopVars, kcur, ksnap, remote, redisVars,
                   replaced, faults>>

KickCloseMark(k) ==
    /\ kpc[k] = "mark"
    /\ CloseMark(k, kcur[k])
    /\ KGoto(k, "send")
    /\ UNCHANGED <<hs, client, rd, on, conn, pool, mapVars, chanVars, loopVars, kold, kcur, ksnap, remote,
                   redisVars, replaced, faults>>

KickCloseSend(k) ==
    /\ kpc[k] = "send"
    /\ CloseSend(k, kcur[k])
    /\ kold' = [kold EXCEPT ![k] = @ \ {kcur[k]}]
    /\ KGoto(k, "next")
    /\ UNCHANGED <<connVars, conn, closed, pool, mapVars, registerChan, kickHandlerChan, loopVars,
                   kcur, ksnap, remote, redisVars, replaced, faults>>

KickRPC(k) == \/ KickUserOffline(k) \/ KickUserConn(k) \/ KickStore(k) \/ KickCloseCheck(k)
              \/ KickCloseMark(k) \/ KickCloseSend(k)

-----------------------------------------------------------------------------
Handler(n) == (\E c \in Client : ResetClient(n, c)) \/ Accept(n)

Next == \/ \E n \in Conn : ParseWSArgs(n) \/ Handler(n) \/ Reader(n)
        \/ Run
        \/ \E r \in Remote : MultiTerminalLoginCheck(r)
        \/ \E k \in Kick : KickRPC(k)

Spec == Init /\ [][Next]_vars
\* Accepted connections are set up, goroutines run and the event loop is never
\* starved; a peer need not connect, ask or hang up.
Fairness ==
    /\ \A n \in Conn : WF_vars(Handler(n)) /\ WF_vars(ReaderCloses(n))
    /\ WF_vars(Run)
    /\ SF_vars(RegisterClient) /\ SF_vars(UnregisterClient) /\ SF_vars(KickHandler)
    /\ \A k \in Kick : WF_vars(KickRPC(k))

FairSpec == Spec /\ Fairness

-----------------------------------------------------------------------------
(* Properties.                                                              *)

TypeOK ==
    /\ hs \in [Conn -> {"new", "refused", "upgraded", "reset", "up"}]
    /\ client \in [Conn -> Client \cup {NoClient}]
    /\ rd \in [Conn -> {"none", "read", "got", "handle", "close", "mark", "send", "done"}]
    /\ on \in [Conn -> Conn]
    /\ sock \in [Conn -> {"none", "open", "closed"}]
    /\ conn \in [Client -> Conn \cup {NoConn}]
    /\ closed \in [Client -> BOOLEAN]
    /\ lock \in [Client -> Closer \cup {Free}]
    /\ pool \in [Client -> Nat]
    /\ table \in [User -> SUBSET Client]
    /\ userNum \in Int /\ connNum \in Int
    /\ registerChan \in Seq(Client) /\ unregisterChan \in Seq(Client)
    /\ lpc \in {"idle", "delLoad", "delStore", "kick", "mark", "send", "tokens", "setLoad",
                "setStore", "online", "unLoad", "unStore", "offline"}
    /\ lc \in Client \cup Remote \cup {NoClient}
    /\ lold \subseteq Client /\ lsnap \subseteq Client /\ lnew \in BOOLEAN
    /\ lcur \in Client \cup {NoClient}
    /\ kold \in [Kick -> SUBSET Client] /\ ksnap \in [Kick -> SUBSET Client]
    /\ kcur \in [Kick -> Client \cup {NoClient}]
    /\ remote \subseteq Remote
    /\ tokens \in [Token -> {"normal", "kicked"}]
    /\ status \subseteq User \X Platform

Open == { n \in Conn : sock[n] = "open" }

\* Nothing is under way: no handshake, no close, nothing queued, the loop idle.
Settled ==
    /\ lpc = "idle" /\ registerChan = <<>> /\ unregisterChan = <<>> /\ kickHandlerChan = <<>>
    /\ \A n \in Conn :
          /\ hs[n] \in {"new", "refused", "up"}
          /\ rd[n] \in {"none", "done"} \/ (rd[n] = "read" /\ sock[on[n]] = "open")
    /\ \A k \in Kick : kpc[k] \in {"start", "done"}

\* When nothing is under way the table holds exactly the open connections of
\* each user: a push reaches every device and no dead one.  registerClient and
\* unregisterClient run in one goroutine but are fed by two channels, and the
\* objects in the table are recycled.
TableHoldsOpen ==
    Settled => \A u \in User : { conn[c] : c \in table[u] } = { n \in Open : UserOf[n] = u }

\* onlineUserNum, and with it OnlineUserGauge, counts the users with an open
\* connection when nothing is under way.
GaugeCountsUsers == Settled => userNum = Cardinality({ UserOf[n] : n \in Open })

\* onlineUserConnNum, which ParseWSArgs compares with the limit, counts the
\* open connections when nothing is under way.
ConnNumCountsOpen == Settled => connNum = Cardinality(Open)

\* Under AllLoginButSameTermKick at most one connection of a user is open on a
\* platform once everything has settled, in whatever order logins were accepted
\* and registered.
SameTerminalExclusive ==
    Settled /\ KickPolicy = "sameTerminal" =>
        \A n, k \in Open : UserOf[n] = UserOf[k] /\ PlatformOf[n] = PlatformOf[k] => n = k

\* The token of a connection that was closed for a newer login is dead, unless
\* that login uses the same token: the replaced device cannot come back and
\* replace its successor.
ReplacedTokenDead ==
    Settled /\ faults = 0 =>
        \A n \in replaced :
            \/ tokens[TokenOf[n]] = "kicked"
            \/ \E k \in Conn \ replaced : hs[k] = "up" /\ TokenOf[k] = TokenOf[n]
            \/ \E r \in Remote \ remote : r.token = TokenOf[n]

\* The platforms shown online are those with an open connection.
StatusInSync ==
    Settled /\ faults = 0 => status = { <<UserOf[n], PlatformOf[n]>> : n \in Open }

\* A reader that handles a request still has the client of its own connection:
\* the test of closed turns away a reader whose connection was closed.
HandlesOwnRequest == \A n \in Conn : rd[n] = "handle" => conn[client[n]] = on[n]

\* The clients KickUserOffline finds are closed, although each one is looked up
\* before the earlier ones are kicked.
KickedAreClosed ==
    \A k \in Kick, n \in Conn :
        (kpc[k] = "next" /\ \E c \in kold[k] : conn[c] = n) ~> sock[n] = "closed"

\* A connection the server has closed, for whatever reason, leaves the table
\* for good: close hands it to the event loop through a channel the loop itself
\* may be blocked on.
ClosedLeavesTable == \A n \in Conn : sock[n] = "closed" ~> [](~Registered(n))
=============================================================================
