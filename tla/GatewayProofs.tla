---------------------------- MODULE GatewayProofs ----------------------------
(***************************************************************************)
(* Proofs about Gateway, for any number of connections, Client objects,    *)
(* users, logins at other nodes and calls of KickUserOffline.              *)
(***************************************************************************)
EXTENDS Gateway, Functions, FiniteSetTheorems, TLAPS

-----------------------------------------------------------------------------
(* Sequences.                                                               *)

LEMMA SeqMonotone ==
    ASSUME NEW S, NEW T, S \subseteq T
    PROVE  Seq(S) \subseteq Seq(T)
OBVIOUS

-----------------------------------------------------------------------------
(* Every object that is held anywhere has been Reset, and for a connection  *)
(* whose handler holds it.                                                  *)

Live == { c \in Client : conn[c] \in Conn }
Held == [old : SUBSET Live, login : Remote]
HasObj(n) == hs[n] \in {"reset", "up"}

RegPc  == {"delLoad", "delStore", "kick", "mark", "send", "tokens", "setLoad", "setStore"}
OwnPc  == {"setLoad", "setStore", "online", "unLoad", "unStore", "offline"}

TypeConn == /\ hs \in [Conn -> {"new", "refused", "upgraded", "reset", "up"}]
            /\ client \in [Conn -> Client \cup {NoClient}]
            /\ rd \in [Conn -> {"none", "read", "got", "handle", "close", "mark", "send", "done"}]
            /\ on \in [Conn -> Conn]
            /\ sock \in [Conn -> {"none", "open", "closed"}]
TypeObj  == /\ conn \in [Client -> Conn \cup {NoConn}]
            /\ closed \in [Client -> BOOLEAN]
            /\ lock \in [Client -> Closer \cup {Free}]
            /\ pool \in [Client -> Nat]
TypeMap  == /\ userNum \in Int /\ connNum \in Int
TypeLoop == /\ lpc \in {"idle", "delLoad", "delStore", "kick", "mark", "send", "tokens", "setLoad",
                        "setStore", "online", "unLoad", "unStore", "offline"}
            /\ lc \in Client \cup Remote \cup {NoClient}
            /\ lnew \in BOOLEAN
            /\ lcur \in Client \cup {NoClient}
TypeKick == /\ kcur \in [Kick -> Client \cup {NoClient}]
TypeRest == /\ remote \subseteq Remote
            /\ tokens \in [Token -> {"normal", "kicked"}]
            /\ status \subseteq User \X Platform

KindsOK == /\ kpc \in [Kick -> {"start", "next", "store", "close", "mark", "send", "done"}]
           /\ faults \in Nat
           /\ replaced \subseteq Conn

HandlersHold == \A n \in Conn : HasObj(n) => client[n] \in Live
ReadersUp    == \A n \in Conn : rd[n] # "none" <=> hs[n] = "up"
RegChanHolds  == registerChan \in Seq(Live)
UnChanHolds   == unregisterChan \in Seq(Live)
KickChanHolds == kickHandlerChan \in Seq(Held)
TableHolds   == table \in [User -> SUBSET Live]
LoopHolds    == /\ lsnap \subseteq Live
                /\ lold \subseteq Live
                /\ lpc # "idle" => lc \in Live \cup Remote
                /\ lpc \in OwnPc => lc \in Live
                /\ lpc \in {"mark", "send"} => lcur \in Live
KicksHold    == /\ kold \in [Kick -> SUBSET Live]
                /\ ksnap \in [Kick -> SUBSET Live]
                /\ \A k \in Kick : kpc[k] \in {"store", "close", "mark", "send"} => kcur[k] \in Live
OwnersKnown  == \A c \in Live : client[conn[c]] = c /\ HasObj(conn[c])
SockOK       == \A n \in Conn : /\ sock[n] = "none" <=> hs[n] \in {"new", "refused"}
                                /\ hs[n] = "upgraded" => sock[n] = "open"
ClosedOK     == \A c \in Live : closed[c] <=> sock[conn[c]] = "closed"
PoolOK       == \A c \in Client : c \notin Live => pool[c] = 0

Base == /\ TypeConn /\ TypeObj /\ TypeMap /\ TypeLoop /\ TypeKick /\ TypeRest /\ KindsOK
        /\ HandlersHold /\ ReadersUp /\ RegChanHolds /\ UnChanHolds
        /\ KickChanHolds /\ TableHolds /\ LoopHolds /\ KicksHold /\ OwnersKnown /\ SockOK
        /\ ClosedOK /\ PoolOK

LEMMA BaseTypes == Base => TypeOK
<1> SUFFICES ASSUME Base PROVE TypeOK
  OBVIOUS
<1>1. registerChan \in Seq(Client) /\ unregisterChan \in Seq(Client)
  <2>1. Live \subseteq Client
    BY DEF Live
  <2> QED
    BY <2>1, SeqMonotone DEF Base, RegChanHolds, UnChanHolds
<1>2. table \in [User -> SUBSET Client]
  BY DEF Base, TableHolds, Live
<1>3. kold \in [Kick -> SUBSET Client] /\ ksnap \in [Kick -> SUBSET Client]
  BY DEF Base, KicksHold, Live
<1>4. lold \subseteq Client /\ lsnap \subseteq Client
  BY DEF Base, LoopHolds, Live
<1> QED
  BY <1>1, <1>2, <1>3, <1>4 DEF Base, TypeOK, TypeConn, TypeObj, TypeMap, TypeLoop, TypeKick, TypeRest

LEMMA LiveOK == \A c \in Live : c \in Client /\ conn[c] \in Conn
BY DEF Live

\* What the event loop works for.
LEMMA WorkOK ==
    ASSUME Base, lpc # "idle"
    PROVE  WorkUser \in User /\ WorkPlatform \in Platform /\ WorkToken \in Token
<1>1. CASE lc \in Live
  BY <1>1, GatewayAssumption DEF Live, WorkUser, WorkPlatform, WorkToken, UserID, PlatformID
<1>2. CASE lc \in Remote
  BY <1>2, GatewayAssumption DEF WorkUser, WorkPlatform, WorkToken
<1> QED
  BY <1>1, <1>2 DEF Base, LoopHolds

LEMMA GetLive ==
    ASSUME Base, NEW u \in User, NEW p
    PROVE  Get(u, p) \subseteq table[u] /\ Get(u, p) \subseteq Live
BY DEF Base, TableHolds, Get

LEMMA WithoutSubset == \A cs, gone : Without(cs, gone) \subseteq cs
BY DEF Without

LEMMA FieldsOK == \A c \in Live : UserID(c) \in User /\ PlatformID(c) \in Platform
BY GatewayAssumption DEF Live, UserID, PlatformID

LEMMA RegisterHead ==
    ASSUME Base, registerChan # <<>>
    PROVE  Head(registerChan) \in Live /\ Tail(registerChan) \in Seq(Live)
BY DEF Base, RegChanHolds

LEMMA UnregisterHead ==
    ASSUME Base, unregisterChan # <<>>
    PROVE  Head(unregisterChan) \in Live /\ Tail(unregisterChan) \in Seq(Live)
BY DEF Base, UnChanHolds

LEMMA KickHead ==
    ASSUME Base, kickHandlerChan # <<>>
    PROVE  /\ Head(kickHandlerChan).old \subseteq Live
           /\ Head(kickHandlerChan).login \in Remote
           /\ Tail(kickHandlerChan) \in Seq(Held)
<1>1. Head(kickHandlerChan) \in Held /\ Tail(kickHandlerChan) \in Seq(Held)
  BY DEF Base, KickChanHolds
<1> QED
  BY <1>1 DEF Held

LEMMA TableStored ==
    ASSUME Base, NEW u \in User, NEW cs \in SUBSET Live, table' = [table EXCEPT ![u] = cs], Live' = Live
    PROVE  TableHolds'
BY DEF Base, TableHolds

\* Client.close, whoever calls it.
LEMMA CloseMarkBase ==
    ASSUME Base, NEW who \in Closer, NEW c \in Live, CloseMark(who, c), UNCHANGED <<conn, hs>>,
           Live' = Live
    PROVE  /\ conn[c] \in Conn /\ hs[conn[c]] \in {"reset", "up"}
           /\ sock' \in [Conn -> {"none", "open", "closed"}]
           /\ lock' \in [Client -> Closer \cup {Free}]
           /\ closed' \in [Client -> BOOLEAN]
           /\ SockOK' /\ ClosedOK'
<1>1. conn[c] \in Conn /\ hs[conn[c]] \in {"reset", "up"}
  BY DEF Base, Live, OwnersKnown, HasObj
<1>2. /\ sock' \in [Conn -> {"none", "open", "closed"}]
      /\ \A n \in Conn : sock'[n] = IF n = conn[c] THEN "closed" ELSE sock[n]
  BY <1>1 DEF Base, CloseMark, TypeConn
<1>3. /\ closed' \in [Client -> BOOLEAN]
      /\ \A d \in Client : closed'[d] = IF d = c THEN TRUE ELSE closed[d]
  BY DEF Base, CloseMark, TypeObj
<1>4. lock' \in [Client -> Closer \cup {Free}]
  BY DEF Base, CloseMark, TypeObj, Live
<1>5. SockOK'
  BY <1>1, <1>2 DEF Base, SockOK, TypeConn
<1>6. ASSUME NEW d \in Live
      PROVE  (closed[d] <=> sock[conn[d]] = "closed")'
  <2>1. conn[d] = conn[c] => d = c
    BY DEF Base, OwnersKnown
  <2>2. conn[d] \in Conn /\ d \in Client
    BY DEF Live
  <2> QED
    BY <1>2, <1>3, <2>1, <2>2 DEF Base, ClosedOK
<1> QED
  BY <1>1, <1>2, <1>3, <1>4, <1>5, <1>6 DEF ClosedOK

LEMMA CloseSendBase ==
    ASSUME Base, NEW who \in Closer, NEW c \in Live, CloseSend(who, c), Live' = Live
    PROVE  UnChanHolds' /\ lock' \in [Client -> Closer \cup {Free}]
<1>1. unregisterChan' \in Seq(Live)
  BY DEF Base, UnChanHolds, CloseSend
<1>2. lock' \in [Client -> Closer \cup {Free}]
  BY DEF Base, TypeObj, CloseSend
<1> QED
  BY <1>1, <1>2 DEF UnChanHolds

LEMMA InitBase == Init => Base
<1> SUFFICES ASSUME Init PROVE Base
  OBVIOUS
<1>1. Live = {}
  BY GatewayAssumption DEF Init, Live
<1>2. TypeConn /\ TypeObj /\ TypeMap
  BY GatewayAssumption DEF Init, TypeConn, TypeObj, TypeMap
<1>3. TypeLoop /\ TypeKick /\ TypeRest /\ KindsOK
  BY GatewayAssumption DEF Init, TypeLoop, TypeKick, TypeRest, KindsOK
<1>4. RegChanHolds /\ UnChanHolds /\ KickChanHolds
  BY DEF Init, RegChanHolds, UnChanHolds, KickChanHolds
<1>5. TableHolds /\ LoopHolds /\ KicksHold
  BY <1>1 DEF Init, TableHolds, LoopHolds, KicksHold, OwnPc
<1>6. HandlersHold /\ ReadersUp /\ SockOK
  BY DEF Init, HandlersHold, ReadersUp, SockOK, HasObj
<1>7. OwnersKnown /\ ClosedOK /\ PoolOK
  BY <1>1 DEF Init, OwnersKnown, ClosedOK, PoolOK
<1> QED
  BY <1>2, <1>3, <1>4, <1>5, <1>6, <1>7 DEF Base


LEMMA ParseWSArgsBase ==
    ASSUME Base, NEW n \in Conn, ParseWSArgs(n)
    PROVE  Base'
<1>1. Live' = Live /\ Held' = Held
  BY DEF Live, Held, ParseWSArgs, redisVars, kickVars, loopVars, chanVars, mapVars, objVars
<1>2. TypeObj' /\ TypeMap' /\ TypeLoop' /\ TypeKick' /\ TypeRest' /\ KindsOK'
      /\ RegChanHolds' /\ UnChanHolds' /\ KickChanHolds' /\ TableHolds'
      /\ LoopHolds' /\ KicksHold' /\ PoolOK'
  BY <1>1 DEF Base, TypeObj, Free, Closer, Loop, NoConn, TypeMap, TypeLoop, NoClient, TypeKick,
      TypeRest, KindsOK, RegChanHolds, UnChanHolds, KickChanHolds, TableHolds,
      LoopHolds, OwnPc, KicksHold, PoolOK, ParseWSArgs, redisVars, kickVars,
      loopVars, chanVars, mapVars, objVars
<1>3. TypeConn'
  BY <1>1, LiveOK, GatewayAssumption DEF Base, TypeConn, NoClient, ParseWSArgs, AtLimit, redisVars, kickVars, loopVars,
      chanVars, mapVars, objVars
<1>4. HandlersHold'
  BY <1>1, LiveOK DEF Base, HandlersHold, HasObj, TypeConn, ParseWSArgs, AtLimit, redisVars, kickVars,
      loopVars, chanVars, mapVars, objVars
<1>5. ReadersUp'
  BY <1>1, LiveOK DEF Base, ReadersUp, TypeConn, ParseWSArgs, AtLimit, redisVars, kickVars, loopVars,
      chanVars, mapVars, objVars
<1>6. OwnersKnown'
  BY <1>1, LiveOK DEF Base, OwnersKnown, HasObj, TypeConn, ParseWSArgs, AtLimit, redisVars, kickVars,
      loopVars, chanVars, mapVars, objVars
<1>7. SockOK'
  BY <1>1, LiveOK DEF Base, SockOK, TypeConn, ParseWSArgs, AtLimit, redisVars, kickVars, loopVars,
      chanVars, mapVars, objVars
<1>8. ClosedOK'
  <2>1. \A d \in Live : conn[d] # n
    BY DEF Base, OwnersKnown, HasObj, ParseWSArgs
  <2> QED
    BY <1>1, <2>1, LiveOK DEF Base, ClosedOK, TypeConn, ParseWSArgs, objVars
<1> QED
  BY <1>2, <1>3, <1>4, <1>5, <1>6, <1>7, <1>8 DEF Base

LEMMA ResetClientBase ==
    ASSUME Base, NEW n \in Conn, NEW c \in Client, ResetClient(n, c)
    PROVE  Base'
<1>1. /\ \A m \in Conn : hs'[m] = IF m = n THEN "reset" ELSE hs[m]
      /\ \A m \in Conn : client'[m] = IF m = n THEN c ELSE client[m]
      /\ hs[n] = "upgraded"
  BY DEF Base, TypeConn, ResetClient
<1>2. /\ \A d \in Client : conn'[d] = IF d = c THEN n ELSE conn[d]
      /\ \A d \in Client : closed'[d] = IF d = c THEN FALSE ELSE closed[d]
      /\ \A d \in Client : d # c => pool'[d] = pool[d]
  BY DEF Base, TypeObj, ResetClient
<1>3. Live' = Live \cup {c}
  BY <1>2 DEF Live
<1>4. Live \subseteq Live' /\ Held \subseteq Held'
  BY <1>3 DEF Held
<1>5. TypeConn'
  BY DEF Base, TypeConn, ResetClient, NoClient
<1>6. TypeObj'
  <2>1. conn' \in [Client -> Conn \cup {NoConn}] /\ closed' \in [Client -> BOOLEAN]
    BY DEF Base, TypeObj, ResetClient
  <2>2. lock' \in [Client -> Closer \cup {Free}]
    BY DEF Base, TypeObj, ResetClient
  <2>3. pool' \in [Client -> Nat]
    <3>1. (IF conn[c] = NoConn THEN 0 ELSE pool[c] - 1) \in Nat
      BY DEF Base, TypeObj, ResetClient, Available
    <3> QED
      BY <3>1 DEF Base, TypeObj, ResetClient
  <2> QED
    BY <2>1, <2>2, <2>3 DEF TypeObj
<1>7. TypeMap' /\ TypeLoop' /\ TypeKick' /\ TypeRest' /\ KindsOK'
  BY DEF Base, TypeMap, TypeLoop, TypeKick, TypeRest, KindsOK, ResetClient, redisVars, kickVars,
      loopVars, mapVars
<1>8. HandlersHold'
  BY <1>1, <1>3 DEF Base, HandlersHold, HasObj
<1>9. ReadersUp' /\ SockOK'
  BY <1>1 DEF Base, ReadersUp, SockOK, ResetClient, TypeConn
<1>10. RegChanHolds' /\ UnChanHolds' /\ KickChanHolds'
  BY <1>4, SeqMonotone DEF Base, RegChanHolds, UnChanHolds, KickChanHolds, ResetClient, chanVars
<1>11. TableHolds'
  BY <1>4 DEF Base, TableHolds, ResetClient, mapVars
<1>12. LoopHolds'
  BY <1>4 DEF Base, LoopHolds, OwnPc, ResetClient, loopVars
<1>13. KicksHold'
  BY <1>4 DEF Base, KicksHold, ResetClient, kickVars
<1>14. ASSUME NEW d \in Live'
       PROVE  /\ (client[conn[d]] = d)' /\ (HasObj(conn[d]))'
              /\ (closed[d] <=> sock[conn[d]] = "closed")'
  <2>1. CASE d = c
    <3>1. sock[n] = "open"
      BY <1>1 DEF Base, SockOK
    <3> QED
      BY <1>1, <1>2, <2>1, <3>1 DEF HasObj, ResetClient
  <2>2. CASE d # c
    <3>1. d \in Live /\ d \in Client /\ conn[d] \in Conn
      BY <1>3, <2>2 DEF Live
    <3>2. conn[d] # n
      BY <1>1, <3>1 DEF Base, OwnersKnown, HasObj
    <3> QED
      BY <1>1, <1>2, <2>2, <3>1, <3>2 DEF Base, OwnersKnown, ClosedOK, HasObj, ResetClient
  <2> QED
    BY <2>1, <2>2
<1>15. OwnersKnown' /\ ClosedOK'
  BY <1>14 DEF OwnersKnown, ClosedOK
<1>16. PoolOK'
  BY <1>2, <1>3 DEF Base, PoolOK
<1> QED
  BY <1>5, <1>6, <1>7, <1>8, <1>9, <1>10, <1>11, <1>12, <1>13, <1>15, <1>16 DEF Base

LEMMA AcceptBase ==
    ASSUME Base, NEW n \in Conn, Accept(n)
    PROVE  Base'
<1>0. client[n] \in Live /\ conn[client[n]] \in Conn
  BY DEF Base, HandlersHold, HasObj, Accept, Live
<1>1. Live' = Live /\ Held' = Held
  BY DEF Live, Held, Accept, redisVars, kickVars, loopVars, mapVars, objVars
<1>2. TypeObj' /\ TypeMap' /\ TypeLoop' /\ TypeKick' /\ TypeRest' /\ KindsOK'
      /\ UnChanHolds' /\ KickChanHolds' /\ TableHolds' /\ LoopHolds' /\ KicksHold'
      /\ ClosedOK' /\ PoolOK'
  BY <1>1 DEF Base, TypeObj, Free, Closer, Loop, NoConn, TypeMap, TypeLoop, NoClient, TypeKick,
      TypeRest, KindsOK, UnChanHolds, KickChanHolds, TableHolds, LoopHolds, OwnPc,
      KicksHold, ClosedOK, PoolOK, Accept, redisVars, kickVars, loopVars, mapVars,
      objVars
<1>3. TypeConn'
  BY <1>0, <1>1, LiveOK, GatewayAssumption DEF Base, TypeConn, NoClient, Accept, redisVars, kickVars, loopVars, mapVars, objVars
<1>4. HandlersHold'
  BY <1>0, <1>1, LiveOK DEF Base, HandlersHold, HasObj, TypeConn, Accept, redisVars, kickVars, loopVars, mapVars,
      objVars
<1>5. ReadersUp'
  BY <1>0, <1>1, LiveOK DEF Base, ReadersUp, TypeConn, Accept, redisVars, kickVars, loopVars, mapVars, objVars
<1>6. RegChanHolds'
  BY <1>0, <1>1, LiveOK DEF Base, RegChanHolds, Accept, redisVars, kickVars, loopVars, mapVars, objVars
<1>7. OwnersKnown'
  BY <1>0, <1>1, LiveOK DEF Base, OwnersKnown, HasObj, TypeConn, Accept, redisVars, kickVars, loopVars, mapVars,
      objVars
<1>8. SockOK'
  BY <1>0, <1>1, LiveOK DEF Base, SockOK, TypeConn, Accept, redisVars, kickVars, loopVars, mapVars, objVars
<1> QED
  BY <1>2, <1>3, <1>4, <1>5, <1>6, <1>7, <1>8 DEF Base

LEMMA ReadRequestBase ==
    ASSUME Base, NEW n \in Conn, ReadRequest(n)
    PROVE  Base'
<1>1. Live' = Live /\ Held' = Held
  BY DEF Live, Held, ReadRequest, redisVars, kickVars, loopVars, chanVars, mapVars, objVars
<1>2. TypeObj' /\ TypeMap' /\ TypeLoop' /\ TypeKick' /\ TypeRest' /\ KindsOK'
      /\ HandlersHold' /\ RegChanHolds' /\ UnChanHolds' /\ KickChanHolds'
      /\ TableHolds' /\ LoopHolds' /\ KicksHold' /\ OwnersKnown' /\ SockOK'
      /\ ClosedOK' /\ PoolOK'
  BY <1>1 DEF Base, TypeObj, Free, Closer, Loop, NoConn, TypeMap, TypeLoop, NoClient, TypeKick,
      TypeRest, KindsOK, HandlersHold, HasObj, RegChanHolds, UnChanHolds,
      KickChanHolds, TableHolds, LoopHolds, OwnPc, KicksHold, OwnersKnown, SockOK,
      ClosedOK, PoolOK, ReadRequest, redisVars, kickVars, loopVars, chanVars,
      mapVars, objVars
<1>3. TypeConn'
  BY <1>1, LiveOK, GatewayAssumption DEF Base, TypeConn, NoClient, ReadRequest, redisVars, kickVars, loopVars, chanVars,
      mapVars, objVars
<1>4. ReadersUp'
  BY <1>1, LiveOK DEF Base, ReadersUp, TypeConn, ReadRequest, redisVars, kickVars, loopVars, chanVars,
      mapVars, objVars
<1> QED
  BY <1>2, <1>3, <1>4 DEF Base

LEMMA CheckClosedBase ==
    ASSUME Base, NEW n \in Conn, CheckClosed(n)
    PROVE  Base'
<1>1. Live' = Live /\ Held' = Held
  BY DEF Live, Held, CheckClosed, redisVars, kickVars, loopVars, chanVars, mapVars, objVars
<1>2. TypeObj' /\ TypeMap' /\ TypeLoop' /\ TypeKick' /\ TypeRest' /\ KindsOK'
      /\ HandlersHold' /\ RegChanHolds' /\ UnChanHolds' /\ KickChanHolds'
      /\ TableHolds' /\ LoopHolds' /\ KicksHold' /\ OwnersKnown' /\ SockOK'
      /\ ClosedOK' /\ PoolOK'
  BY <1>1 DEF Base, TypeObj, Free, Closer, Loop, NoConn, TypeMap, TypeLoop, NoClient, TypeKick,
      TypeRest, KindsOK, HandlersHold, HasObj, RegChanHolds, UnChanHolds,
      KickChanHolds, TableHolds, LoopHolds, OwnPc, KicksHold, OwnersKnown, SockOK,
      ClosedOK, PoolOK, CheckClosed, redisVars, kickVars, loopVars, chanVars,
      mapVars, objVars
<1>3. TypeConn'
  BY <1>1, LiveOK, GatewayAssumption DEF Base, TypeConn, NoClient, CheckClosed, redisVars, kickVars, loopVars, chanVars,
      mapVars, objVars
<1>4. ReadersUp'
  BY <1>1, LiveOK DEF Base, ReadersUp, TypeConn, CheckClosed, redisVars, kickVars, loopVars, chanVars,
      mapVars, objVars
<1> QED
  BY <1>2, <1>3, <1>4 DEF Base

LEMMA HandleMessageBase ==
    ASSUME Base, NEW n \in Conn, HandleMessage(n)
    PROVE  Base'
<1>0. client[n] \in Live /\ conn[client[n]] \in Conn
  BY DEF Base, HandlersHold, ReadersUp, HasObj, HandleMessage, Live
<1>1. Live' = Live /\ Held' = Held
  BY DEF Live, Held, HandleMessage, redisVars, kickVars, loopVars, chanVars, mapVars, objVars
<1>2. TypeObj' /\ TypeMap' /\ TypeLoop' /\ TypeKick' /\ TypeRest' /\ KindsOK'
      /\ HandlersHold' /\ RegChanHolds' /\ UnChanHolds' /\ KickChanHolds'
      /\ TableHolds' /\ LoopHolds' /\ KicksHold' /\ OwnersKnown' /\ SockOK'
      /\ ClosedOK' /\ PoolOK'
  BY <1>1 DEF Base, TypeObj, Free, Closer, Loop, NoConn, TypeMap, TypeLoop, NoClient, TypeKick,
      TypeRest, KindsOK, HandlersHold, HasObj, RegChanHolds, UnChanHolds,
      KickChanHolds, TableHolds, LoopHolds, OwnPc, KicksHold, OwnersKnown, SockOK,
      ClosedOK, PoolOK, HandleMessage, redisVars, kickVars, loopVars, chanVars,
      mapVars, objVars
<1>3. TypeConn'
  BY <1>0, <1>1, LiveOK, GatewayAssumption DEF Base, TypeConn, NoClient, HandleMessage, redisVars, kickVars, loopVars, chanVars,
      mapVars, objVars
<1>4. ReadersUp'
  BY <1>0, <1>1, LiveOK DEF Base, ReadersUp, TypeConn, HandleMessage, redisVars, kickVars, loopVars, chanVars,
      mapVars, objVars
<1> QED
  BY <1>2, <1>3, <1>4 DEF Base

LEMMA ReadErrorBase ==
    ASSUME Base, NEW n \in Conn, ReadError(n)
    PROVE  Base'
<1>1. Live' = Live /\ Held' = Held
  BY DEF Live, Held, ReadError, redisVars, kickVars, loopVars, chanVars, mapVars, objVars
<1>2. TypeObj' /\ TypeMap' /\ TypeLoop' /\ TypeKick' /\ TypeRest' /\ KindsOK'
      /\ HandlersHold' /\ RegChanHolds' /\ UnChanHolds' /\ KickChanHolds'
      /\ TableHolds' /\ LoopHolds' /\ KicksHold' /\ OwnersKnown' /\ SockOK'
      /\ ClosedOK' /\ PoolOK'
  BY <1>1 DEF Base, TypeObj, Free, Closer, Loop, NoConn, TypeMap, TypeLoop, NoClient, TypeKick,
      TypeRest, KindsOK, HandlersHold, HasObj, RegChanHolds, UnChanHolds,
      KickChanHolds, TableHolds, LoopHolds, OwnPc, KicksHold, OwnersKnown, SockOK,
      ClosedOK, PoolOK, ReadError, redisVars, kickVars, loopVars, chanVars,
      mapVars, objVars
<1>3. TypeConn'
  BY <1>1, LiveOK, GatewayAssumption DEF Base, TypeConn, NoClient, ReadError, Registered, redisVars, kickVars, loopVars,
      chanVars, mapVars, objVars
<1>4. ReadersUp'
  BY <1>1, LiveOK DEF Base, ReadersUp, TypeConn, ReadError, Registered, redisVars, kickVars, loopVars,
      chanVars, mapVars, objVars
<1> QED
  BY <1>2, <1>3, <1>4 DEF Base

LEMMA ReaderCloseCheckBase ==
    ASSUME Base, NEW n \in Conn, ReaderCloseCheck(n)
    PROVE  Base'
<1>1. Live' = Live /\ Held' = Held
  BY DEF Live, Held, ReaderCloseCheck, redisVars, kickVars, loopVars, chanVars, mapVars, objVars
<1>2. TypeObj' /\ TypeMap' /\ TypeLoop' /\ TypeKick' /\ TypeRest' /\ KindsOK'
      /\ HandlersHold' /\ RegChanHolds' /\ UnChanHolds' /\ KickChanHolds'
      /\ TableHolds' /\ LoopHolds' /\ KicksHold' /\ OwnersKnown' /\ SockOK'
      /\ ClosedOK' /\ PoolOK'
  BY <1>1 DEF Base, TypeObj, Free, Closer, Loop, NoConn, TypeMap, TypeLoop, NoClient, TypeKick,
      TypeRest, KindsOK, HandlersHold, HasObj, RegChanHolds, UnChanHolds,
      KickChanHolds, TableHolds, LoopHolds, OwnPc, KicksHold, OwnersKnown, SockOK,
      ClosedOK, PoolOK, ReaderCloseCheck, redisVars, kickVars, loopVars, chanVars,
      mapVars, objVars
<1>3. TypeConn'
  BY <1>1, LiveOK, GatewayAssumption DEF Base, TypeConn, NoClient, ReaderCloseCheck, AlreadyClosed, redisVars, kickVars,
      loopVars, chanVars, mapVars, objVars
<1>4. ReadersUp'
  BY <1>1, LiveOK DEF Base, ReadersUp, TypeConn, ReaderCloseCheck, AlreadyClosed, redisVars, kickVars,
      loopVars, chanVars, mapVars, objVars
<1> QED
  BY <1>2, <1>3, <1>4 DEF Base

LEMMA ReaderCloseMarkBase ==
    ASSUME Base, NEW n \in Conn, ReaderCloseMark(n)
    PROVE  Base'
<1>0. client[n] \in Live /\ n \in Closer
  BY DEF Base, HandlersHold, ReadersUp, HasObj, ReaderCloseMark, Closer
<1>1. Live' = Live /\ Held' = Held
  BY DEF Live, Held, ReaderCloseMark, redisVars, kickVars, loopVars, chanVars, mapVars
<1>2. TypeMap' /\ TypeLoop' /\ TypeKick' /\ TypeRest' /\ KindsOK' /\ HandlersHold'
      /\ RegChanHolds' /\ UnChanHolds' /\ KickChanHolds' /\ TableHolds'
      /\ LoopHolds' /\ KicksHold' /\ OwnersKnown' /\ PoolOK'
  BY <1>1 DEF Base, TypeMap, TypeLoop, NoClient, TypeKick, TypeRest, KindsOK, HandlersHold, HasObj,
      RegChanHolds, UnChanHolds, KickChanHolds, TableHolds, LoopHolds, OwnPc,
      KicksHold, OwnersKnown, PoolOK, ReaderCloseMark, redisVars, kickVars,
      loopVars, chanVars, mapVars
<1>3. TypeConn'
  BY <1>0, <1>1, LiveOK, GatewayAssumption DEF Base, TypeConn, NoClient, ReaderCloseMark, CloseMark, Free, redisVars, kickVars,
      loopVars, chanVars, mapVars
<1>4. TypeObj'
  BY <1>0, <1>1, LiveOK, GatewayAssumption DEF Base, TypeObj, Free, Closer, Loop, NoConn, ReaderCloseMark, CloseMark, redisVars,
      kickVars, loopVars, chanVars, mapVars
<1>5. ReadersUp'
  BY <1>0, <1>1, LiveOK DEF Base, ReadersUp, TypeConn, ReaderCloseMark, CloseMark, Free, redisVars, kickVars,
      loopVars, chanVars, mapVars
<1>6. SockOK'
  BY <1>0, <1>1, CloseMarkBase DEF ReaderCloseMark
<1>7. ClosedOK'
  BY <1>0, <1>1, CloseMarkBase DEF ReaderCloseMark
<1> QED
  BY <1>2, <1>3, <1>4, <1>5, <1>6, <1>7 DEF Base

LEMMA ReaderCloseSendBase ==
    ASSUME Base, NEW n \in Conn, ReaderCloseSend(n)
    PROVE  Base'
<1>0. client[n] \in Live /\ n \in Closer
  BY DEF Base, HandlersHold, ReadersUp, HasObj, ReaderCloseSend, Closer
<1>1. Live' = Live /\ Held' = Held
  BY DEF Live, Held, ReaderCloseSend, redisVars, kickVars, loopVars, mapVars
<1>2. TypeMap' /\ TypeLoop' /\ TypeKick' /\ TypeRest' /\ KindsOK' /\ HandlersHold'
      /\ RegChanHolds' /\ KickChanHolds' /\ TableHolds' /\ LoopHolds' /\ KicksHold'
      /\ OwnersKnown' /\ SockOK' /\ ClosedOK' /\ PoolOK'
  BY <1>1 DEF Base, TypeMap, TypeLoop, NoClient, TypeKick, TypeRest, KindsOK, HandlersHold, HasObj,
      RegChanHolds, KickChanHolds, TableHolds, LoopHolds, OwnPc, KicksHold,
      OwnersKnown, SockOK, ClosedOK, PoolOK, ReaderCloseSend, redisVars, kickVars,
      loopVars, mapVars
<1>3. TypeConn'
  BY <1>0, <1>1, LiveOK, GatewayAssumption DEF Base, TypeConn, NoClient, ReaderCloseSend, CloseSend, Free, redisVars, kickVars,
      loopVars, mapVars
<1>4. TypeObj'
  BY <1>0, <1>1, LiveOK, GatewayAssumption DEF Base, TypeObj, Free, Closer, Loop, NoConn, ReaderCloseSend, CloseSend, redisVars,
      kickVars, loopVars, mapVars
<1>5. ReadersUp'
  BY <1>0, <1>1, LiveOK DEF Base, ReadersUp, TypeConn, ReaderCloseSend, CloseSend, Free, redisVars, kickVars,
      loopVars, mapVars
<1>6. UnChanHolds'
  BY <1>0, <1>1, CloseSendBase DEF ReaderCloseSend
<1> QED
  BY <1>2, <1>3, <1>4, <1>5, <1>6 DEF Base

LEMMA RegisterClientBase ==
    ASSUME Base, RegisterClient
    PROVE  Base'
<1>1. Live' = Live /\ Held' = Held
  BY DEF Live, Held, RegisterClient, redisVars, kickVars, mapVars, objVars, connVars
<1>2. TypeConn' /\ TypeObj' /\ TypeMap' /\ TypeKick' /\ TypeRest' /\ KindsOK'
      /\ HandlersHold' /\ ReadersUp' /\ UnChanHolds' /\ KickChanHolds'
      /\ TableHolds' /\ KicksHold' /\ OwnersKnown' /\ SockOK' /\ ClosedOK'
      /\ PoolOK'
  BY <1>1 DEF Base, TypeConn, NoClient, TypeObj, Free, Closer, Loop, NoConn, TypeMap, TypeKick,
      TypeRest, KindsOK, HandlersHold, HasObj, ReadersUp, UnChanHolds,
      KickChanHolds, TableHolds, KicksHold, OwnersKnown, SockOK, ClosedOK, PoolOK,
      RegisterClient, redisVars, kickVars, mapVars, objVars, connVars
<1>3. TypeLoop'
  BY RegisterHead, LiveOK DEF Base, TypeLoop, RegisterClient
<1>4. RegChanHolds'
  BY <1>1, LiveOK, RegisterHead, FieldsOK, GetLive DEF Base, RegChanHolds, RegisterClient, Kicks, redisVars, kickVars, mapVars, objVars,
      connVars
<1>5. LoopHolds'
  BY <1>1, LiveOK, RegisterHead, FieldsOK, GetLive DEF Base, LoopHolds, OwnPc, RegisterClient, Kicks, redisVars, kickVars, mapVars, objVars,
      connVars
<1> QED
  BY <1>2, <1>3, <1>4, <1>5 DEF Base

LEMMA KickHandlerBase ==
    ASSUME Base, KickHandler
    PROVE  Base'
<1>1. Live' = Live /\ Held' = Held
  BY DEF Live, Held, KickHandler, redisVars, kickVars, mapVars, objVars, connVars
<1>2. TypeConn' /\ TypeObj' /\ TypeMap' /\ TypeKick' /\ TypeRest' /\ KindsOK'
      /\ HandlersHold' /\ ReadersUp' /\ RegChanHolds' /\ UnChanHolds' /\ TableHolds'
      /\ KicksHold' /\ OwnersKnown' /\ SockOK' /\ ClosedOK' /\ PoolOK'
  BY <1>1 DEF Base, TypeConn, NoClient, TypeObj, Free, Closer, Loop, NoConn, TypeMap, TypeKick,
      TypeRest, KindsOK, HandlersHold, HasObj, ReadersUp, RegChanHolds,
      UnChanHolds, TableHolds, KicksHold, OwnersKnown, SockOK, ClosedOK, PoolOK,
      KickHandler, redisVars, kickVars, mapVars, objVars, connVars
<1>3. TypeLoop'
  BY <1>1, LiveOK, KickHead, GatewayAssumption DEF Base, TypeLoop, NoClient, KickHandler, Kicks, redisVars, kickVars, mapVars, objVars,
      connVars
<1>4. KickChanHolds'
  BY <1>1, LiveOK, KickHead DEF Base, KickChanHolds, KickHandler, Kicks, redisVars, kickVars, mapVars, objVars,
      connVars
<1>5. LoopHolds'
  BY <1>1, LiveOK, KickHead DEF Base, LoopHolds, OwnPc, KickHandler, Kicks, redisVars, kickVars, mapVars, objVars,
      connVars
<1> QED
  BY <1>2, <1>3, <1>4, <1>5 DEF Base

LEMMA LoadBase ==
    ASSUME Base, Load
    PROVE  Base'
<1>0. WorkUser \in User
  BY WorkOK DEF Load
<1>1. Live' = Live /\ Held' = Held
  BY DEF Live, Held, Load, redisVars, kickVars, chanVars, mapVars, objVars, connVars
<1>2. TypeConn' /\ TypeObj' /\ TypeMap' /\ TypeKick' /\ TypeRest' /\ KindsOK'
      /\ HandlersHold' /\ ReadersUp' /\ RegChanHolds' /\ UnChanHolds'
      /\ KickChanHolds' /\ TableHolds' /\ KicksHold' /\ OwnersKnown' /\ SockOK'
      /\ ClosedOK' /\ PoolOK'
  BY <1>1 DEF Base, TypeConn, NoClient, TypeObj, Free, Closer, Loop, NoConn, TypeMap, TypeKick,
      TypeRest, KindsOK, HandlersHold, HasObj, ReadersUp, RegChanHolds,
      UnChanHolds, KickChanHolds, TableHolds, KicksHold, OwnersKnown, SockOK,
      ClosedOK, PoolOK, Load, redisVars, kickVars, chanVars, mapVars, objVars,
      connVars
<1>3. TypeLoop'
  BY DEF Base, TypeLoop, Load
<1>4. LoopHolds'
  <2>1. lsnap' \subseteq Live
    BY <1>0 DEF Base, TableHolds, Load
  <2>2. (lpc' \in OwnPc <=> lpc \in OwnPc) /\ lpc' \notin {"idle", "mark", "send"} /\ lpc # "idle"
    BY DEF Load, OwnPc
  <2> QED
    BY <1>1, <2>1, <2>2 DEF Base, LoopHolds, Load
<1> QED
  BY <1>2, <1>3, <1>4 DEF Base

LEMMA StoreDeletedBase ==
    ASSUME Base, StoreDeleted
    PROVE  Base'
<1>0. WorkUser \in User
  BY WorkOK DEF StoreDeleted
<1>1. Live' = Live /\ Held' = Held
  BY DEF Live, Held, StoreDeleted, redisVars, kickVars, chanVars, objVars, connVars
<1>2. TypeConn' /\ TypeObj' /\ TypeMap' /\ TypeKick' /\ TypeRest' /\ KindsOK'
      /\ HandlersHold' /\ ReadersUp' /\ RegChanHolds' /\ UnChanHolds'
      /\ KickChanHolds' /\ KicksHold' /\ OwnersKnown' /\ SockOK' /\ ClosedOK'
      /\ PoolOK'
  BY <1>1 DEF Base, TypeConn, NoClient, TypeObj, Free, Closer, Loop, NoConn, TypeMap, TypeKick,
      TypeRest, KindsOK, HandlersHold, HasObj, ReadersUp, RegChanHolds,
      UnChanHolds, KickChanHolds, KicksHold, OwnersKnown, SockOK, ClosedOK, PoolOK,
      StoreDeleted, redisVars, kickVars, chanVars, objVars, connVars
<1>3. TypeLoop'
  BY <1>0, <1>1, LiveOK, WorkOK, WithoutSubset, GatewayAssumption DEF Base, TypeLoop, NoClient, StoreDeleted, redisVars, kickVars, chanVars, objVars,
      connVars
<1>4. TableHolds'
  <2>1. CASE lsnap = {}
    BY <2>1, <1>1 DEF Base, TableHolds, StoreDeleted
  <2>2. CASE lsnap # {}
    <3>1. Without(lsnap, lold) \in SUBSET Live
      BY WithoutSubset DEF Base, LoopHolds
    <3> QED
      BY <1>0, <1>1, <2>2, <3>1, TableStored DEF StoreDeleted
  <2> QED
    BY <2>1, <2>2
<1>5. LoopHolds'
  BY <1>0, <1>1, LiveOK, WorkOK, WithoutSubset DEF Base, LoopHolds, OwnPc, StoreDeleted, redisVars, kickVars, chanVars, objVars,
      connVars
<1> QED
  BY <1>2, <1>3, <1>4, <1>5 DEF Base

LEMMA KickOldBase ==
    ASSUME Base, KickOld
    PROVE  Base'
<1>1. Live' = Live /\ Held' = Held
  BY DEF Live, Held, KickOld, redisVars, kickVars, chanVars, mapVars, objVars, connVars
<1>2. TypeConn' /\ TypeObj' /\ TypeMap' /\ TypeKick' /\ TypeRest' /\ KindsOK'
      /\ HandlersHold' /\ ReadersUp' /\ RegChanHolds' /\ UnChanHolds'
      /\ KickChanHolds' /\ TableHolds' /\ KicksHold' /\ OwnersKnown' /\ SockOK'
      /\ ClosedOK' /\ PoolOK'
  BY <1>1 DEF Base, TypeConn, NoClient, TypeObj, Free, Closer, Loop, NoConn, TypeMap, TypeKick,
      TypeRest, KindsOK, HandlersHold, HasObj, ReadersUp, RegChanHolds,
      UnChanHolds, KickChanHolds, TableHolds, KicksHold, OwnersKnown, SockOK,
      ClosedOK, PoolOK, KickOld, redisVars, kickVars, chanVars, mapVars, objVars,
      connVars
<1>3. TypeLoop'
  BY LiveOK DEF Base, TypeLoop, LoopHolds, KickOld
<1>4. LoopHolds'
  BY <1>1, LiveOK DEF Base, LoopHolds, OwnPc, KickOld, AlreadyClosed, redisVars, kickVars, chanVars,
      mapVars, objVars, connVars
<1> QED
  BY <1>2, <1>3, <1>4 DEF Base

LEMMA LoopCloseMarkBase ==
    ASSUME Base, LoopCloseMark
    PROVE  Base'
<1>0. lcur \in Live /\ Loop \in Closer
  BY DEF Base, LoopHolds, LoopCloseMark, Closer
<1>1. Live' = Live /\ Held' = Held
  BY DEF Live, Held, LoopCloseMark, redisVars, kickVars, chanVars, mapVars
<1>2. TypeMap' /\ TypeKick' /\ TypeRest' /\ HandlersHold' /\ ReadersUp' /\ RegChanHolds'
      /\ UnChanHolds' /\ KickChanHolds' /\ TableHolds' /\ KicksHold' /\ OwnersKnown'
      /\ PoolOK'
  BY <1>1 DEF Base, TypeMap, TypeKick, NoClient, TypeRest, HandlersHold, HasObj, ReadersUp,
      RegChanHolds, UnChanHolds, KickChanHolds, TableHolds, KicksHold, OwnersKnown,
      PoolOK, LoopCloseMark, redisVars, kickVars, chanVars, mapVars
<1>3. TypeConn'
  BY <1>0, <1>1, LiveOK, GatewayAssumption DEF Base, TypeConn, NoClient, LoopCloseMark, Loop, CloseMark, Free, redisVars, kickVars,
      chanVars, mapVars
<1>4. TypeObj'
  BY <1>0, <1>1, LiveOK, GatewayAssumption DEF Base, TypeObj, Free, Closer, Loop, NoConn, LoopCloseMark, CloseMark, redisVars,
      kickVars, chanVars, mapVars
<1>5. TypeLoop'
  BY <1>0, <1>1, LiveOK, GatewayAssumption DEF Base, TypeLoop, NoClient, LoopCloseMark, Loop, CloseMark, Free, redisVars, kickVars,
      chanVars, mapVars
<1>6. KindsOK'
  BY <1>0, LiveOK DEF Base, KindsOK, LoopCloseMark, kickVars
<1>7. LoopHolds'
  BY <1>0, <1>1, LiveOK DEF Base, LoopHolds, OwnPc, LoopCloseMark, Loop, CloseMark, Free, redisVars, kickVars,
      chanVars, mapVars
<1>8. SockOK'
  BY <1>0, <1>1, CloseMarkBase DEF LoopCloseMark
<1>9. ClosedOK'
  BY <1>0, <1>1, CloseMarkBase DEF LoopCloseMark
<1> QED
  BY <1>2, <1>3, <1>4, <1>5, <1>6, <1>7, <1>8, <1>9 DEF Base

LEMMA LoopCloseSendBase ==
    ASSUME Base, LoopCloseSend
    PROVE  Base'
<1>0. lcur \in Live /\ Loop \in Closer
  BY DEF Base, LoopHolds, LoopCloseSend, Closer
<1>1. Live' = Live /\ Held' = Held
  BY DEF Live, Held, LoopCloseSend, redisVars, kickVars, mapVars, connVars
<1>2. TypeConn' /\ TypeMap' /\ TypeKick' /\ TypeRest' /\ KindsOK' /\ HandlersHold'
      /\ ReadersUp' /\ RegChanHolds' /\ KickChanHolds' /\ TableHolds' /\ KicksHold'
      /\ OwnersKnown' /\ SockOK' /\ ClosedOK' /\ PoolOK'
  BY <1>1 DEF Base, TypeConn, NoClient, TypeMap, TypeKick, TypeRest, KindsOK, HandlersHold, HasObj,
      ReadersUp, RegChanHolds, KickChanHolds, TableHolds, KicksHold, OwnersKnown,
      SockOK, ClosedOK, PoolOK, LoopCloseSend, redisVars, kickVars, mapVars,
      connVars
<1>3. TypeObj'
  BY <1>0, <1>1, LiveOK, GatewayAssumption DEF Base, TypeObj, Free, Closer, Loop, NoConn, LoopCloseSend, CloseSend, redisVars,
      kickVars, mapVars, connVars
<1>4. TypeLoop'
  BY <1>0, <1>1, LiveOK, GatewayAssumption DEF Base, TypeLoop, NoClient, LoopCloseSend, Loop, CloseSend, Free, redisVars, kickVars,
      mapVars, connVars
<1>5. UnChanHolds'
  BY <1>0, <1>1, CloseSendBase DEF LoopCloseSend
<1>6. LoopHolds'
  BY <1>0, <1>1, LiveOK DEF Base, LoopHolds, OwnPc, LoopCloseSend, Loop, CloseSend, Free, redisVars, kickVars,
      mapVars, connVars
<1> QED
  BY <1>2, <1>3, <1>4, <1>5, <1>6 DEF Base

LEMMA KickTokensBase ==
    ASSUME Base, KickTokens
    PROVE  Base'
<1>1. Live' = Live /\ Held' = Held
  BY DEF Live, Held, KickTokens, kickVars, chanVars, mapVars, objVars, connVars
<1>2. TypeConn' /\ TypeObj' /\ TypeMap' /\ TypeKick' /\ HandlersHold' /\ ReadersUp'
      /\ RegChanHolds' /\ UnChanHolds' /\ KickChanHolds' /\ TableHolds'
      /\ KicksHold' /\ OwnersKnown' /\ SockOK' /\ ClosedOK' /\ PoolOK'
  BY <1>1 DEF Base, TypeConn, NoClient, TypeObj, Free, Closer, Loop, NoConn, TypeMap, TypeKick,
      HandlersHold, HasObj, ReadersUp, RegChanHolds, UnChanHolds, KickChanHolds,
      TableHolds, KicksHold, OwnersKnown, SockOK, ClosedOK, PoolOK, KickTokens,
      kickVars, chanVars, mapVars, objVars, connVars
<1>3. TypeLoop'
  BY <1>1, LiveOK, WorkOK, GatewayAssumption DEF Base, TypeLoop, NoClient, KickTokens, AfterKick, Fails, NewTokenStatus, Ok, kickVars,
      chanVars, mapVars, objVars, connVars
<1>4. TypeRest'
  BY <1>1, LiveOK, WorkOK, GatewayAssumption DEF Base, TypeRest, KickTokens, AfterKick, Fails, NewTokenStatus, Ok, kickVars, chanVars,
      mapVars, objVars, connVars
<1>5. KindsOK'
  BY <1>1, LiveOK, WorkOK, GatewayAssumption DEF Base, KindsOK, KickTokens, AfterKick, Fails, NewTokenStatus, Ok, kickVars, chanVars,
      mapVars, objVars, connVars
<1>6. LoopHolds'
  <2>1. lc \in Live \cup Remote /\ (lc \in Client => lc \in Live)
    BY GatewayAssumption DEF Base, LoopHolds, KickTokens
  <2> QED
    BY <1>1, <2>1 DEF Base, LoopHolds, OwnPc, KickTokens, AfterKick
<1> QED
  BY <1>2, <1>3, <1>4, <1>5, <1>6 DEF Base

LEMMA StoreNewBase ==
    ASSUME Base, StoreNew
    PROVE  Base'
<1>0. WorkUser \in User /\ lc \in Live
  BY WorkOK DEF StoreNew, Base, LoopHolds, OwnPc
<1>1. Live' = Live /\ Held' = Held
  BY DEF Live, Held, StoreNew, redisVars, kickVars, chanVars, objVars, connVars
<1>2. TypeConn' /\ TypeObj' /\ TypeKick' /\ TypeRest' /\ KindsOK' /\ HandlersHold'
      /\ ReadersUp' /\ RegChanHolds' /\ UnChanHolds' /\ KickChanHolds' /\ KicksHold'
      /\ OwnersKnown' /\ SockOK' /\ ClosedOK' /\ PoolOK'
  BY <1>1 DEF Base, TypeConn, NoClient, TypeObj, Free, Closer, Loop, NoConn, TypeKick, TypeRest,
      KindsOK, HandlersHold, HasObj, ReadersUp, RegChanHolds, UnChanHolds,
      KickChanHolds, KicksHold, OwnersKnown, SockOK, ClosedOK, PoolOK, StoreNew,
      redisVars, kickVars, chanVars, objVars, connVars
<1>3. TypeMap'
  BY <1>0, <1>1, LiveOK, WorkOK, GatewayAssumption DEF Base, TypeMap, StoreNew, With, redisVars, kickVars, chanVars, objVars, connVars
<1>4. TypeLoop'
  BY <1>0, <1>1, LiveOK, WorkOK, GatewayAssumption DEF Base, TypeLoop, NoClient, StoreNew, With, redisVars, kickVars, chanVars, objVars,
      connVars
<1>5. TableHolds'
  <2>1. With(lsnap, lc) \in SUBSET Live
    BY <1>0 DEF Base, LoopHolds, With
  <2> QED
    BY <1>0, <1>1, <2>1, TableStored DEF StoreNew
<1>6. LoopHolds'
  BY <1>0, <1>1, LiveOK, WorkOK DEF Base, LoopHolds, OwnPc, StoreNew, With, redisVars, kickVars, chanVars, objVars,
      connVars
<1> QED
  BY <1>2, <1>3, <1>4, <1>5, <1>6 DEF Base

LEMMA SetOnlineBase ==
    ASSUME Base, SetOnline
    PROVE  Base'
<1>1. Live' = Live /\ Held' = Held
  BY DEF Live, Held, SetOnline, kickVars, chanVars, mapVars, objVars, connVars
<1>2. TypeConn' /\ TypeObj' /\ TypeMap' /\ TypeKick' /\ HandlersHold' /\ ReadersUp'
      /\ RegChanHolds' /\ UnChanHolds' /\ KickChanHolds' /\ TableHolds'
      /\ KicksHold' /\ OwnersKnown' /\ SockOK' /\ ClosedOK' /\ PoolOK'
  BY <1>1 DEF Base, TypeConn, NoClient, TypeObj, Free, Closer, Loop, NoConn, TypeMap, TypeKick,
      HandlersHold, HasObj, ReadersUp, RegChanHolds, UnChanHolds, KickChanHolds,
      TableHolds, KicksHold, OwnersKnown, SockOK, ClosedOK, PoolOK, SetOnline,
      kickVars, chanVars, mapVars, objVars, connVars
<1>3. TypeLoop'
  BY <1>1, LiveOK, WorkOK, GatewayAssumption DEF Base, TypeLoop, NoClient, SetOnline, Fails, Ok, kickVars, chanVars, mapVars, objVars,
      connVars
<1>4. TypeRest'
  BY <1>1, LiveOK, WorkOK, GatewayAssumption DEF Base, TypeRest, SetOnline, Fails, Ok, kickVars, chanVars, mapVars, objVars, connVars
<1>5. KindsOK'
  BY <1>1, LiveOK, WorkOK, GatewayAssumption DEF Base, KindsOK, SetOnline, Fails, Ok, kickVars, chanVars, mapVars, objVars, connVars
<1>6. LoopHolds'
  BY <1>1, LiveOK, WorkOK DEF Base, LoopHolds, OwnPc, SetOnline, Fails, Ok, kickVars, chanVars, mapVars, objVars,
      connVars
<1> QED
  BY <1>2, <1>3, <1>4, <1>5, <1>6 DEF Base

LEMMA UnregisterClientBase ==
    ASSUME Base, UnregisterClient
    PROVE  Base'
<1>1. Live' = Live /\ Held' = Held
  BY DEF Live, Held, UnregisterClient, redisVars, kickVars, mapVars, objVars, connVars
<1>2. TypeConn' /\ TypeObj' /\ TypeMap' /\ TypeKick' /\ TypeRest' /\ KindsOK'
      /\ HandlersHold' /\ ReadersUp' /\ RegChanHolds' /\ KickChanHolds'
      /\ TableHolds' /\ KicksHold' /\ OwnersKnown' /\ SockOK' /\ ClosedOK'
      /\ PoolOK'
  BY <1>1 DEF Base, TypeConn, NoClient, TypeObj, Free, Closer, Loop, NoConn, TypeMap, TypeKick,
      TypeRest, KindsOK, HandlersHold, HasObj, ReadersUp, RegChanHolds,
      KickChanHolds, TableHolds, KicksHold, OwnersKnown, SockOK, ClosedOK, PoolOK,
      UnregisterClient, redisVars, kickVars, mapVars, objVars, connVars
<1>3. TypeLoop'
  BY <1>1, LiveOK, UnregisterHead, GatewayAssumption DEF Base, TypeLoop, NoClient, UnregisterClient, redisVars, kickVars, mapVars, objVars,
      connVars
<1>4. UnChanHolds'
  BY <1>1, LiveOK, UnregisterHead DEF Base, UnChanHolds, UnregisterClient, redisVars, kickVars, mapVars, objVars, connVars
<1>5. LoopHolds'
  BY <1>1, LiveOK, UnregisterHead DEF Base, LoopHolds, OwnPc, UnregisterClient, redisVars, kickVars, mapVars, objVars,
      connVars
<1> QED
  BY <1>2, <1>3, <1>4, <1>5 DEF Base

LEMMA StoreRemovedBase ==
    ASSUME Base, StoreRemoved
    PROVE  Base'
<1>0. WorkUser \in User
  BY WorkOK DEF StoreRemoved
<1>1. Live' = Live /\ Held' = Held
  BY DEF Live, Held, StoreRemoved, redisVars, kickVars, chanVars, objVars, connVars
<1>2. TypeConn' /\ TypeObj' /\ TypeKick' /\ TypeRest' /\ KindsOK' /\ HandlersHold'
      /\ ReadersUp' /\ RegChanHolds' /\ UnChanHolds' /\ KickChanHolds' /\ KicksHold'
      /\ OwnersKnown' /\ SockOK' /\ ClosedOK' /\ PoolOK'
  BY <1>1 DEF Base, TypeConn, NoClient, TypeObj, Free, Closer, Loop, NoConn, TypeKick, TypeRest,
      KindsOK, HandlersHold, HasObj, ReadersUp, RegChanHolds, UnChanHolds,
      KickChanHolds, KicksHold, OwnersKnown, SockOK, ClosedOK, PoolOK,
      StoreRemoved, redisVars, kickVars, chanVars, objVars, connVars
<1>3. TypeMap'
  BY <1>0, <1>1, LiveOK, WorkOK, WithoutSubset, GatewayAssumption DEF Base, TypeMap, StoreRemoved, IsDeleteUser, redisVars, kickVars, chanVars, objVars,
      connVars
<1>4. TypeLoop'
  BY <1>0, <1>1, LiveOK, WorkOK, WithoutSubset, GatewayAssumption DEF Base, TypeLoop, NoClient, StoreRemoved, IsDeleteUser, redisVars, kickVars, chanVars,
      objVars, connVars
<1>5. TableHolds'
  <2>1. CASE lsnap = {}
    BY <2>1, <1>1 DEF Base, TableHolds, StoreRemoved
  <2>2. CASE lsnap # {}
    <3>1. Without(lsnap, {lc}) \in SUBSET Live
      BY WithoutSubset DEF Base, LoopHolds
    <3> QED
      BY <1>0, <1>1, <2>2, <3>1, TableStored DEF StoreRemoved
  <2> QED
    BY <2>1, <2>2
<1>6. LoopHolds'
  BY <1>0, <1>1, LiveOK, WorkOK, WithoutSubset DEF Base, LoopHolds, OwnPc, StoreRemoved, IsDeleteUser, redisVars, kickVars, chanVars,
      objVars, connVars
<1> QED
  BY <1>2, <1>3, <1>4, <1>5, <1>6 DEF Base

LEMMA SetOfflineBase ==
    ASSUME Base, SetOffline
    PROVE  Base'
<1>0. lc \in Live /\ lc \in Client
  BY LiveOK DEF SetOffline, Base, LoopHolds, OwnPc
<1>1. Live' = Live /\ Held' = Held
  BY DEF Live, Held, SetOffline, kickVars, chanVars, mapVars, connVars
<1>2. TypeConn' /\ TypeMap' /\ TypeKick' /\ HandlersHold' /\ ReadersUp' /\ RegChanHolds'
      /\ UnChanHolds' /\ KickChanHolds' /\ TableHolds' /\ KicksHold' /\ OwnersKnown'
      /\ SockOK' /\ ClosedOK'
  BY <1>1 DEF Base, TypeConn, NoClient, TypeMap, TypeKick, HandlersHold, HasObj, ReadersUp,
      RegChanHolds, UnChanHolds, KickChanHolds, TableHolds, KicksHold, OwnersKnown,
      SockOK, ClosedOK, SetOffline, kickVars, chanVars, mapVars, connVars
<1>3. TypeObj'
  BY <1>0 DEF Base, TypeObj, SetOffline
<1>4. TypeLoop'
  BY <1>0, <1>1, LiveOK, WorkOK, GatewayAssumption DEF Base, TypeLoop, NoClient, SetOffline, Fails, WithoutPlatform, Ok, kickVars, chanVars,
      mapVars, connVars
<1>5. TypeRest'
  BY <1>0, <1>1, LiveOK, WorkOK, GatewayAssumption DEF Base, TypeRest, SetOffline, Fails, WithoutPlatform, Ok, kickVars, chanVars, mapVars,
      connVars
<1>6. KindsOK'
  BY <1>0, <1>1, LiveOK, WorkOK, GatewayAssumption DEF Base, KindsOK, SetOffline, Fails, WithoutPlatform, Ok, kickVars, chanVars, mapVars,
      connVars
<1>7. LoopHolds'
  BY <1>0, <1>1, LiveOK, WorkOK DEF Base, LoopHolds, OwnPc, SetOffline, Fails, WithoutPlatform, Ok, kickVars, chanVars,
      mapVars, connVars
<1>8. PoolOK'
  BY <1>0, <1>1, LiveOK, WorkOK DEF Base, PoolOK, TypeObj, SetOffline, Fails, WithoutPlatform, Ok, kickVars, chanVars,
      mapVars, connVars
<1> QED
  BY <1>2, <1>3, <1>4, <1>5, <1>6, <1>7, <1>8 DEF Base

LEMMA MultiTerminalLoginCheckBase ==
    ASSUME Base, NEW r \in Remote, MultiTerminalLoginCheck(r)
    PROVE  Base'
<1>0. r.user \in User /\ [old |-> Get(r.user, r.platform), login |-> r] \in Held
  BY GetLive, GatewayAssumption DEF Held
<1>1. Live' = Live /\ Held' = Held
  BY DEF Live, Held, MultiTerminalLoginCheck, redisVars, kickVars, loopVars, mapVars, objVars, connVars
<1>2. TypeConn' /\ TypeObj' /\ TypeMap' /\ TypeLoop' /\ TypeKick' /\ KindsOK'
      /\ HandlersHold' /\ ReadersUp' /\ RegChanHolds' /\ UnChanHolds' /\ TableHolds'
      /\ LoopHolds' /\ KicksHold' /\ OwnersKnown' /\ SockOK' /\ ClosedOK' /\ PoolOK'
  BY <1>1 DEF Base, TypeConn, NoClient, TypeObj, Free, Closer, Loop, NoConn, TypeMap, TypeLoop,
      TypeKick, KindsOK, HandlersHold, HasObj, ReadersUp, RegChanHolds,
      UnChanHolds, TableHolds, LoopHolds, OwnPc, KicksHold, OwnersKnown, SockOK,
      ClosedOK, PoolOK, MultiTerminalLoginCheck, redisVars, kickVars, loopVars,
      mapVars, objVars, connVars
<1>3. TypeRest'
  BY <1>0, <1>1, LiveOK, GetLive, GatewayAssumption DEF Base, TypeRest, MultiTerminalLoginCheck, redisVars, kickVars, loopVars, mapVars,
      objVars, connVars
<1>4. KickChanHolds'
  BY <1>0, <1>1 DEF Base, KickChanHolds, MultiTerminalLoginCheck
<1> QED
  BY <1>2, <1>3, <1>4 DEF Base

LEMMA KickUserOfflineBase ==
    ASSUME Base, NEW k \in Kick, KickUserOffline(k)
    PROVE  Base'
<1>0. Get(KickUser[k], KickPlatform[k]) \in SUBSET Live
  BY GetLive, GatewayAssumption
<1>1. Live' = Live /\ Held' = Held
  BY DEF Live, Held, KickUserOffline, redisVars, loopVars, chanVars, mapVars, objVars, connVars
<1>2. TypeConn' /\ TypeObj' /\ TypeMap' /\ TypeLoop' /\ TypeKick' /\ TypeRest'
      /\ HandlersHold' /\ ReadersUp' /\ RegChanHolds' /\ UnChanHolds'
      /\ KickChanHolds' /\ TableHolds' /\ LoopHolds' /\ OwnersKnown' /\ SockOK'
      /\ ClosedOK' /\ PoolOK'
  BY <1>1 DEF Base, TypeConn, NoClient, TypeObj, Free, Closer, Loop, NoConn, TypeMap, TypeLoop,
      TypeKick, TypeRest, HandlersHold, HasObj, ReadersUp, RegChanHolds,
      UnChanHolds, KickChanHolds, TableHolds, LoopHolds, OwnPc, OwnersKnown,
      SockOK, ClosedOK, PoolOK, KickUserOffline, redisVars, loopVars, chanVars,
      mapVars, objVars, connVars
<1>3. KindsOK'
  BY <1>0, <1>1, LiveOK, GetLive, GatewayAssumption DEF Base, KindsOK, KickUserOffline, KGoto, redisVars, loopVars, chanVars, mapVars,
      objVars, connVars
<1>4. KicksHold'
  <2>1. kold' \in [Kick -> SUBSET Live]
    BY <1>0 DEF Base, KicksHold, KickUserOffline
  <2> QED
    BY <1>1, <2>1 DEF Base, KicksHold, KindsOK, KickUserOffline, KGoto
<1> QED
  BY <1>2, <1>3, <1>4 DEF Base

LEMMA KickUserConnBase ==
    ASSUME Base, NEW k \in Kick, KickUserConn(k)
    PROVE  Base'
<1>1. Live' = Live /\ Held' = Held
  BY DEF Live, Held, KickUserConn, redisVars, loopVars, chanVars, mapVars, objVars, connVars
<1>2. TypeConn' /\ TypeObj' /\ TypeMap' /\ TypeLoop' /\ TypeRest' /\ HandlersHold'
      /\ ReadersUp' /\ RegChanHolds' /\ UnChanHolds' /\ KickChanHolds'
      /\ TableHolds' /\ LoopHolds' /\ OwnersKnown' /\ SockOK' /\ ClosedOK'
      /\ PoolOK'
  BY <1>1 DEF Base, TypeConn, NoClient, TypeObj, Free, Closer, Loop, NoConn, TypeMap, TypeLoop,
      TypeRest, HandlersHold, HasObj, ReadersUp, RegChanHolds, UnChanHolds,
      KickChanHolds, TableHolds, LoopHolds, OwnPc, OwnersKnown, SockOK, ClosedOK,
      PoolOK, KickUserConn, redisVars, loopVars, chanVars, mapVars, objVars,
      connVars
<1>3. TypeKick'
  BY LiveOK DEF Base, TypeKick, KicksHold, KickUserConn
<1>4. KindsOK'
  BY <1>1, LiveOK, FieldsOK, GatewayAssumption DEF Base, KindsOK, KickUserConn, KGoto, redisVars, loopVars, chanVars, mapVars, objVars,
      connVars
<1>5. KicksHold'
  <2>1. CASE kold[k] = {}
    BY <1>1, <2>1 DEF Base, KicksHold, KindsOK, KickUserConn, KGoto
  <2>2. CASE kold[k] # {}
    <3>1. PICK c \in kold[k] : /\ kcur' = [kcur EXCEPT ![k] = c]
                              /\ ksnap' = [ksnap EXCEPT ![k] = table[UserID(c)]]
      BY <2>2 DEF KickUserConn
    <3>2. c \in Live /\ table[UserID(c)] \in SUBSET Live
      BY FieldsOK DEF Base, KicksHold, TableHolds
    <3>3. ksnap' \in [Kick -> SUBSET Live] /\ kold' \in [Kick -> SUBSET Live]
      BY <3>1, <3>2 DEF Base, KicksHold, KickUserConn
    <3>4. \A j \in Kick : kpc'[j] \in {"store", "close", "mark", "send"} => kcur'[j] \in Live
      BY <2>2, <3>1, <3>2 DEF Base, KicksHold, KindsOK, TypeKick, KickUserConn, KGoto
    <3> QED
      BY <1>1, <3>3, <3>4 DEF KicksHold
  <2> QED
    BY <2>1, <2>2
<1> QED
  BY <1>2, <1>3, <1>4, <1>5 DEF Base

LEMMA KickStoreBase ==
    ASSUME Base, NEW k \in Kick, KickStore(k)
    PROVE  Base'
<1>0. kcur[k] \in Live /\ UserID(kcur[k]) \in User
  BY FieldsOK DEF Base, KicksHold, KickStore
<1>1. Live' = Live /\ Held' = Held
  BY DEF Live, Held, KickStore, redisVars, loopVars, chanVars, objVars, connVars
<1>2. TypeConn' /\ TypeObj' /\ TypeMap' /\ TypeLoop' /\ TypeKick' /\ TypeRest'
      /\ HandlersHold' /\ ReadersUp' /\ RegChanHolds' /\ UnChanHolds'
      /\ KickChanHolds' /\ LoopHolds' /\ OwnersKnown' /\ SockOK' /\ ClosedOK'
      /\ PoolOK'
  BY <1>1 DEF Base, TypeConn, NoClient, TypeObj, Free, Closer, Loop, NoConn, TypeMap, TypeLoop,
      TypeKick, TypeRest, HandlersHold, HasObj, ReadersUp, RegChanHolds,
      UnChanHolds, KickChanHolds, LoopHolds, OwnPc, OwnersKnown, SockOK, ClosedOK,
      PoolOK, KickStore, redisVars, loopVars, chanVars, objVars, connVars
<1>3. KindsOK'
  BY <1>0, <1>1, LiveOK, WithoutSubset, FieldsOK, GatewayAssumption DEF Base, KindsOK, KickStore, KGoto, redisVars, loopVars, chanVars, objVars, connVars
<1>4. TableHolds'
  <2>1. CASE ksnap[k] = {}
    BY <2>1, <1>1 DEF Base, TableHolds, KickStore
  <2>2. CASE ksnap[k] # {}
    <3>1. Without(ksnap[k], {kcur[k]}) \in SUBSET Live
      BY WithoutSubset DEF Base, KicksHold
    <3> QED
      BY <1>0, <1>1, <2>2, <3>1, TableStored DEF KickStore
  <2> QED
    BY <2>1, <2>2
<1>5. KicksHold'
  BY <1>0, <1>1, LiveOK, WithoutSubset, FieldsOK DEF Base, KicksHold, KindsOK, KickStore, KGoto, redisVars, loopVars, chanVars, objVars,
      connVars
<1> QED
  BY <1>2, <1>3, <1>4, <1>5 DEF Base

LEMMA KickCloseCheckBase ==
    ASSUME Base, NEW k \in Kick, KickCloseCheck(k)
    PROVE  Base'
<1>1. Live' = Live /\ Held' = Held
  BY DEF Live, Held, KickCloseCheck, redisVars, loopVars, chanVars, mapVars, objVars, connVars
<1>2. TypeConn' /\ TypeObj' /\ TypeMap' /\ TypeLoop' /\ TypeKick' /\ TypeRest'
      /\ HandlersHold' /\ ReadersUp' /\ RegChanHolds' /\ UnChanHolds'
      /\ KickChanHolds' /\ TableHolds' /\ LoopHolds' /\ OwnersKnown' /\ SockOK'
      /\ ClosedOK' /\ PoolOK'
  BY <1>1 DEF Base, TypeConn, NoClient, TypeObj, Free, Closer, Loop, NoConn, TypeMap, TypeLoop,
      TypeKick, TypeRest, HandlersHold, HasObj, ReadersUp, RegChanHolds,
      UnChanHolds, KickChanHolds, TableHolds, LoopHolds, OwnPc, OwnersKnown,
      SockOK, ClosedOK, PoolOK, KickCloseCheck, redisVars, loopVars, chanVars,
      mapVars, objVars, connVars
<1>3. KindsOK'
  BY <1>1, LiveOK, GatewayAssumption DEF Base, KindsOK, KickCloseCheck, KGoto, AlreadyClosed, redisVars, loopVars, chanVars,
      mapVars, objVars, connVars
<1>4. KicksHold'
  BY <1>1, LiveOK DEF Base, KicksHold, KindsOK, KickCloseCheck, KGoto, AlreadyClosed, redisVars, loopVars,
      chanVars, mapVars, objVars, connVars
<1> QED
  BY <1>2, <1>3, <1>4 DEF Base

LEMMA KickCloseMarkBase ==
    ASSUME Base, NEW k \in Kick, KickCloseMark(k)
    PROVE  Base'
<1>0. kcur[k] \in Live /\ k \in Closer
  BY DEF Base, KicksHold, KickCloseMark, Closer
<1>1. Live' = Live /\ Held' = Held
  BY DEF Live, Held, KickCloseMark, redisVars, loopVars, chanVars, mapVars
<1>2. TypeMap' /\ TypeLoop' /\ TypeKick' /\ TypeRest' /\ HandlersHold' /\ ReadersUp'
      /\ RegChanHolds' /\ UnChanHolds' /\ KickChanHolds' /\ TableHolds'
      /\ LoopHolds' /\ OwnersKnown' /\ PoolOK'
  BY <1>1 DEF Base, TypeMap, TypeLoop, NoClient, TypeKick, TypeRest, HandlersHold, HasObj,
      ReadersUp, RegChanHolds, UnChanHolds, KickChanHolds, TableHolds, LoopHolds,
      OwnPc, OwnersKnown, PoolOK, KickCloseMark, redisVars, loopVars, chanVars,
      mapVars
<1>3. TypeConn'
  BY <1>0, <1>1, LiveOK, GatewayAssumption DEF Base, TypeConn, NoClient, KickCloseMark, KGoto, CloseMark, Free, redisVars, loopVars,
      chanVars, mapVars
<1>4. TypeObj'
  BY <1>0, <1>1, LiveOK, GatewayAssumption DEF Base, TypeObj, Free, Closer, Loop, NoConn, KickCloseMark, KGoto, CloseMark,
      redisVars, loopVars, chanVars, mapVars
<1>5. KindsOK'
  BY <1>0, <1>1, LiveOK, GatewayAssumption DEF Base, KindsOK, KickCloseMark, KGoto, CloseMark, Free, redisVars, loopVars, chanVars,
      mapVars
<1>6. KicksHold'
  BY <1>0, <1>1, LiveOK DEF Base, KicksHold, KindsOK, KickCloseMark, KGoto, CloseMark, Free, redisVars, loopVars,
      chanVars, mapVars
<1>7. SockOK'
  BY <1>0, <1>1, CloseMarkBase DEF KickCloseMark
<1>8. ClosedOK'
  BY <1>0, <1>1, CloseMarkBase DEF KickCloseMark
<1> QED
  BY <1>2, <1>3, <1>4, <1>5, <1>6, <1>7, <1>8 DEF Base

LEMMA KickCloseSendBase ==
    ASSUME Base, NEW k \in Kick, KickCloseSend(k)
    PROVE  Base'
<1>0. kcur[k] \in Live /\ k \in Closer
  BY DEF Base, KicksHold, KickCloseSend, Closer
<1>1. Live' = Live /\ Held' = Held
  BY DEF Live, Held, KickCloseSend, redisVars, loopVars, mapVars, connVars
<1>2. TypeConn' /\ TypeMap' /\ TypeLoop' /\ TypeKick' /\ TypeRest' /\ HandlersHold'
      /\ ReadersUp' /\ RegChanHolds' /\ KickChanHolds' /\ TableHolds' /\ LoopHolds'
      /\ OwnersKnown' /\ SockOK' /\ ClosedOK' /\ PoolOK'
  BY <1>1 DEF Base, TypeConn, NoClient, TypeMap, TypeLoop, TypeKick, TypeRest, HandlersHold,
      HasObj, ReadersUp, RegChanHolds, KickChanHolds, TableHolds, LoopHolds, OwnPc,
      OwnersKnown, SockOK, ClosedOK, PoolOK, KickCloseSend, redisVars, loopVars,
      mapVars, connVars
<1>3. TypeObj'
  BY <1>0, <1>1, LiveOK, GatewayAssumption DEF Base, TypeObj, Free, Closer, Loop, NoConn, KickCloseSend, KGoto, CloseSend,
      redisVars, loopVars, mapVars, connVars
<1>4. KindsOK'
  BY <1>0, <1>1, LiveOK, GatewayAssumption DEF Base, KindsOK, KickCloseSend, KGoto, CloseSend, Free, redisVars, loopVars, mapVars,
      connVars
<1>5. UnChanHolds'
  BY <1>0, <1>1, CloseSendBase DEF KickCloseSend
<1>6. KicksHold'
  BY <1>0, <1>1, LiveOK DEF Base, KicksHold, KindsOK, KickCloseSend, KGoto, CloseSend, Free, redisVars, loopVars,
      mapVars, connVars
<1> QED
  BY <1>2, <1>3, <1>4, <1>5, <1>6 DEF Base

LEMMA StutterBase == Base /\ UNCHANGED vars => Base'
<1> SUFFICES ASSUME Base, UNCHANGED vars PROVE Base'
  OBVIOUS
<1>1. Live' = Live /\ Held' = Held
  BY DEF Live, Held, vars, objVars
<1>2. TypeConn' /\ TypeObj' /\ TypeMap' /\ TypeLoop' /\ TypeKick' /\ TypeRest' /\ KindsOK'
  BY DEF Base, TypeConn, TypeObj, TypeMap, TypeLoop, TypeKick, TypeRest, KindsOK, vars, connVars,
      objVars, mapVars, loopVars, kickVars, redisVars
<1>3. HandlersHold' /\ ReadersUp' /\ RegChanHolds' /\ UnChanHolds' /\ KickChanHolds' /\ TableHolds'
  BY <1>1 DEF Base, HandlersHold, ReadersUp, RegChanHolds, UnChanHolds, KickChanHolds, TableHolds,
      HasObj, vars, connVars, mapVars, chanVars
<1>4. LoopHolds' /\ KicksHold' /\ OwnersKnown' /\ SockOK' /\ ClosedOK' /\ PoolOK'
  BY <1>1 DEF Base, LoopHolds, KicksHold, OwnersKnown, SockOK, ClosedOK, PoolOK, HasObj, OwnPc,
      vars, connVars, objVars, loopVars, kickVars
<1> QED
  BY <1>2, <1>3, <1>4 DEF Base

LEMMA NextBase == Base /\ [Next]_vars => Base'
<1> SUFFICES ASSUME Base, [Next]_vars PROVE Base'
  OBVIOUS
<1>1. ASSUME NEW n \in Conn, ParseWSArgs(n) \/ Handler(n) \/ Reader(n)
      PROVE  Base'
  BY <1>1, ParseWSArgsBase, ResetClientBase, AcceptBase, ReadRequestBase, CheckClosedBase,
      HandleMessageBase, ReadErrorBase, ReaderCloseCheckBase, ReaderCloseMarkBase,
      ReaderCloseSendBase DEF Handler, Reader, ReaderCloses
<1>2. CASE Run
  BY <1>2, RegisterClientBase, KickHandlerBase, LoadBase, StoreDeletedBase, KickOldBase,
      LoopCloseMarkBase, LoopCloseSendBase, KickTokensBase, StoreNewBase, SetOnlineBase,
      UnregisterClientBase, StoreRemovedBase, SetOfflineBase DEF Run
<1>3. ASSUME NEW r \in Remote, MultiTerminalLoginCheck(r)
      PROVE  Base'
  BY <1>3, MultiTerminalLoginCheckBase
<1>4. ASSUME NEW k \in Kick, KickRPC(k)
      PROVE  Base'
  BY <1>4, KickUserOfflineBase, KickUserConnBase, KickStoreBase, KickCloseCheckBase,
      KickCloseMarkBase, KickCloseSendBase DEF KickRPC
<1> QED
  BY <1>1, <1>2, <1>3, <1>4, StutterBase DEF Next

\* The inductive invariant every other proof starts from.
THEOREM BaseHolds == Spec => []Base
BY InitBase, NextBase, PTL DEF Spec

\* The types of the gateway's state.  No handler, reader, event loop step or
\* RPC call ever works on an object without a connection, whatever object the
\* pool hands out and whoever closes it when.
THEOREM TypeOKHolds == Spec => []TypeOK
BY BaseHolds, BaseTypes, PTL

-----------------------------------------------------------------------------
(* An object whose reader is not done belongs to that reader's connection,  *)
(* when objects are not reused and also when only readers close.            *)

LEMMA RangeAppend ==
    ASSUME NEW S, NEW s \in Seq(S), NEW x \in S
    PROVE  /\ Range(Append(s, x)) = Range(s) \cup {x}
           /\ x \notin Range(s) /\ IsInjective(s) => IsInjective(Append(s, x))
<1> DEFINE t == Append(s, x)
<1>1. /\ DOMAIN t = 1 .. Len(s) + 1 /\ DOMAIN s = 1 .. Len(s) /\ Len(s) \in Nat
      /\ \A i \in 1 .. Len(s) : t[i] = s[i]
      /\ t[Len(s) + 1] = x
  OBVIOUS
<1> HIDE DEF t
<1>2. Range(t) = Range(s) \cup {x}
  BY <1>1 DEF Range
<1>3. x \notin Range(s) /\ IsInjective(s) => IsInjective(t)
  BY <1>1 DEF Range, IsInjective
<1> QED
  BY <1>2, <1>3 DEF t

LEMMA RangeTail ==
    ASSUME NEW S, NEW s \in Seq(S), s # <<>>
    PROVE  /\ Range(s) = Range(Tail(s)) \cup {Head(s)}
           /\ IsInjective(s) => IsInjective(Tail(s)) /\ Head(s) \notin Range(Tail(s))
<1> DEFINE t == Tail(s)
<1>1. /\ DOMAIN t = 1 .. Len(s) - 1 /\ DOMAIN s = 1 .. Len(s) /\ Len(s) \in Nat /\ Len(s) > 0
      /\ \A i \in 1 .. Len(s) - 1 : t[i] = s[i + 1]
      /\ Head(s) = s[1]
  OBVIOUS
<1> HIDE DEF t
<1>2. Range(s) = Range(t) \cup {Head(s)}
  <2>1. ASSUME NEW y \in Range(s) PROVE y \in Range(t) \cup {Head(s)}
    <3>1. PICK i \in 1 .. Len(s) : y = s[i]
      BY <1>1 DEF Range
    <3>2. CASE i = 1
      BY <1>1, <3>1, <3>2
    <3>3. CASE i # 1
      <4>1. i - 1 \in 1 .. Len(s) - 1 /\ t[i - 1] = s[i]
        BY <1>1, <3>3
      <4> QED
        BY <1>1, <3>1, <4>1 DEF Range
    <3> QED
      BY <3>2, <3>3
  <2>2. ASSUME NEW y \in Range(t) PROVE y \in Range(s)
    <3>1. PICK i \in 1 .. Len(s) - 1 : y = t[i]
      BY <1>1 DEF Range
    <3>2. i + 1 \in 1 .. Len(s) /\ s[i + 1] = y
      BY <1>1, <3>1
    <3> QED
      BY <1>1, <3>2 DEF Range
  <2>3. Head(s) \in Range(s)
    BY <1>1 DEF Range
  <2> QED
    BY <2>1, <2>2, <2>3
<1>3. ASSUME IsInjective(s)
      PROVE  IsInjective(t) /\ Head(s) \notin Range(t)
  <2>1. ASSUME NEW i \in 1 .. Len(s) - 1, NEW j \in 1 .. Len(s) - 1, t[i] = t[j]
        PROVE  i = j
    <3>1. i + 1 \in 1 .. Len(s) /\ j + 1 \in 1 .. Len(s) /\ s[i + 1] = s[j + 1]
      BY <1>1, <2>1
    <3>2. i + 1 = j + 1
      BY <1>1, <1>3, <3>1 DEF IsInjective
    <3> QED
      BY <3>2
  <2>2. ASSUME NEW i \in 1 .. Len(s) - 1
        PROVE  t[i] # Head(s)
    <3>1. i + 1 \in 1 .. Len(s) /\ 1 \in 1 .. Len(s) /\ i + 1 # 1
      BY <1>1
    <3> QED
      BY <1>1, <1>3, <3>1 DEF IsInjective
  <2> QED
    BY <1>1, <2>1, <2>2 DEF IsInjective, Range
<1> QED
  BY <1>2, <1>3 DEF t

ReadersOnly == Kick = {} /\ KickPolicy = "none"

Active(n) == hs[n] = "reset" \/ (hs[n] = "up" /\ rd[n] # "done")
Own(n)    == conn[client[n]] = n
InUn(c)   == c \in Range(unregisterChan)
AtUn(c)   == lpc \in {"unLoad", "unStore", "offline"} /\ lc = c

OwnInv == \A n \in Conn : Active(n) => Own(n) /\ (hs[n] = "up" => on[n] = n)
\* When objects are not reused the object stays with its connection.
KeptInv == \A n \in Conn : HasObj(n) => Own(n) /\ (hs[n] = "up" => on[n] = n)

\* When only readers close, an object is in one place of its way from the
\* reader through unregisterChan and the event loop to the pool.
LoopPc  == lpc \in {"idle"} \cup OwnPc /\ lold = {}
UnOnce  == IsInjective(unregisterChan)
Cycle(c) ==
    /\ pool[c] \in {0, 1}
    /\ closed[c] <=> rd[conn[c]] \in {"send", "done"}
    /\ Active(conn[c]) => ~InUn(c) /\ ~AtUn(c) /\ pool[c] = 0
    /\ InUn(c) => ~AtUn(c) /\ pool[c] = 0
    /\ AtUn(c) => pool[c] = 0
Cycles  == \A c \in Live : Cycle(c)
ReadersInv == LoopPc /\ UnOnce /\ Cycles /\ OwnInv

LEMMA LoopFrame ==
    ASSUME Run \/ (\E r \in Remote : MultiTerminalLoginCheck(r)) \/ (\E k \in Kick : KickRPC(k))
    PROVE  UNCHANGED <<hs, client, rd, on, conn>>
BY DEF Run, RegisterClient, KickHandler, Load, StoreDeleted, KickOld, LoopCloseMark, LoopCloseSend,
      KickTokens, StoreNew, SetOnline, UnregisterClient, StoreRemoved, SetOffline,
      MultiTerminalLoginCheck, KickRPC, KickUserOffline, KickUserConn, KickStore, KickCloseCheck,
      KickCloseMark, KickCloseSend, connVars, objVars

LEMMA KeptStep ==
    ASSUME Base, ~Reuse, KeptInv, [Next]_vars
    PROVE  KeptInv'
<1>1. ASSUME NEW n \in Conn, ParseWSArgs(n)
      PROVE  KeptInv'
  BY <1>1 DEF Base, TypeConn, KeptInv, Own, HasObj, ParseWSArgs, objVars
<1>2. ASSUME NEW n \in Conn, NEW c \in Client, ResetClient(n, c)
      PROVE  KeptInv'
  <2>1. c \notin Live
    BY <1>2, GatewayAssumption DEF ResetClient, Available, Live
  <2>2. \A m \in Conn : HasObj(m) => client[m] # c /\ client[m] \in Client
    BY <2>1, LiveOK DEF Base, HandlersHold
  <2> QED
    BY <1>2, <2>2 DEF Base, TypeConn, TypeObj, KeptInv, Own, HasObj, ResetClient
<1>3. ASSUME NEW n \in Conn, Accept(n)
      PROVE  KeptInv'
  BY <1>3 DEF Base, TypeConn, KeptInv, Own, HasObj, Accept, objVars
<1>4. ASSUME NEW n \in Conn, Reader(n)
      PROVE  KeptInv'
  <2>1. CASE HandleMessage(n)
    BY <2>1 DEF Base, TypeConn, ReadersUp, KeptInv, Own, HasObj, HandleMessage, objVars
  <2>2. CASE ~HandleMessage(n)
    <3>1. UNCHANGED <<hs, client, on, conn>>
      BY <1>4, <2>2 DEF Reader, ReaderCloses, ReadRequest, CheckClosed, ReadError, ReaderCloseCheck,
          ReaderCloseMark, ReaderCloseSend, objVars
    <3> QED
      BY <3>1 DEF KeptInv, Own, HasObj
  <2> QED
    BY <2>1, <2>2
<1>5. ASSUME UNCHANGED <<hs, client, on, conn>>
      PROVE  KeptInv'
  BY <1>5 DEF KeptInv, Own, HasObj
<1> QED
  BY <1>1, <1>2, <1>3, <1>4, <1>5, LoopFrame DEF Next, Handler, vars, connVars, objVars

\* A reader that is not done works on the object of its own connection.
LEMMA ReaderOwns ==
    ASSUME Base, OwnInv, NEW n \in Conn, rd[n] \notin {"none", "done"}
    PROVE  /\ hs[n] = "up" /\ Active(n)
           /\ client[n] \in Live /\ client[n] \in Client /\ conn[client[n]] = n /\ on[n] = n
           /\ \A d \in Live : d # client[n] => conn[d] # n
<1>1. hs[n] = "up" /\ Active(n)
  BY DEF Base, ReadersUp, Active
<1>2. client[n] \in Live /\ conn[client[n]] = n /\ on[n] = n
  BY <1>1 DEF Base, HandlersHold, HasObj, OwnInv, Own
<1>3. \A d \in Live : conn[d] = n => d = client[n]
  BY DEF Base, OwnersKnown
<1> QED
  BY <1>1, <1>2, <1>3, LiveOK

LEMMA ParseReaders ==
    ASSUME Base, ReadersInv, NEW n \in Conn, ParseWSArgs(n)
    PROVE  ReadersInv'
<1>1. Live' = Live
  BY DEF Live, ParseWSArgs, objVars
<1>2. \A m \in Conn : (Active(m) => Active(m)') /\ (Active(m)' => Active(m)) /\ (m # n => hs'[m] = hs[m])
  BY DEF Base, TypeConn, Active, ParseWSArgs
<1>3. Cycles'
  BY <1>1, <1>2, LiveOK DEF ReadersInv, Cycles, Cycle, InUn, AtUn, ParseWSArgs, objVars, chanVars, loopVars
<1>4. OwnInv'
  BY <1>2 DEF Base, TypeConn, ReadersInv, OwnInv, Own, Active, ParseWSArgs, objVars
<1> QED
  BY <1>3, <1>4 DEF ReadersInv, LoopPc, UnOnce, ParseWSArgs, chanVars, loopVars

LEMMA ResetReaders ==
    ASSUME Base, ReadersInv, NEW n \in Conn, NEW c \in Client, ResetClient(n, c)
    PROVE  ReadersInv'
<1>1. /\ \A m \in Conn : hs'[m] = IF m = n THEN "reset" ELSE hs[m]
      /\ \A m \in Conn : client'[m] = IF m = n THEN c ELSE client[m]
      /\ hs[n] = "upgraded" /\ rd[n] = "none"
  BY DEF Base, TypeConn, ReadersUp, ResetClient
<1>2. /\ \A d \in Client : conn'[d] = IF d = c THEN n ELSE conn[d]
      /\ \A d \in Client : closed'[d] = IF d = c THEN FALSE ELSE closed[d]
      /\ \A d \in Client : pool'[d] = IF d = c THEN (IF conn[c] = NoConn THEN 0 ELSE pool[c] - 1) ELSE pool[d]
  BY DEF Base, TypeObj, ResetClient
<1>3. Live' = Live \cup {c}
  BY <1>2 DEF Live
<1>4. /\ ~InUn(c) /\ ~AtUn(c)
      /\ conn[c] \in Conn => ~Active(conn[c]) /\ pool[c] = 1
  <2>1. CASE c \in Live
    BY <2>1, GatewayAssumption DEF ReadersInv, Cycles, Cycle, ResetClient, Available, Live
  <2>2. CASE c \notin Live
    <3>1. ~InUn(c)
      BY <2>2 DEF Base, UnChanHolds, InUn, Range
    <3>2. ~AtUn(c)
      BY <2>2 DEF Base, LoopHolds, AtUn, OwnPc
    <3> QED
      BY <2>2, <3>1, <3>2 DEF Live
  <2> QED
    BY <2>1, <2>2
<1>5. ASSUME NEW d \in Live'
      PROVE  Cycle(d)'
  <2>1. CASE d = c
    <3>1. pool'[c] = 0
      BY <1>2, <1>4 DEF Base, TypeObj
    <3> QED
      BY <1>1, <1>2, <1>4, <2>1, <3>1 DEF Cycle, Active, InUn, AtUn, ResetClient, chanVars, loopVars
  <2>2. CASE d # c
    <3>1. d \in Live /\ d \in Client /\ conn[d] \in Conn
      BY <1>3, <2>2 DEF Live
    <3>2. conn[d] # n
      BY <1>1, <3>1 DEF Base, OwnersKnown, HasObj
    <3> QED
      BY <1>1, <1>2, <2>2, <3>1, <3>2
      DEF ReadersInv, Cycles, Cycle, Active, InUn, AtUn, ResetClient, chanVars, loopVars
  <2> QED
    BY <2>1, <2>2
<1>6. ASSUME NEW m \in Conn, Active(m)'
      PROVE  (Own(m) /\ (hs[m] = "up" => on[m] = m))'
  <2>1. CASE m = n
    BY <1>1, <1>2, <2>1 DEF Own, ResetClient
  <2>2. CASE m # n
    <3>1. Active(m) /\ client[m] \in Live /\ conn[client[m]] = m
      BY <1>1, <1>6, <2>2 DEF Base, HandlersHold, HasObj, Active, ReadersInv, OwnInv, Own, ResetClient
    <3>2. client[m] # c
      BY <1>4, <3>1
    <3> QED
      BY <1>1, <1>2, <2>2, <3>1, <3>2, LiveOK DEF ReadersInv, OwnInv, Own, ResetClient
  <2> QED
    BY <2>1, <2>2
<1> QED
  BY <1>5, <1>6 DEF ReadersInv, Cycles, OwnInv, LoopPc, UnOnce, ResetClient, chanVars, loopVars

LEMMA AcceptReaders ==
    ASSUME Base, ReadersInv, NEW n \in Conn, Accept(n)
    PROVE  ReadersInv'
<1>1. Live' = Live
  BY DEF Live, Accept, objVars
<1>2. /\ \A m \in Conn : hs'[m] = IF m = n THEN "up" ELSE hs[m]
      /\ \A m \in Conn : rd'[m] = IF m = n THEN "read" ELSE rd[m]
      /\ hs[n] = "reset" /\ rd[n] = "none"
      /\ client[n] \in Live /\ conn[client[n]] = n
      /\ \A m \in Conn : on'[m] = IF m = n THEN n ELSE on[m]
  BY DEF Base, TypeConn, HandlersHold, HasObj, ReadersUp, ReadersInv, OwnInv, Own, Active, Accept
<1>3. \A m \in Conn : (Active(m) => Active(m)') /\ (Active(m)' => Active(m))
  BY <1>2 DEF Active
<1>4. Cycles'
  BY <1>1, <1>2, <1>3, LiveOK DEF ReadersInv, Cycles, Cycle, InUn, AtUn, Accept, objVars, loopVars
<1>5. OwnInv'
  BY <1>2, <1>3 DEF ReadersInv, OwnInv, Own, Accept, objVars
<1> QED
  BY <1>4, <1>5 DEF ReadersInv, LoopPc, UnOnce, Accept, loopVars

\* A reader before it closes.
LEMMA ReadReaders ==
    ASSUME Base, ReadersInv, NEW n \in Conn,
           ReadRequest(n) \/ CheckClosed(n) \/ HandleMessage(n) \/ ReadError(n) \/ ReaderCloseCheck(n)
    PROVE  ReadersInv'
<1>1. /\ rd[n] \in {"read", "got", "handle", "close"}
      /\ UNCHANGED <<hs, client, conn, closed, pool, unregisterChan, lpc, lc, lold>>
      /\ on' = on \/ on' = [on EXCEPT ![n] = conn[client[n]]]
  BY DEF ReadRequest, CheckClosed, HandleMessage, ReadError, ReaderCloseCheck, objVars, chanVars, loopVars
<1>2. Live' = Live
  BY <1>1 DEF Live
<1>3. /\ client[n] \in Live /\ conn[client[n]] = n /\ on[n] = n /\ hs[n] = "up" /\ ~closed[client[n]]
      /\ \A m \in Conn : on'[m] = on[m]
  BY <1>1, ReaderOwns DEF Base, TypeConn, ReadersInv, Cycles, Cycle
<1>4. /\ \A m \in Conn : m # n => rd'[m] = rd[m]
      /\ rd'[n] \in {"read", "got", "handle", "close", "mark"}
  BY <1>3 DEF Base, TypeConn, ReadRequest, CheckClosed, HandleMessage, ReadError, ReaderCloseCheck,
      AlreadyClosed
<1>5. \A m \in Conn : (Active(m) => Active(m)') /\ (Active(m)' => Active(m))
  BY <1>1, <1>3, <1>4 DEF Active
<1>6. \A m \in Conn : rd'[m] \in {"send", "done"} <=> rd[m] \in {"send", "done"}
  BY <1>1, <1>4
<1>7. Cycles'
  BY <1>1, <1>2, <1>5, <1>6, LiveOK DEF ReadersInv, Cycles, Cycle, InUn, AtUn
<1>8. OwnInv'
  BY <1>1, <1>3, <1>5 DEF ReadersInv, OwnInv, Own
<1> QED
  BY <1>1, <1>7, <1>8 DEF ReadersInv, LoopPc, UnOnce

LEMMA MarkReaders ==
    ASSUME Base, ReadersInv, NEW n \in Conn, ReaderCloseMark(n)
    PROVE  ReadersInv'
<1>1. Live' = Live
  BY DEF Live, ReaderCloseMark
<1>2. /\ client[n] \in Live /\ client[n] \in Client /\ conn[client[n]] = n /\ hs[n] = "up" /\ Active(n)
      /\ \A d \in Live : d # client[n] => conn[d] # n
  BY ReaderOwns DEF ReadersInv, ReaderCloseMark
<1>3. /\ \A m \in Conn : rd'[m] = IF m = n THEN "send" ELSE rd[m]
      /\ \A d \in Client : closed'[d] = IF d = client[n] THEN TRUE ELSE closed[d]
      /\ rd[n] = "mark"
  BY <1>2 DEF Base, TypeConn, TypeObj, ReaderCloseMark, CloseMark
<1>4. \A m \in Conn : (Active(m) => Active(m)') /\ (Active(m)' => Active(m))
  BY <1>2, <1>3 DEF Active, ReaderCloseMark
<1>5. ASSUME NEW d \in Live
      PROVE  Cycle(d)'
  <2>1. /\ conn[d] \in Conn /\ d \in Client /\ Cycle(d)
        /\ UNCHANGED <<conn, pool, unregisterChan, lpc, lc>>
    BY LiveOK DEF ReadersInv, Cycles, ReaderCloseMark, chanVars, loopVars
  <2>2. closed'[d] <=> rd'[conn'[d]] \in {"send", "done"}
    BY <1>2, <1>3, <2>1 DEF Cycle
  <2> QED
    BY <1>4, <2>1, <2>2 DEF Cycle, InUn, AtUn
<1>6. OwnInv'
  BY <1>4 DEF ReadersInv, OwnInv, Own, ReaderCloseMark
<1> QED
  BY <1>1, <1>5, <1>6 DEF ReadersInv, Cycles, LoopPc, UnOnce, ReaderCloseMark, chanVars, loopVars

LEMMA SendReaders ==
    ASSUME Base, ReadersInv, NEW n \in Conn, ReaderCloseSend(n)
    PROVE  ReadersInv'
<1>1. Live' = Live
  BY DEF Live, ReaderCloseSend
<1>2. /\ client[n] \in Live /\ client[n] \in Client /\ conn[client[n]] = n /\ hs[n] = "up" /\ Active(n)
      /\ \A d \in Live : d # client[n] => conn[d] # n
  BY ReaderOwns DEF ReadersInv, ReaderCloseSend
<1>3. /\ \A m \in Conn : rd'[m] = IF m = n THEN "done" ELSE rd[m]
      /\ rd[n] = "send"
  BY <1>2 DEF Base, TypeConn, ReaderCloseSend
<1>4. \A m \in Conn : (m # n => (Active(m) <=> Active(m)')) /\ ~Active(n)'
  BY <1>2, <1>3 DEF Active, ReaderCloseSend
<1>5. /\ Range(unregisterChan') = Range(unregisterChan) \cup {client[n]}
      /\ client[n] \notin Range(unregisterChan) => IsInjective(unregisterChan')
  BY <1>2, RangeAppend DEF Base, UnChanHolds, ReadersInv, UnOnce, ReaderCloseSend, CloseSend
<1>6. ~InUn(client[n]) /\ ~AtUn(client[n]) /\ pool[client[n]] = 0
  BY <1>2 DEF ReadersInv, Cycles, Cycle
<1>7. Cycles'
  BY <1>1, <1>2, <1>3, <1>4, <1>5, <1>6, LiveOK
  DEF ReadersInv, Cycles, Cycle, InUn, AtUn, ReaderCloseSend, loopVars
<1>8. OwnInv'
  BY <1>4 DEF ReadersInv, OwnInv, Own, ReaderCloseSend
<1> QED
  BY <1>5, <1>6, <1>7, <1>8 DEF ReadersInv, LoopPc, UnOnce, InUn, ReaderCloseSend, loopVars

\* The event loop, and logins at other nodes, which the loop then ignores.
LEMMA LoopReaders ==
    ASSUME Base, ReadersOnly, ReadersInv,
           Run \/ (\E r \in Remote : MultiTerminalLoginCheck(r)) \/ (\E k \in Kick : KickRPC(k))
    PROVE  ReadersInv'
<1>1. UNCHANGED <<hs, client, rd, on, conn>> /\ Live' = Live
  BY LoopFrame DEF Live
<1>2. \A m \in Conn : (Active(m) => Active(m)') /\ (Active(m)' => Active(m))
  BY <1>1 DEF Active
<1>3. OwnInv'
  BY <1>1, <1>2 DEF ReadersInv, OwnInv, Own
<1>4. CASE UnregisterClient
  <2> DEFINE h == Head(unregisterChan)
  <2>1. /\ h \in Live /\ h \in Client
        /\ Range(unregisterChan) = Range(unregisterChan') \cup {h}
        /\ IsInjective(unregisterChan') /\ h \notin Range(unregisterChan')
    BY <1>4, RangeTail, UnregisterHead, LiveOK DEF Base, UnChanHolds, ReadersInv, UnOnce, UnregisterClient
  <2>2. lc' = h /\ lpc' = "unLoad" /\ lpc = "idle" /\ UNCHANGED <<closed, pool, lold>>
    BY <1>4 DEF UnregisterClient, objVars
  <2>3. \A d \in Live : Cycle(d)'
    BY <1>1, <1>2, <2>1, <2>2, LiveOK DEF ReadersInv, Cycles, Cycle, InUn, AtUn
  <2> QED
    BY <1>1, <1>3, <2>1, <2>2, <2>3 DEF ReadersInv, Cycles, LoopPc, UnOnce, OwnPc
<1>5. CASE SetOffline
  <2>1. lc \in Live /\ lc \in Client /\ AtUn(lc) /\ pool[lc] = 0 /\ ~InUn(lc) /\ ~Active(conn[lc])
    BY <1>5, LiveOK DEF Base, LoopHolds, OwnPc, SetOffline, AtUn, ReadersInv, Cycles, Cycle
  <2>2. /\ \A d \in Client : pool'[d] = IF d = lc THEN 1 ELSE pool[d]
        /\ lpc' = "idle" /\ UNCHANGED <<closed, unregisterChan, lold>>
    BY <1>5, <2>1 DEF Base, TypeObj, SetOffline, chanVars
  <2>3. \A d \in Live : Cycle(d)'
    BY <1>1, <1>2, <2>1, <2>2, LiveOK DEF ReadersInv, Cycles, Cycle, InUn, AtUn
  <2> QED
    BY <1>1, <1>3, <2>2, <2>3 DEF ReadersInv, Cycles, LoopPc, UnOnce
<1>6. CASE ~UnregisterClient /\ ~SetOffline
  <2>1. /\ UNCHANGED <<closed, pool, unregisterChan>>
        /\ LoopPc'
        /\ \A d : AtUn(d)' => AtUn(d)
    <3>1. CASE \E r \in Remote : MultiTerminalLoginCheck(r)
      BY <3>1 DEF MultiTerminalLoginCheck, ReadersInv, LoopPc, AtUn, objVars, loopVars
    <3>2. CASE RegisterClient
      BY <3>2 DEF RegisterClient, Kicks, ReadersOnly, ReadersInv, LoopPc, AtUn, OwnPc, objVars
    <3>3. CASE KickHandler
      BY <3>3 DEF KickHandler, Kicks, ReadersOnly, ReadersInv, LoopPc, AtUn, OwnPc, objVars
    <3>4. CASE Load \/ StoreNew \/ SetOnline \/ StoreRemoved
      BY <3>4 DEF Load, StoreNew, SetOnline, StoreRemoved, ReadersInv, LoopPc, AtUn, OwnPc, objVars,
          chanVars
    <3>5. ~StoreDeleted /\ ~KickOld /\ ~LoopCloseMark /\ ~LoopCloseSend /\ ~KickTokens
      BY DEF StoreDeleted, KickOld, LoopCloseMark, LoopCloseSend, KickTokens, ReadersInv, LoopPc, OwnPc
    <3> QED
      BY <1>6, <3>1, <3>2, <3>3, <3>4, <3>5 DEF Run, ReadersOnly
  <2>2. \A d \in Live : Cycle(d)'
    BY <1>1, <1>2, <2>1, LiveOK DEF ReadersInv, Cycles, Cycle, InUn
  <2> QED
    BY <1>1, <1>3, <2>1, <2>2 DEF ReadersInv, Cycles, UnOnce
<1> QED
  BY <1>4, <1>5, <1>6

LEMMA ReadersStep ==
    ASSUME Base, ReadersOnly, ReadersInv, [Next]_vars
    PROVE  ReadersInv'
<1>1. ASSUME UNCHANGED vars PROVE ReadersInv'
  BY <1>1 DEF ReadersInv, LoopPc, UnOnce, Cycles, Cycle, OwnInv, Own, Active, InUn, AtUn, Live, vars,
      connVars, objVars, chanVars, loopVars
<1> QED
  BY <1>1, ParseReaders, ResetReaders, AcceptReaders, ReadReaders, MarkReaders, SendReaders, LoopReaders
  DEF Next, Handler, Reader, ReaderCloses

LEMMA InitOwn == Init => KeptInv /\ ReadersInv
<1> SUFFICES ASSUME Init PROVE KeptInv /\ ReadersInv
  OBVIOUS
<1>1. Live = {}
  BY GatewayAssumption DEF Init, Live
<1>2. LoopPc /\ UnOnce /\ KeptInv /\ OwnInv
  BY DEF Init, LoopPc, UnOnce, IsInjective, KeptInv, OwnInv, Active, HasObj
<1> QED
  BY <1>1, <1>2 DEF ReadersInv, Cycles

\* A reader that is done has a closed connection.
DoneClosed == \A n \in Conn : rd[n] \in {"send", "done"} => sock[n] = "closed"

LEMMA SockStays ==
    ASSUME Base, [Next]_vars, NEW m \in Conn, sock[m] = "closed"
    PROVE  sock'[m] = "closed"
<1>1. ASSUME NEW n \in Conn, ParseWSArgs(n)
      PROVE  sock'[m] = "closed"
  BY <1>1 DEF Base, TypeConn, SockOK, ParseWSArgs
<1>2. ASSUME NEW who, NEW c, CloseMark(who, c)
      PROVE  sock'[m] = "closed"
  BY <1>2 DEF Base, TypeConn, CloseMark
<1>3. ASSUME UNCHANGED sock
      PROVE  sock'[m] = "closed"
  BY <1>3
<1>4. ASSUME NEW n \in Conn, Handler(n) \/ Reader(n)
      PROVE  UNCHANGED sock \/ \E who, c : CloseMark(who, c)
  BY <1>4 DEF Handler, ResetClient, Accept, Reader, ReaderCloses, ReadRequest, CheckClosed,
      HandleMessage, ReadError, ReaderCloseCheck, ReaderCloseMark, ReaderCloseSend
<1>5. ASSUME Run
      PROVE  UNCHANGED sock \/ \E who, c : CloseMark(who, c)
  BY <1>5 DEF Run, RegisterClient, KickHandler, Load, StoreDeleted, KickOld, LoopCloseMark,
      LoopCloseSend, KickTokens, StoreNew, SetOnline, UnregisterClient, StoreRemoved, SetOffline, connVars
<1>6. ASSUME NEW k \in Kick, KickRPC(k)
      PROVE  UNCHANGED sock \/ \E who, c : CloseMark(who, c)
  BY <1>6 DEF KickRPC, KickUserOffline, KickUserConn, KickStore, KickCloseCheck, KickCloseMark,
      KickCloseSend, connVars
<1>7. ASSUME NEW r \in Remote, MultiTerminalLoginCheck(r)
      PROVE  UNCHANGED sock
  BY <1>7 DEF MultiTerminalLoginCheck, connVars
<1>8. UNCHANGED vars => UNCHANGED sock
  BY DEF vars, connVars
<1> QED
  BY <1>1, <1>2, <1>3, <1>4, <1>5, <1>6, <1>7, <1>8 DEF Next

LEMMA DoneStep ==
    ASSUME Base, OwnInv, DoneClosed, [Next]_vars
    PROVE  DoneClosed'
<1> SUFFICES ASSUME NEW m \in Conn, rd'[m] \in {"send", "done"}
             PROVE  sock'[m] = "closed"
  BY DEF DoneClosed
<1>1. CASE rd[m] \in {"send", "done"}
  BY <1>1, SockStays DEF DoneClosed
<1>2. CASE rd[m] \notin {"send", "done"}
  <2>1. \E n \in Conn : Reader(n) \/ Accept(n)
    BY <1>2, LoopFrame DEF Next, Handler, ParseWSArgs, ResetClient, vars, connVars
  <2>2. ReaderCloseCheck(m) \/ ReaderCloseMark(m)
    BY <1>2, <2>1 DEF Base, TypeConn, Reader, ReaderCloses, ReadRequest, CheckClosed, HandleMessage,
        ReadError, ReaderCloseCheck, ReaderCloseMark, ReaderCloseSend, Accept
  <2>3. client[m] \in Live /\ client[m] \in Client /\ conn[client[m]] = m
    BY <2>2, ReaderOwns DEF ReaderCloseCheck, ReaderCloseMark
  <2>4. CASE ReaderCloseCheck(m)
    BY <2>3, <2>4 DEF Base, TypeConn, ClosedOK, ReaderCloseCheck, AlreadyClosed
  <2>5. CASE ReaderCloseMark(m)
    BY <2>3, <2>5 DEF Base, TypeConn, ReaderCloseMark, CloseMark
  <2> QED
    BY <2>2, <2>4, <2>5
<1> QED
  BY <1>1, <1>2

\* The hypothesis under which an object can be trusted to be its reader's.
Trusted == ~Reuse \/ ReadersOnly

OwnObjects == Trusted => /\ OwnInv /\ DoneClosed
                         /\ ~Reuse => KeptInv
                         /\ ReadersOnly => ReadersInv

LEMMA OwnObjectsHold == Spec => []OwnObjects
<1>1. Init => OwnObjects
  BY InitOwn DEF OwnObjects, ReadersInv, DoneClosed, Init
<1>2. Base /\ OwnObjects /\ [Next]_vars => OwnObjects'
  <2> SUFFICES ASSUME Base, OwnObjects, [Next]_vars, Trusted PROVE OwnObjects'
    BY DEF OwnObjects, Trusted, ReadersOnly
  <2>1. ~Reuse => KeptInv'
    BY KeptStep DEF OwnObjects
  <2>2. ReadersOnly => ReadersInv'
    BY ReadersStep DEF OwnObjects
  <2>3. KeptInv' => OwnInv'
    BY DEF KeptInv, OwnInv, HasObj, Active
  <2>4. DoneClosed'
    BY DoneStep DEF OwnObjects
  <2> QED
    BY <2>1, <2>2, <2>3, <2>4 DEF OwnObjects, ReadersInv, Trusted, ReadersOnly
<1> QED
  BY <1>1, <1>2, BaseHolds, PTL DEF Spec

\* A reader handles requests of its own connection only, as long as objects
\* are not reused or nobody but the readers closes connections.
THEOREM HandlesOwnRequestHolds ==
    ASSUME Trusted
    PROVE  Spec => []HandlesOwnRequest
<1>1. Base /\ OwnObjects => HandlesOwnRequest
  BY ReaderOwns DEF HandlesOwnRequest, OwnObjects
<1> QED
  BY <1>1, BaseHolds, OwnObjectsHold, PTL

-----------------------------------------------------------------------------
(* Where an object is between Accept and the pool, when KickUserOffline is  *)
(* not called, no peer hangs up before it is registered, and the event loop *)
(* does not kick objects that are reused.                                   *)

Tame == Kick = {} /\ ~Early /\ (~Reuse \/ KickPolicy = "none")

Waiting(c) == c \in Range(registerChan) \/ (lpc \in RegPc /\ lc = c)
Closing(c) == \/ InUn(c)
              \/ lpc \in {"unLoad", "unStore"} /\ lc = c
              \/ lpc = "send" /\ lcur = c
              \/ rd[conn[c]] = "send"
InTable(c) == c \in table[UserID(c)]
IsOpen(c)  == sock[conn[c]] = "open"
IsUp(c)    == hs[conn[c]] = "up"
Kicking    == lpc \in {"kick", "mark", "send"}

\* Counted in connNum, and known to be open.
Counts(c) == IsUp(c) /\ ~Waiting(c) /\ (IsOpen(c) \/ Closing(c))
Shown(c)  == IsUp(c) /\ ~Waiting(c) /\ IsOpen(c)
\* A step that changes none of this for an object.
Steady(c) == (Counts(c)' <=> Counts(c)) /\ (Shown(c)' => Shown(c)) /\ (InTable(c)' <=> InTable(c))

Placed(c) ==
    /\ ~IsUp(c) => IsOpen(c)
    /\ InTable(c) => IsUp(c) /\ ~Waiting(c) /\ (IsOpen(c) \/ Closing(c))
    /\ IsUp(c) /\ IsOpen(c) => Waiting(c) \/ InTable(c) \/ (c \in lold /\ Kicking)
    /\ Waiting(c) => IsUp(c) /\ IsOpen(c) /\ rd[conn[c]] \in {"read", "got", "handle"} /\ c \notin lold
    /\ Closing(c) => IsUp(c) /\ ~IsOpen(c)
    /\ lpc = "online" /\ lc = c => InTable(c)
    /\ lpc = "offline" /\ lc = c => IsUp(c) /\ ~InTable(c) /\ ~IsOpen(c)
AllPlaced == \A c \in Live : Placed(c)

RegOnce   == /\ IsInjective(registerChan)
             /\ lpc \in RegPc => lc \notin Range(registerChan)
SnapOK    == lpc \in {"delStore", "setStore", "unStore"} => lsnap = table[WorkUser]
TableUser == \A u \in User : \A c \in table[u] : UserID(c) = u
\* The connections to kick.
OldOK     == /\ lpc \notin {"delLoad", "delStore", "kick", "mark", "send"} => lold = {}
             /\ lpc \in {"mark", "send"} => lcur \in lold
             /\ \A c \in lold : UserID(c) = WorkUser /\ PlatformID(c) = WorkPlatform /\ IsUp(c)
             /\ Kicking => \A c \in lold : ~InTable(c)
OldOf(i)  == /\ i.login \in Remote
             /\ \A c \in i.old : /\ UserID(c) = i.login.user /\ PlatformID(c) = i.login.platform
                                 /\ IsUp(c) /\ ~Waiting(c)
ChanOK    == KickPolicy # "none" => \A x \in Range(kickHandlerChan) : OldOf(x)
TameInv   == RegOnce /\ SnapOK /\ TableUser /\ OldOK /\ ChanOK /\ AllPlaced

LEMMA TameTrusted == Tame => Trusted
BY DEF Tame, Trusted, ReadersOnly

\* Objects are told apart by their connections.
LEMMA ConnInjective ==
    ASSUME Base, NEW c \in Live, NEW d \in Live
    PROVE  conn[c] = conn[d] => c = d
BY DEF Base, OwnersKnown

LEMMA WithoutIs ==
    ASSUME Base, NEW cs, cs \subseteq Live, NEW gone, gone \subseteq Live
    PROVE  Without(cs, gone) = cs \ gone
BY ConnInjective DEF Without

LEMMA InTableIs ==
    ASSUME Base, TableUser, NEW u \in User, NEW c
    PROVE  c \in table[u] => c \in Live /\ InTable(c) /\ UserID(c) = u
BY DEF Base, TableHolds, TableUser, InTable

\* An object the pool hands out is not used anywhere.
LEMMA AvailableNowhere ==
    ASSUME Base, OwnObjects, Tame, TameInv, NEW c \in Client, Available(c)
    PROVE  /\ c \notin Range(registerChan) /\ c \notin Range(unregisterChan)
           /\ lpc # "idle" => lc # c
           /\ lpc \in {"mark", "send"} => lcur # c
           /\ \A u \in User : c \notin table[u]
           /\ c \notin lold
           /\ KickPolicy # "none" => \A x \in Range(kickHandlerChan) : c \notin x.old
           /\ c \in Live => ~Counts(c) /\ ~InTable(c)
<1>1. CASE c \notin Live
  <2>1. c \notin Range(registerChan) /\ c \notin Range(unregisterChan)
    BY <1>1 DEF Base, RegChanHolds, UnChanHolds, Range
  <2>2. ASSUME NEW x \in Range(kickHandlerChan) PROVE c \notin x.old
    <3>1. x \in Held
      BY DEF Base, KickChanHolds, Range
    <3> QED
      BY <1>1, <3>1 DEF Held
  <2>3. lpc # "idle" => lc # c
    BY <1>1, GatewayAssumption DEF Base, LoopHolds
  <2>4. (lpc \in {"mark", "send"} => lcur # c) /\ c \notin lold
    BY <1>1 DEF Base, LoopHolds
  <2>5. \A u \in User : c \notin table[u]
    BY <1>1 DEF Base, TableHolds
  <2> QED
    BY <1>1, <2>1, <2>2, <2>3, <2>4, <2>5
<1>2. CASE c \in Live
  <2>1. Reuse /\ pool[c] > 0 /\ ReadersOnly
    BY <1>2, GatewayAssumption DEF Available, Live, Tame, ReadersOnly
  <2>2. ReadersInv /\ Cycle(c) /\ Placed(c)
    BY <1>2, <2>1, TameTrusted DEF OwnObjects, ReadersInv, Cycles, TameInv, AllPlaced
  <2>3. conn[c] \in Conn /\ HasObj(conn[c])
    BY <1>2 DEF Base, OwnersKnown, Live
  <2>4. ~Active(conn[c]) /\ ~InUn(c) /\ ~AtUn(c)
    BY <2>1, <2>2 DEF Cycle
  <2>5. rd[conn[c]] = "done" /\ closed[c]
    BY <2>2, <2>3, <2>4 DEF Active, HasObj, Cycle
  <2>6. ~IsOpen(c)
    BY <1>2, <2>5 DEF Base, ClosedOK, IsOpen
  <2>7. ~Waiting(c)
    BY <2>2, <2>6 DEF Placed
  <2>8. lpc \in {"idle"} \cup OwnPc /\ lold = {}
    BY <2>2 DEF ReadersInv, LoopPc
  <2>9. ~Closing(c)
    BY <2>4, <2>5, <2>8 DEF Closing, AtUn, OwnPc
  <2>10. ~InTable(c)
    BY <2>2, <2>6, <2>9 DEF Placed
  <2>11. lpc # "idle" => lc # c
    BY <2>2, <2>4, <2>7, <2>8, <2>10 DEF Placed, AtUn, Waiting, OwnPc, RegPc
  <2>12. \A u \in User : c \notin table[u]
    BY <2>10, InTableIs DEF TameInv
  <2> QED
    BY <2>1, <2>4, <2>6, <2>7, <2>8, <2>9, <2>10, <2>11, <2>12
    DEF ReadersOnly, InUn, Waiting, OwnPc, Counts
<1> QED
  BY <1>1, <1>2

LEMMA WorkFrame ==
    ASSUME lc' = lc, lc \in Client => conn'[lc] = conn[lc]
    PROVE  WorkUser' = WorkUser /\ WorkPlatform' = WorkPlatform /\ WorkToken' = WorkToken
BY DEF WorkUser, WorkPlatform, WorkToken, UserID, PlatformID

LEMMA ChanOldLive == ASSUME Base PROVE \A x \in Range(kickHandlerChan) : x.old \subseteq Live /\ x.login \in Remote
<1>1. \A x \in Range(kickHandlerChan) : x \in Held
  BY DEF Base, KickChanHolds, Range
<1> QED
  BY <1>1 DEF Held

LEMMA TameFrame ==
    ASSUME Base, TameInv,
           UNCHANGED <<conn, table, registerChan, unregisterChan, kickHandlerChan, lpc, lc, lold, lcur,
                       lsnap>>,
           \A c \in Live : /\ IsUp(c)' <=> IsUp(c)
                           /\ IsOpen(c)' <=> IsOpen(c)
                           /\ rd'[conn[c]] = "send" <=> rd[conn[c]] = "send"
                           /\ Waiting(c) => rd'[conn[c]] \in {"read", "got", "handle"}
    PROVE  TameInv' /\ \A d \in Live : Steady(d)
<1>1. Live' = Live
  BY DEF Live
<1>2. AllPlaced'
  BY <1>1 DEF TameInv, AllPlaced, Placed, InTable, Waiting, Closing, Kicking, InUn, UserID
<1>3. OldOK'
  BY WorkFrame DEF Base, LoopHolds, TameInv, OldOK, InTable, Kicking, UserID, PlatformID
<1>4. ChanOK'
  BY ChanOldLive DEF TameInv, ChanOK, OldOf, Waiting, UserID, PlatformID
<1>5. RegOnce' /\ TableUser' /\ SnapOK'
  BY WorkFrame DEF TameInv, RegOnce, TableUser, SnapOK, UserID
<1>6. \A d \in Live : Steady(d)
  BY DEF Steady, Counts, Shown, InTable, Waiting, Closing, InUn, UserID
<1> QED
  BY <1>2, <1>3, <1>4, <1>5, <1>6 DEF TameInv

LEMMA ParseTame ==
    ASSUME Base, TameInv, NEW n \in Conn, ParseWSArgs(n)
    PROVE  TameInv' /\ \A d \in Live : Steady(d)
<1>1. \A c \in Live : conn[c] \in Conn /\ conn[c] # n
  BY DEF Base, OwnersKnown, HasObj, ParseWSArgs, Live
<1>2. \A m \in Conn : m # n => hs'[m] = hs[m] /\ sock'[m] = sock[m]
  BY DEF Base, TypeConn, ParseWSArgs
<1>3. \A c \in Live : (IsUp(c)' <=> IsUp(c)) /\ (IsOpen(c)' <=> IsOpen(c))
  BY <1>1, <1>2 DEF IsUp, IsOpen, ParseWSArgs, objVars
<1>4. UNCHANGED <<rd, conn, table, registerChan, unregisterChan, kickHandlerChan, lpc, lc, lold, lcur, lsnap>>
  BY DEF ParseWSArgs, objVars, mapVars, chanVars, loopVars
<1>5. \A c \in Live : Waiting(c) => rd[conn[c]] \in {"read", "got", "handle"}
  BY DEF TameInv, AllPlaced, Placed
<1> QED
  BY <1>3, <1>4, <1>5, TameFrame

LEMMA ResetTame ==
    ASSUME Base, OwnObjects, Tame, TameInv, NEW n \in Conn, NEW c \in Client, ResetClient(n, c)
    PROVE  /\ TameInv'
           /\ \A d \in Live : d # c => Steady(d) /\ conn'[d] = conn[d]
           /\ Live' = Live \cup {c} /\ ~Counts(c)' /\ ~Shown(c)' /\ ~InTable(c)'
           /\ c \in Live => ~Counts(c) /\ ~InTable(c)
<1>1. /\ \A m \in Conn : hs'[m] = IF m = n THEN "reset" ELSE hs[m]
      /\ hs[n] = "upgraded" /\ sock[n] = "open" /\ rd[n] = "none"
  BY DEF Base, TypeConn, ReadersUp, SockOK, ResetClient
<1>2. \A d \in Client : conn'[d] = IF d = c THEN n ELSE conn[d]
  BY DEF Base, TypeObj, ResetClient
<1>3. Live' = Live \cup {c}
  BY <1>2 DEF Live
<1>4. /\ c \notin Range(registerChan) /\ c \notin Range(unregisterChan)
      /\ lpc # "idle" => lc # c
      /\ lpc \in {"mark", "send"} => lcur # c
      /\ \A u \in User : c \notin table[u]
      /\ c \notin lold
      /\ KickPolicy # "none" => \A x \in Range(kickHandlerChan) : c \notin x.old
      /\ c \in Live => ~Counts(c) /\ ~InTable(c)
  BY AvailableNowhere DEF ResetClient
<1>5. UNCHANGED <<rd, sock, table, registerChan, unregisterChan, kickHandlerChan, lpc, lc, lold, lcur, lsnap>>
  BY DEF ResetClient, mapVars, chanVars, loopVars
<1>6. lpc # "idle" => WorkUser' = WorkUser /\ WorkPlatform' = WorkPlatform
  BY <1>2, <1>4, <1>5, WorkFrame
<1>7. \A d \in Live : d # c => /\ conn'[d] = conn[d] /\ conn[d] \in Conn /\ conn[d] # n
                             /\ UserID(d)' = UserID(d) /\ PlatformID(d)' = PlatformID(d)
                             /\ (IsUp(d)' <=> IsUp(d)) /\ (IsOpen(d)' <=> IsOpen(d))
                             /\ (InTable(d)' <=> InTable(d))
  <2> SUFFICES ASSUME NEW d \in Live, d # c
               PROVE  /\ conn'[d] = conn[d] /\ conn[d] \in Conn /\ conn[d] # n
                      /\ UserID(d)' = UserID(d) /\ PlatformID(d)' = PlatformID(d)
                      /\ (IsUp(d)' <=> IsUp(d)) /\ (IsOpen(d)' <=> IsOpen(d))
                      /\ (InTable(d)' <=> InTable(d))
    OBVIOUS
  <2>1. conn'[d] = conn[d] /\ conn[d] \in Conn /\ conn[d] # n
    BY <1>1, <1>2, LiveOK DEF Base, OwnersKnown, HasObj
  <2>2. UserID(d)' = UserID(d) /\ PlatformID(d)' = PlatformID(d)
    BY <2>1 DEF UserID, PlatformID
  <2> QED
    BY <1>1, <1>5, <2>1, <2>2 DEF IsUp, IsOpen, InTable
<1>8. ASSUME NEW d \in Live'
      PROVE  Placed(d)'
  <2>1. CASE d = c
    <3>1. ~Waiting(c)' /\ ~Closing(c)'
      BY <1>1, <1>2, <1>4, <1>5 DEF Waiting, Closing, InUn, RegPc
    <3>2. ~InTable(c)'
      BY <1>2, <1>4, <1>5, GatewayAssumption DEF InTable, UserID
    <3>3. ~IsUp(c)' /\ IsOpen(c)'
      BY <1>1, <1>2, <1>5 DEF IsUp, IsOpen
    <3> QED
      BY <1>4, <1>5, <2>1, <3>1, <3>2, <3>3 DEF Placed
  <2>2. CASE d # c
    <3>1. d \in Live /\ Placed(d)
      BY <1>3, <2>2 DEF TameInv, AllPlaced
    <3>2. (Waiting(d)' <=> Waiting(d)) /\ (Closing(d)' <=> Closing(d)) /\ (Kicking' <=> Kicking)
      BY <1>5, <1>7, <2>2, <3>1 DEF Waiting, Closing, InUn, Kicking
    <3> QED
      BY <1>5, <1>7, <2>2, <3>1, <3>2 DEF Placed
  <2> QED
    BY <2>1, <2>2
<1>9. OldOK'
  BY <1>4, <1>5, <1>6, <1>7 DEF Base, LoopHolds, TameInv, OldOK, Kicking
<1>10. ChanOK'
  BY <1>4, <1>5, <1>7, ChanOldLive DEF TameInv, ChanOK, OldOf, Waiting
<1>11. TableUser'
  BY <1>4, <1>5, <1>7 DEF Base, TableHolds, TameInv, TableUser
<1>12. RegOnce' /\ SnapOK'
  BY <1>5, <1>6 DEF TameInv, RegOnce, SnapOK
<1>13. \A d \in Live : d # c => Steady(d)
  <2>1. \A d \in Live : d # c => (Waiting(d)' <=> Waiting(d)) /\ (Closing(d)' <=> Closing(d))
    BY <1>5, <1>7 DEF Waiting, Closing, InUn
  <2> QED
    BY <1>7, <2>1 DEF Steady, Counts, Shown
<1>14. ~IsUp(c)' /\ ~InTable(c)'
  BY <1>1, <1>2, <1>4, <1>5, GatewayAssumption DEF IsUp, InTable, UserID
<1> QED
  BY <1>3, <1>4, <1>7, <1>8, <1>9, <1>10, <1>11, <1>12, <1>13, <1>14 DEF TameInv, AllPlaced, Counts, Shown

LEMMA AcceptTame ==
    ASSUME Base, OwnInv, TameInv, NEW n \in Conn, Accept(n)
    PROVE  TameInv' /\ \A d \in Live : Steady(d)
<1>0. PICK c : c = client[n]
  OBVIOUS
<1>1. /\ \A m \in Conn : hs'[m] = IF m = n THEN "up" ELSE hs[m]
      /\ \A m \in Conn : rd'[m] = IF m = n THEN "read" ELSE rd[m]
      /\ hs[n] = "reset" /\ rd[n] = "none"
  BY DEF Base, TypeConn, ReadersUp, Accept
<1>2. c \in Live /\ c \in Client /\ conn[c] = n
  BY <1>0, <1>1, LiveOK DEF Base, HandlersHold, HasObj, OwnInv, Own, Active
<1>3. UNCHANGED <<sock, conn, table, unregisterChan, kickHandlerChan, lpc, lc, lold, lcur, lsnap>>
  BY DEF Accept, objVars, mapVars, loopVars
<1>4. /\ Range(registerChan') = Range(registerChan) \cup {c}
      /\ c \notin Range(registerChan) => IsInjective(registerChan')
  BY <1>0, <1>2, RangeAppend DEF Base, RegChanHolds, TameInv, RegOnce, Accept
<1>5. Live' = Live
  BY <1>3 DEF Live
<1>6. Placed(c) /\ ~IsUp(c) /\ IsOpen(c)
  BY <1>1, <1>2 DEF TameInv, AllPlaced, Placed, IsUp
<1>7. ~Waiting(c) /\ ~InTable(c) /\ ~Closing(c) /\ c \notin lold
  BY <1>6 DEF Placed, TameInv, OldOK
<1>8. \A d \in Live : (d # c => conn[d] # n) /\ conn[d] \in Conn
  BY <1>2, ConnInjective DEF Live
<1>9. ASSUME NEW d \in Live
      PROVE  Placed(d)'
  <2>1. CASE d = c
    <3>1. IsUp(c)' /\ IsOpen(c)' /\ Waiting(c)' /\ ~InTable(c)' /\ ~Closing(c)' /\ rd'[conn'[c]] = "read"
      BY <1>1, <1>2, <1>3, <1>4, <1>6, <1>7 DEF IsUp, IsOpen, Waiting, InTable, Closing, InUn, UserID
    <3>2. ~(lpc = "online" /\ lc = c) /\ ~(lpc = "offline" /\ lc = c)
      BY <1>6, <1>7 DEF Placed
    <3> QED
      BY <1>3, <1>7, <2>1, <3>1, <3>2 DEF Placed
  <2>2. CASE d # c
    <3>1. /\ (IsUp(d)' <=> IsUp(d)) /\ (IsOpen(d)' <=> IsOpen(d)) /\ (Waiting(d)' <=> Waiting(d))
          /\ (InTable(d)' <=> InTable(d)) /\ (Closing(d)' <=> Closing(d)) /\ rd'[conn[d]] = rd[conn[d]]
          /\ (Kicking' <=> Kicking)
      BY <1>1, <1>3, <1>4, <1>8, <2>2 DEF IsUp, IsOpen, Waiting, InTable, Closing, InUn, UserID, Kicking
    <3> QED
      BY <1>3, <3>1 DEF TameInv, AllPlaced, Placed
  <2> QED
    BY <2>1, <2>2
<1>10. RegOnce'
  BY <1>3, <1>4, <1>7 DEF TameInv, RegOnce, Waiting
<1>11. OldOK'
  <2>1. \A d \in lold : IsUp(d)'
    BY <1>1, <1>3, <1>8 DEF Base, LoopHolds, TameInv, OldOK, IsUp
  <2> QED
    BY <1>3, <2>1, WorkFrame DEF TameInv, OldOK, InTable, Kicking, UserID, PlatformID
<1>12. ChanOK'
  <2>1. \A d \in Live : IsUp(d) => IsUp(d)' /\ (Waiting(d)' => Waiting(d))
    BY <1>1, <1>3, <1>4, <1>6, <1>8 DEF IsUp, Waiting
  <2> QED
    BY <1>3, <2>1, ChanOldLive DEF TameInv, ChanOK, OldOf, UserID, PlatformID
<1>13. TableUser' /\ SnapOK'
  BY <1>3, WorkFrame DEF TameInv, TableUser, SnapOK, UserID
<1>14. ASSUME NEW d \in Live
       PROVE  Steady(d)
  <2>1. CASE d = c
    <3>1. Waiting(c)' /\ (InTable(c)' <=> InTable(c))
      BY <1>3, <1>4 DEF Waiting, InTable, UserID
    <3> QED
      BY <1>6, <2>1, <3>1 DEF Steady, Counts, Shown
  <2>2. CASE d # c
    <3>1. /\ (IsUp(d)' <=> IsUp(d)) /\ (IsOpen(d)' <=> IsOpen(d)) /\ (Waiting(d)' <=> Waiting(d))
          /\ (InTable(d)' <=> InTable(d)) /\ (Closing(d)' <=> Closing(d))
      BY <1>1, <1>3, <1>4, <1>8, <2>2 DEF IsUp, IsOpen, Waiting, InTable, Closing, InUn, UserID
    <3> QED
      BY <3>1 DEF Steady, Counts, Shown
  <2> QED
    BY <2>1, <2>2
<1> QED
  BY <1>5, <1>9, <1>10, <1>11, <1>12, <1>13, <1>14 DEF TameInv, AllPlaced

LEMMA ReadTame ==
    ASSUME Base, OwnInv, Tame, TameInv, NEW n \in Conn,
           ReadRequest(n) \/ CheckClosed(n) \/ HandleMessage(n) \/ ReadError(n) \/ ReaderCloseCheck(n)
    PROVE  TameInv' /\ \A d \in Live : Steady(d)
<1> DEFINE c == client[n]
<1>1. /\ rd[n] \in {"read", "got", "handle", "close"}
      /\ UNCHANGED <<hs, client, sock, conn, table, registerChan, unregisterChan, kickHandlerChan, lpc,
                     lc, lold, lcur, lsnap>>
  BY DEF ReadRequest, CheckClosed, HandleMessage, ReadError, ReaderCloseCheck, objVars, chanVars, mapVars,
      loopVars
<1>2. /\ c \in Live /\ conn[c] = n /\ on[n] = n
      /\ \A d \in Live : (d # c => conn[d] # n) /\ conn[d] \in Conn
  BY <1>1, ReaderOwns, LiveOK
<1>3. \A m \in Conn : m # n => rd'[m] = rd[m]
  BY DEF Base, TypeConn, ReadRequest, CheckClosed, HandleMessage, ReadError, ReaderCloseCheck
<1>4. rd'[n] \in {"read", "got", "handle", "close", "mark", "done"}
  BY DEF Base, TypeConn, ReadRequest, CheckClosed, HandleMessage, ReadError, ReaderCloseCheck
<1>5. Waiting(c) => rd'[n] \in {"read", "got", "handle"}
  <2> SUFFICES ASSUME Waiting(c) PROVE rd'[n] \in {"read", "got", "handle"}
    OBVIOUS
  <2>1. IsOpen(c) /\ rd[n] \in {"read", "got", "handle"} /\ ~InTable(c)
    BY <1>2 DEF TameInv, AllPlaced, Placed
  <2>2. ~closed[c] /\ sock[n] = "open"
    BY <1>2, <2>1 DEF Base, ClosedOK, IsOpen
  <2>3. ~Registered(n)
    <3> SUFFICES ASSUME NEW u \in User, NEW d \in table[u], conn[d] = n PROVE FALSE
      BY DEF Registered
    <3>1. d \in Live /\ InTable(d)
      BY InTableIs DEF TameInv
    <3> QED
      BY <1>2, <2>1, <3>1
  <2>4. CASE ReadRequest(n)
    BY <2>4 DEF Base, TypeConn, ReadRequest
  <2>5. CASE CheckClosed(n)
    BY <2>2, <2>5 DEF Base, TypeConn, CheckClosed
  <2>6. CASE HandleMessage(n)
    BY <1>2, <2>6 DEF Base, TypeConn, HandleMessage, UserID
  <2>7. ~ReadError(n)
    BY <1>2, <2>2, <2>3 DEF ReadError, Tame
  <2>8. ~ReaderCloseCheck(n)
    BY <2>1 DEF ReaderCloseCheck
  <2> QED
    BY <2>4, <2>5, <2>6, <2>7, <2>8
<1>6. ASSUME NEW d \in Live
      PROVE  /\ IsUp(d)' <=> IsUp(d)
             /\ IsOpen(d)' <=> IsOpen(d)
             /\ rd'[conn[d]] = "send" <=> rd[conn[d]] = "send"
             /\ Waiting(d) => rd'[conn[d]] \in {"read", "got", "handle"}
  <2>1. (IsUp(d)' <=> IsUp(d)) /\ (IsOpen(d)' <=> IsOpen(d))
    BY <1>1 DEF IsUp, IsOpen
  <2>2. rd'[conn[d]] = "send" <=> rd[conn[d]] = "send"
    BY <1>1, <1>2, <1>3, <1>4
  <2>3. Waiting(d) => rd'[conn[d]] \in {"read", "got", "handle"}
    BY <1>2, <1>3, <1>5 DEF TameInv, AllPlaced, Placed
  <2> QED
    BY <2>1, <2>2, <2>3
<1> QED
  BY <1>1, <1>6, TameFrame

\* Client.close of an object the event loop has registered, by anyone.
LEMMA MarkTame ==
    ASSUME Base, TameInv, NEW c \in Live, IsUp(c), ~Waiting(c), Closing(c)',
           UNCHANGED <<hs, conn, table, registerChan, unregisterChan, kickHandlerChan, lc, lold, lcur,
                       lsnap>>,
           sock' = [sock EXCEPT ![conn[c]] = "closed"],
           lpc' = lpc \/ (lpc = "mark" /\ lpc' = "send" /\ lcur = c),
           \A d \in Live : d # c => rd'[conn[d]] = rd[conn[d]]
    PROVE  /\ TameInv'
           /\ \A d \in Live : /\ Counts(d) => Counts(d)'
                              /\ Shown(d)' => Shown(d)
                              /\ InTable(d)' <=> InTable(d)
           /\ \A d \in Live : (d = c => IsOpen(d) \/ Closing(d)) => (Counts(d)' => Counts(d))
<1>1. Live' = Live
  BY DEF Live
<1>2. \A d \in Live : conn[d] \in Conn /\ (d # c => conn[d] # conn[c])
  BY ConnInjective DEF Live
<1>3. \A m \in Conn : sock'[m] = IF m = conn[c] THEN "closed" ELSE sock[m]
  BY DEF Base, TypeConn
<1>4. (Kicking' <=> Kicking) /\ (lpc' \in RegPc <=> lpc \in RegPc)
  BY DEF Kicking, RegPc
<1>5. \A d \in Live : /\ IsUp(d)' <=> IsUp(d)
                      /\ InTable(d)' <=> InTable(d)
                      /\ Waiting(d)' <=> Waiting(d)
                      /\ UserID(d)' = UserID(d) /\ PlatformID(d)' = PlatformID(d)
  BY <1>4 DEF IsUp, InTable, Waiting, UserID, PlatformID
<1>6. ASSUME NEW d \in Live
      PROVE  Placed(d)'
  <2>1. CASE d = c
    <3>1. ~IsOpen(c)'
      BY <1>2, <1>3 DEF IsOpen
    <3> QED
      BY <1>5, <2>1, <3>1 DEF TameInv, AllPlaced, Placed
  <2>2. CASE d # c
    <3>1. (IsOpen(d)' <=> IsOpen(d)) /\ (Closing(d)' <=> Closing(d)) /\ rd'[conn'[d]] = rd[conn[d]]
      BY <1>2, <1>3, <2>2 DEF IsOpen, Closing, InUn
    <3> QED
      BY <1>4, <1>5, <3>1 DEF TameInv, AllPlaced, Placed
  <2> QED
    BY <2>1, <2>2
<1>7. OldOK'
  BY <1>4, <1>5, WorkFrame DEF Base, LoopHolds, TameInv, OldOK, Kicking
<1>8. ChanOK'
  BY <1>5, ChanOldLive DEF TameInv, ChanOK, OldOf
<1>9. RegOnce' /\ TableUser' /\ SnapOK'
  BY <1>4, WorkFrame DEF TameInv, RegOnce, TableUser, SnapOK, UserID
<1>10. \A d \in Live : d # c => (IsOpen(d)' <=> IsOpen(d)) /\ (Closing(d)' <=> Closing(d))
  BY <1>2, <1>3 DEF IsOpen, Closing, InUn
<1>11. ~IsOpen(c)'
  BY <1>2, <1>3 DEF IsOpen
<1>12. \A d \in Live : /\ Counts(d) => Counts(d)'
                       /\ Shown(d)' => Shown(d)
                       /\ InTable(d)' <=> InTable(d)
  BY <1>5, <1>10, <1>11 DEF Counts, Shown
<1>13. \A d \in Live : (d = c => IsOpen(d) \/ Closing(d)) => (Counts(d)' => Counts(d))
  BY <1>5, <1>10, <1>11 DEF Counts
<1> QED
  BY <1>1, <1>6, <1>7, <1>8, <1>9, <1>12, <1>13 DEF TameInv, AllPlaced

LEMMA SendTame ==
    ASSUME Base, TameInv, NEW c \in Live, Closing(c),
           UNCHANGED <<hs, sock, conn, table, registerChan, kickHandlerChan, lc, lcur, lsnap>>,
           unregisterChan' = Append(unregisterChan, c),
           \/ lpc' = lpc /\ lold' = lold
           \/ lpc = "send" /\ lpc' = "kick" /\ lcur = c /\ lold' = lold \ {c},
           \A d \in Live : d # c => rd'[conn[d]] = rd[conn[d]]
    PROVE  TameInv' /\ \A d \in Live : Steady(d)
<1>1. Live' = Live
  BY DEF Live
<1>2. Range(unregisterChan') = Range(unregisterChan) \cup {c}
  BY RangeAppend DEF Base, UnChanHolds
<1>3. (Kicking' <=> Kicking) /\ (lpc' \in RegPc <=> lpc \in RegPc)
  BY DEF Kicking, RegPc
<1>4. \A d \in Live : /\ IsUp(d)' <=> IsUp(d)
                      /\ IsOpen(d)' <=> IsOpen(d)
                      /\ InTable(d)' <=> InTable(d)
                      /\ Waiting(d)' <=> Waiting(d)
                      /\ UserID(d)' = UserID(d) /\ PlatformID(d)' = PlatformID(d)
  BY <1>3 DEF IsUp, IsOpen, InTable, Waiting, UserID, PlatformID
<1>5. ASSUME NEW d \in Live
      PROVE  Placed(d)'
  <2>1. CASE d = c
    <3>1. Closing(c)' /\ IsUp(c) /\ ~IsOpen(c) /\ ~Waiting(c)
      BY <1>2 DEF Closing, InUn, TameInv, AllPlaced, Placed
    <3> QED
      BY <1>4, <2>1, <3>1 DEF TameInv, AllPlaced, Placed
  <2>2. CASE d # c
    <3>1. (Closing(d)' <=> Closing(d)) /\ rd'[conn'[d]] = rd[conn[d]] /\ (d \in lold' <=> d \in lold)
      BY <1>2, <2>2 DEF Closing, InUn
    <3> QED
      BY <1>3, <1>4, <3>1 DEF TameInv, AllPlaced, Placed
  <2> QED
    BY <2>1, <2>2
<1>6. OldOK'
  BY <1>3, <1>4, WorkFrame DEF Base, LoopHolds, TameInv, OldOK, Kicking
<1>7. ChanOK'
  BY <1>4, ChanOldLive DEF TameInv, ChanOK, OldOf
<1>8. RegOnce' /\ TableUser' /\ SnapOK'
  BY <1>3, WorkFrame DEF TameInv, RegOnce, TableUser, SnapOK, UserID
<1>9. \A d \in Live : Closing(d)' <=> Closing(d)
  BY <1>2 DEF Closing, InUn
<1>10. \A d \in Live : Steady(d)
  BY <1>4, <1>9 DEF Steady, Counts, Shown
<1> QED
  BY <1>1, <1>5, <1>6, <1>7, <1>8, <1>10 DEF TameInv, AllPlaced

LEMMA ReaderMarkTame ==
    ASSUME Base, OwnInv, TameInv, NEW n \in Conn, ReaderCloseMark(n)
    PROVE  /\ TameInv'
           /\ \A d \in Live : /\ Counts(d) => Counts(d)'
                              /\ Shown(d)' => Shown(d)
                              /\ InTable(d)' <=> InTable(d)
           /\ \A d \in Live : (d = client[n] => IsOpen(d) \/ Closing(d)) => (Counts(d)' => Counts(d))
<1>0. PICK c : c = client[n]
  OBVIOUS
<1>1. /\ c \in Live /\ conn[c] = n /\ IsUp(c)
      /\ \A d \in Live : (d # c => conn[d] # n) /\ conn[d] \in Conn
  BY <1>0, ReaderOwns, LiveOK DEF ReaderCloseMark, IsUp
<1>2. ~Waiting(c)
  BY <1>1 DEF TameInv, AllPlaced, Placed, ReaderCloseMark
<1>3. \A m \in Conn : rd'[m] = IF m = n THEN "send" ELSE rd[m]
  BY DEF Base, TypeConn, ReaderCloseMark
<1>4. /\ UNCHANGED <<hs, conn, table, registerChan, unregisterChan, kickHandlerChan, lc, lold, lcur,
                     lsnap, lpc>>
      /\ sock' = [sock EXCEPT ![conn[c]] = "closed"]
  BY <1>0 DEF ReaderCloseMark, CloseMark, mapVars, chanVars, loopVars
<1>5. Closing(c)'
  BY <1>1, <1>3, <1>4 DEF Closing
<1>6. \A d \in Live : d # c => rd'[conn[d]] = rd[conn[d]]
  BY <1>1, <1>3
<1> QED
  BY <1>0, <1>1, <1>2, <1>4, <1>5, <1>6, MarkTame

LEMMA LoopMarkTame ==
    ASSUME Base, TameInv, LoopCloseMark
    PROVE  /\ TameInv'
           /\ \A d \in Live : /\ Counts(d) => Counts(d)'
                              /\ Shown(d)' => Shown(d)
                              /\ InTable(d)' <=> InTable(d)
           /\ \A d \in Live : (d = lcur => IsOpen(d) \/ Closing(d)) => (Counts(d)' => Counts(d))
<1>0. PICK c : c = lcur
  OBVIOUS
<1>1. c \in Live /\ IsUp(c) /\ c \in lold
  BY <1>0 DEF Base, LoopHolds, TameInv, OldOK, LoopCloseMark
<1>2. ~Waiting(c)
  BY <1>1 DEF TameInv, AllPlaced, Placed
<1>3. /\ UNCHANGED <<hs, rd, conn, table, registerChan, unregisterChan, kickHandlerChan, lc, lold, lcur,
                     lsnap>>
      /\ sock' = [sock EXCEPT ![conn[c]] = "closed"]
      /\ lpc = "mark" /\ lpc' = "send"
  BY <1>0 DEF LoopCloseMark, CloseMark, mapVars, chanVars
<1>4. Closing(c)'
  BY <1>0, <1>3 DEF Closing
<1> QED
  BY <1>0, <1>1, <1>2, <1>3, <1>4, MarkTame

LEMMA ReaderSendTame ==
    ASSUME Base, OwnInv, TameInv, NEW n \in Conn, ReaderCloseSend(n)
    PROVE  TameInv' /\ \A d \in Live : Steady(d)
<1>0. PICK c : c = client[n]
  OBVIOUS
<1>1. /\ c \in Live /\ conn[c] = n
      /\ \A d \in Live : (d # c => conn[d] # n) /\ conn[d] \in Conn
  BY <1>0, ReaderOwns, LiveOK DEF ReaderCloseSend
<1>2. Closing(c)
  BY <1>1 DEF Closing, ReaderCloseSend
<1>3. \A m \in Conn : rd'[m] = IF m = n THEN "done" ELSE rd[m]
  BY DEF Base, TypeConn, ReaderCloseSend
<1>4. /\ UNCHANGED <<hs, sock, conn, table, registerChan, kickHandlerChan, lc, lold, lcur, lsnap, lpc>>
      /\ unregisterChan' = Append(unregisterChan, c)
  BY <1>0 DEF ReaderCloseSend, CloseSend, mapVars, loopVars
<1>5. \A d \in Live : d # c => rd'[conn[d]] = rd[conn[d]]
  BY <1>1, <1>3
<1> QED
  BY <1>1, <1>2, <1>4, <1>5, SendTame

LEMMA LoopSendTame ==
    ASSUME Base, TameInv, LoopCloseSend
    PROVE  TameInv' /\ \A d \in Live : Steady(d)
<1>0. PICK c : c = lcur
  OBVIOUS
<1>1. c \in Live /\ Closing(c)
  BY <1>0 DEF Base, LoopHolds, Closing, LoopCloseSend
<1>2. /\ UNCHANGED <<hs, rd, sock, conn, table, registerChan, kickHandlerChan, lc, lcur, lsnap>>
      /\ unregisterChan' = Append(unregisterChan, c)
      /\ lpc = "send" /\ lpc' = "kick" /\ lold' = lold \ {c}
  BY <1>0 DEF LoopCloseSend, CloseSend, connVars, mapVars
<1> QED
  BY <1>0, <1>1, <1>2, SendTame

\* The steps of the event loop in which it changes only its own variables.
LEMMA LoopTame ==
    ASSUME Base, TameInv, Load \/ KickOld \/ KickTokens \/ SetOnline \/ SetOffline
    PROVE  TameInv' /\ \A d \in Live : Steady(d)
<1>1. UNCHANGED <<hs, rd, sock, conn, table, registerChan, unregisterChan, kickHandlerChan, lc>>
  BY DEF Load, KickOld, KickTokens, SetOnline, SetOffline, connVars, objVars, mapVars, chanVars
<1>2. Live' = Live
  BY <1>1 DEF Live
<1>3. \A d \in Live : /\ IsUp(d)' <=> IsUp(d)
                      /\ IsOpen(d)' <=> IsOpen(d)
                      /\ InTable(d)' <=> InTable(d)
                      /\ UserID(d)' = UserID(d) /\ PlatformID(d)' = PlatformID(d)
  BY <1>1 DEF IsUp, IsOpen, InTable, UserID, PlatformID
<1>4. WorkUser' = WorkUser /\ WorkPlatform' = WorkPlatform
  BY <1>1, WorkFrame
<1>5. lpc' \in RegPc => lpc \in RegPc
  BY DEF RegPc, Load, KickOld, KickTokens, SetOnline, SetOffline, AfterKick
<1>6. /\ lpc \in RegPc /\ lpc' \notin RegPc => lc \notin Client
      /\ lpc' # "online" /\ lpc' # "offline"
      /\ lpc # "send" /\ lpc' # "send"
      /\ lpc \in {"unLoad", "unStore"} <=> lpc' \in {"unLoad", "unStore"}
  BY DEF RegPc, Load, KickOld, KickTokens, SetOnline, SetOffline, AfterKick
<1>7. \A d \in Live : (Waiting(d)' <=> Waiting(d)) /\ (Closing(d)' <=> Closing(d))
  BY <1>1, <1>5, <1>6, LiveOK DEF Waiting, Closing, InUn
<1>8. /\ lold' \subseteq lold
      /\ \A d \in Live : IsOpen(d) /\ d \in lold /\ Kicking => d \in lold' /\ Kicking'
  <2>1. CASE Load \/ KickTokens \/ SetOnline \/ SetOffline
    BY <2>1 DEF Load, KickTokens, SetOnline, SetOffline, Kicking
  <2>2. CASE KickOld
    BY <2>2 DEF KickOld, AlreadyClosed, Kicking, Base, ClosedOK, IsOpen
  <2> QED
    BY <2>1, <2>2
<1>9. AllPlaced'
  BY <1>1, <1>2, <1>3, <1>6, <1>7, <1>8 DEF TameInv, AllPlaced, Placed
<1>10. OldOK'
  <2>1. /\ lpc' \notin {"delLoad", "delStore", "kick", "mark", "send"} => lold' = {}
        /\ lpc' \in {"mark", "send"} => lcur' \in lold'
        /\ Kicking' => Kicking
    BY DEF TameInv, OldOK, Kicking, Load, KickOld, KickTokens, SetOnline, SetOffline, AfterKick
  <2> QED
    BY <1>3, <1>4, <1>8, <2>1 DEF Base, LoopHolds, TameInv, OldOK
<1>11. ChanOK'
  BY <1>1, <1>3, <1>7, ChanOldLive DEF TameInv, ChanOK, OldOf
<1>12. SnapOK'
  BY <1>1, <1>4 DEF TameInv, SnapOK, Load, KickOld, KickTokens, SetOnline, SetOffline, AfterKick
<1>13. RegOnce' /\ TableUser'
  BY <1>1, <1>5 DEF TameInv, RegOnce, TableUser, UserID
<1>14. \A d \in Live : Steady(d)
  BY <1>3, <1>7 DEF Steady, Counts, Shown
<1> QED
  BY <1>9, <1>10, <1>11, <1>12, <1>13, <1>14 DEF TameInv

LEMMA RegisterTame ==
    ASSUME Base, TameInv, RegisterClient
    PROVE  TameInv' /\ \A d \in Live : Steady(d)
<1>0. PICK c : c = Head(registerChan)
  OBVIOUS
<1>1. /\ c \in Live /\ c \in Client
      /\ Range(registerChan) = Range(registerChan') \cup {c}
      /\ IsInjective(registerChan') /\ c \notin Range(registerChan')
  BY <1>0, RegisterHead, RangeTail, LiveOK DEF Base, RegChanHolds, TameInv, RegOnce, RegisterClient
<1>2. /\ lpc = "idle" /\ lc' = c /\ lpc' \in {"delLoad", "setLoad"}
      /\ lold' = lold \/ (lpc' = "delLoad" /\ lold' = Get(UserID(c), PlatformID(c)))
      /\ UNCHANGED <<hs, rd, sock, conn, table, unregisterChan, kickHandlerChan, lcur, lsnap>>
  BY <1>0 DEF RegisterClient, connVars, objVars, mapVars
<1>3. Live' = Live
  BY <1>2 DEF Live
<1>4. \A d \in Live : /\ IsUp(d)' <=> IsUp(d)
                      /\ IsOpen(d)' <=> IsOpen(d)
                      /\ InTable(d)' <=> InTable(d)
                      /\ UserID(d)' = UserID(d) /\ PlatformID(d)' = PlatformID(d)
  BY <1>2 DEF IsUp, IsOpen, InTable, UserID, PlatformID
<1>5. \A d \in Live : (Waiting(d)' <=> Waiting(d)) /\ (Closing(d)' <=> Closing(d))
  BY <1>1, <1>2 DEF Waiting, Closing, InUn, RegPc
<1>6. lold = {} /\ ~Kicking /\ ~Kicking'
  BY <1>2 DEF TameInv, OldOK, Kicking
<1>7. \A d \in lold' : d \in Live /\ InTable(d) /\ UserID(d) = UserID(c) /\ PlatformID(d) = PlatformID(c)
  BY <1>1, <1>2, <1>6, GetLive, FieldsOK DEF TameInv, TableUser, InTable, Get
<1>8. \A d \in lold' : IsUp(d) /\ ~Waiting(d)
  BY <1>7 DEF TameInv, AllPlaced, Placed
<1>9. WorkUser' = UserID(c) /\ WorkPlatform' = PlatformID(c)
  BY <1>1, <1>2 DEF WorkUser, WorkPlatform, UserID, PlatformID
<1>10. AllPlaced'
  BY <1>2, <1>3, <1>4, <1>5, <1>6, <1>8 DEF TameInv, AllPlaced, Placed
<1>11. OldOK'
  BY <1>2, <1>4, <1>6, <1>7, <1>8, <1>9 DEF OldOK
<1>12. ChanOK'
  BY <1>2, <1>4, <1>5, ChanOldLive DEF TameInv, ChanOK, OldOf
<1>13. RegOnce' /\ TableUser' /\ SnapOK'
  BY <1>1, <1>2 DEF TameInv, RegOnce, TableUser, SnapOK, UserID
<1>14. \A d \in Live : Steady(d)
  BY <1>4, <1>5 DEF Steady, Counts, Shown
<1> QED
  BY <1>10, <1>11, <1>12, <1>13, <1>14 DEF TameInv

LEMMA KickHandlerTame ==
    ASSUME Base, TameInv, KickHandler
    PROVE  TameInv' /\ \A d \in Live : Steady(d)
<1>0. PICK x : x = Head(kickHandlerChan)
  OBVIOUS
<1>1. /\ x.old \subseteq Live /\ x.login \in Remote /\ x \in Range(kickHandlerChan)
      /\ Range(kickHandlerChan') \subseteq Range(kickHandlerChan)
  BY <1>0, KickHead, RangeTail DEF Base, KickChanHolds, KickHandler
<1>2. /\ lpc = "idle"
      /\ \/ UNCHANGED <<lc, lpc, lold>>
         \/ lc' = x.login /\ lpc' = "delLoad" /\ lold' = x.old /\ KickPolicy # "none"
      /\ UNCHANGED <<hs, rd, sock, conn, table, registerChan, unregisterChan, lcur, lsnap>>
  BY <1>0 DEF KickHandler, Kicks, connVars, objVars, mapVars
<1>3. Live' = Live
  BY <1>2 DEF Live
<1>4. \A d \in Live : /\ IsUp(d)' <=> IsUp(d)
                      /\ IsOpen(d)' <=> IsOpen(d)
                      /\ InTable(d)' <=> InTable(d)
                      /\ UserID(d)' = UserID(d) /\ PlatformID(d)' = PlatformID(d)
  BY <1>2 DEF IsUp, IsOpen, InTable, UserID, PlatformID
<1>5. x.login \notin Client
  BY <1>1, GatewayAssumption
<1>6. \A d \in Live : (Waiting(d)' <=> Waiting(d)) /\ (Closing(d)' <=> Closing(d))
  BY <1>2, <1>5, LiveOK DEF Waiting, Closing, InUn, RegPc
<1>7. lold = {} /\ ~Kicking /\ ~Kicking'
  BY <1>2 DEF TameInv, OldOK, Kicking
<1>8. ASSUME lold' # {}
      PROVE  /\ lc' = x.login /\ lpc' = "delLoad" /\ lold' = x.old
             /\ WorkUser' = x.login.user /\ WorkPlatform' = x.login.platform
             /\ \A d \in lold' : /\ UserID(d) = x.login.user /\ PlatformID(d) = x.login.platform
                                 /\ IsUp(d) /\ ~Waiting(d)
  <2>1. lc' = x.login /\ lpc' = "delLoad" /\ lold' = x.old /\ KickPolicy # "none"
    BY <1>2, <1>7, <1>8
  <2>2. WorkUser' = x.login.user /\ WorkPlatform' = x.login.platform
    BY <1>5, <2>1 DEF WorkUser, WorkPlatform
  <2> QED
    BY <1>1, <2>1, <2>2 DEF TameInv, ChanOK, OldOf
<1>9. AllPlaced'
  BY <1>2, <1>3, <1>4, <1>6, <1>7, <1>8 DEF TameInv, AllPlaced, Placed
<1>10. OldOK'
  BY <1>1, <1>2, <1>4, <1>7, <1>8 DEF OldOK
<1>11. ChanOK'
  BY <1>1, <1>2, <1>4, <1>6, ChanOldLive DEF TameInv, ChanOK, OldOf
<1>12. RegOnce'
  <2>1. \A d \in Range(registerChan) : d \in Client
    BY LiveOK DEF Base, RegChanHolds, Range
  <2> QED
    BY <1>2, <1>5, <2>1 DEF TameInv, RegOnce
<1>13. TableUser' /\ SnapOK'
  BY <1>2 DEF TameInv, TableUser, SnapOK, UserID
<1>14. \A d \in Live : Steady(d)
  BY <1>4, <1>6 DEF Steady, Counts, Shown
<1> QED
  BY <1>9, <1>10, <1>11, <1>12, <1>13, <1>14 DEF TameInv

LEMMA UnregisterTame ==
    ASSUME Base, TameInv, UnregisterClient
    PROVE  TameInv' /\ \A d \in Live : Steady(d)
<1>0. PICK c : c = Head(unregisterChan)
  OBVIOUS
<1>1. /\ c \in Live /\ c \in Client
      /\ Range(unregisterChan) = Range(unregisterChan') \cup {c}
  BY <1>0, UnregisterHead, RangeTail, LiveOK DEF Base, UnChanHolds, UnregisterClient
<1>2. /\ lpc = "idle" /\ lc' = c /\ lpc' = "unLoad"
      /\ UNCHANGED <<hs, rd, sock, conn, table, registerChan, kickHandlerChan, lold, lcur, lsnap>>
  BY <1>0 DEF UnregisterClient, connVars, objVars, mapVars
<1>3. Live' = Live
  BY <1>2 DEF Live
<1>4. \A d \in Live : /\ IsUp(d)' <=> IsUp(d)
                      /\ IsOpen(d)' <=> IsOpen(d)
                      /\ InTable(d)' <=> InTable(d)
                      /\ UserID(d)' = UserID(d) /\ PlatformID(d)' = PlatformID(d)
  BY <1>2 DEF IsUp, IsOpen, InTable, UserID, PlatformID
<1>5. \A d \in Live : (Waiting(d)' <=> Waiting(d)) /\ (Closing(d)' <=> Closing(d))
  BY <1>1, <1>2 DEF Waiting, Closing, InUn, RegPc
<1>6. lold = {} /\ ~Kicking /\ ~Kicking'
  BY <1>2 DEF TameInv, OldOK, Kicking
<1>7. AllPlaced'
  BY <1>2, <1>3, <1>4, <1>5, <1>6 DEF TameInv, AllPlaced, Placed
<1>8. OldOK'
  BY <1>2, <1>6 DEF OldOK
<1>9. ChanOK'
  BY <1>2, <1>4, <1>5, ChanOldLive DEF TameInv, ChanOK, OldOf
<1>10. RegOnce' /\ TableUser' /\ SnapOK'
  BY <1>2 DEF TameInv, RegOnce, TableUser, SnapOK, UserID, RegPc
<1>11. \A d \in Live : Steady(d)
  BY <1>4, <1>5 DEF Steady, Counts, Shown
<1> QED
  BY <1>7, <1>8, <1>9, <1>10, <1>11 DEF TameInv

LEMMA RemoteTame ==
    ASSUME Base, TameInv, NEW r \in Remote, MultiTerminalLoginCheck(r)
    PROVE  TameInv' /\ \A d \in Live : Steady(d)
<1>1. /\ UNCHANGED <<hs, rd, sock, conn, table, registerChan, unregisterChan, lpc, lc, lold, lcur, lsnap>>
      /\ Live' = Live
  BY DEF MultiTerminalLoginCheck, Live, connVars, objVars, mapVars, loopVars
<1>2. PICK x : x = [old |-> Get(r.user, r.platform), login |-> r]
  OBVIOUS
<1>3. r.user \in User /\ x \in Held
  BY <1>2, GetLive, GatewayAssumption DEF Held
<1>4. Range(kickHandlerChan') \subseteq Range(kickHandlerChan) \cup {x}
  BY <1>2, <1>3, RangeAppend DEF Base, KickChanHolds, MultiTerminalLoginCheck
<1>5. OldOf(x)
  <2>1. ASSUME NEW c \in x.old
        PROVE  /\ UserID(c) = r.user /\ PlatformID(c) = r.platform /\ IsUp(c) /\ ~Waiting(c)
    <3>1. c \in table[r.user] /\ PlatformID(c) = r.platform
      BY <1>2 DEF Get
    <3>2. c \in Live /\ InTable(c) /\ UserID(c) = r.user
      BY <1>3, <3>1, InTableIs DEF TameInv
    <3> QED
      BY <3>1, <3>2 DEF TameInv, AllPlaced, Placed
  <2> QED
    BY <1>2, <2>1 DEF OldOf
<1>6. \A d : /\ IsUp(d)' <=> IsUp(d)
             /\ Waiting(d)' <=> Waiting(d)
             /\ UserID(d)' = UserID(d) /\ PlatformID(d)' = PlatformID(d)
  BY <1>1 DEF IsUp, Waiting, UserID, PlatformID
<1>7. ChanOK'
  BY <1>4, <1>5, <1>6 DEF TameInv, ChanOK, OldOf
<1>8. AllPlaced'
  BY <1>1, <1>6 DEF TameInv, AllPlaced, Placed, IsOpen, InTable, Closing, InUn, Kicking
<1>9. OldOK'
  BY <1>1, <1>6, WorkFrame DEF TameInv, OldOK, InTable, Kicking
<1>10. RegOnce' /\ TableUser' /\ SnapOK'
  BY <1>1, <1>6, WorkFrame DEF TameInv, RegOnce, TableUser, SnapOK
<1>11. \A d \in Live : Steady(d)
  BY <1>1, <1>6 DEF Steady, Counts, Shown, IsOpen, InTable, Closing, InUn
<1> QED
  BY <1>7, <1>8, <1>9, <1>10, <1>11 DEF TameInv

\* A store of the event loop replaces one user's entries.
LEMMA StoreFrame ==
    ASSUME Base, TableUser, NEW u \in User, NEW cs \in SUBSET Live,
           table' = [table EXCEPT ![u] = cs], UNCHANGED conn,
           \A d \in cs : UserID(d) = u
    PROVE  /\ table'[u] = cs /\ \A v \in User : v # u => table'[v] = table[v]
           /\ TableUser'
           /\ \A d \in Live : InTable(d)' <=> IF UserID(d) = u THEN d \in cs ELSE InTable(d)
<1>1. table'[u] = cs /\ \A v \in User : v # u => table'[v] = table[v]
  BY DEF Base, TableHolds
<1>2. \A d \in Live : UserID(d)' = UserID(d) /\ UserID(d) \in User
  BY FieldsOK DEF UserID
<1>3. TableUser'
  BY <1>1, <1>2 DEF Base, TableHolds, TableUser
<1> QED
  BY <1>1, <1>2, <1>3 DEF InTable

LEMMA StoreDeletedTame ==
    ASSUME Base, TameInv, StoreDeleted
    PROVE  /\ TameInv'
           /\ \A d \in Live : /\ Counts(d)' <=> Counts(d)
                              /\ Shown(d)' => Shown(d)
                              /\ InTable(d)' <=> InTable(d) /\ d \notin lold
<1>1. /\ lpc = "delStore" /\ lpc' = "kick" /\ lsnap = table[WorkUser] /\ WorkUser \in User
      /\ UNCHANGED <<hs, rd, sock, conn, registerChan, unregisterChan, kickHandlerChan, lc, lold, lcur, lsnap>>
  BY WorkOK DEF StoreDeleted, TameInv, SnapOK, connVars, objVars, chanVars
<1>2. Live' = Live
  BY <1>1 DEF Live
<1>3. lsnap \subseteq Live /\ lold \subseteq Live /\ Without(lsnap, lold) = lsnap \ lold
  BY WithoutIs DEF Base, LoopHolds
<1>4. /\ TableUser'
      /\ \A d \in Live : InTable(d)' <=> InTable(d) /\ d \notin lold
  <2>1. \A d \in Live : UserID(d)' = UserID(d)
    BY <1>1 DEF UserID
  <2>2. \A d \in lold : UserID(d) = WorkUser
    BY DEF TameInv, OldOK
  <2>3. CASE lsnap = {}
    BY <1>1, <2>1, <2>2, <2>3 DEF TameInv, TableUser, InTable, StoreDeleted, UserID
  <2>4. CASE lsnap # {}
    <3>1. table' = [table EXCEPT ![WorkUser] = lsnap \ lold]
      BY <1>3, <2>4 DEF StoreDeleted
    <3>2. lsnap \ lold \in SUBSET Live /\ \A d \in lsnap \ lold : UserID(d) = WorkUser
      BY <1>1, <1>3 DEF TameInv, TableUser
    <3>3. /\ TableUser'
          /\ \A d \in Live : InTable(d)' <=> IF UserID(d) = WorkUser THEN d \in lsnap \ lold ELSE InTable(d)
      BY <1>1, <3>1, <3>2, StoreFrame DEF TameInv
    <3> QED
      BY <1>1, <2>2, <3>3 DEF InTable
  <2> QED
    BY <2>3, <2>4
<1>5. \A d \in Live : /\ IsUp(d)' <=> IsUp(d)
                      /\ IsOpen(d)' <=> IsOpen(d)
                      /\ Waiting(d)' <=> Waiting(d)
                      /\ Closing(d)' <=> Closing(d)
                      /\ UserID(d)' = UserID(d) /\ PlatformID(d)' = PlatformID(d)
  BY <1>1 DEF IsUp, IsOpen, Waiting, Closing, InUn, RegPc, UserID, PlatformID
<1>6. ~Kicking /\ Kicking'
  BY <1>1 DEF Kicking
<1>7. AllPlaced'
  BY <1>1, <1>2, <1>4, <1>5, <1>6 DEF TameInv, AllPlaced, Placed
<1>8. OldOK'
  BY <1>1, <1>3, <1>4, <1>5, WorkFrame DEF TameInv, OldOK
<1>9. ChanOK'
  BY <1>1, <1>5, ChanOldLive DEF TameInv, ChanOK, OldOf
<1>10. RegOnce' /\ SnapOK'
  BY <1>1 DEF TameInv, RegOnce, SnapOK, RegPc
<1> QED
  BY <1>4, <1>5, <1>7, <1>8, <1>9, <1>10 DEF TameInv, Counts, Shown

LEMMA StoreNewTame ==
    ASSUME Base, TameInv, StoreNew
    PROVE  /\ TameInv' /\ lc \in Live /\ UserID(lc) = WorkUser
           /\ \A d \in Live : /\ d = lc => Counts(d)' /\ ~Counts(d)
                              /\ d # lc => (Counts(d)' <=> Counts(d)) /\ (Shown(d)' => Shown(d))
                              /\ InTable(d)' <=> InTable(d) \/ d = lc
<1>1. /\ lpc = "setStore" /\ lpc' = "online" /\ lsnap = table[WorkUser] /\ WorkUser \in User
      /\ table' = [table EXCEPT ![WorkUser] = lsnap \cup {lc}]
      /\ UNCHANGED <<hs, rd, sock, conn, registerChan, unregisterChan, kickHandlerChan, lc, lold, lcur, lsnap>>
  BY WorkOK DEF StoreNew, With, TameInv, SnapOK, connVars, objVars, chanVars
<1>2. Live' = Live
  BY <1>1 DEF Live
<1>3. lsnap \subseteq Live /\ lc \in Live /\ lc \in Client /\ UserID(lc) = WorkUser
  BY <1>1, LiveOK DEF Base, LoopHolds, OwnPc, WorkUser
<1>4. /\ TableUser'
      /\ \A d \in Live : InTable(d)' <=> InTable(d) \/ d = lc
  <2>1. lsnap \cup {lc} \in SUBSET Live /\ \A d \in lsnap \cup {lc} : UserID(d) = WorkUser
    BY <1>1, <1>3 DEF TameInv, TableUser
  <2>2. /\ TableUser'
        /\ \A d \in Live : InTable(d)' <=> IF UserID(d) = WorkUser THEN d \in lsnap \cup {lc} ELSE InTable(d)
    BY <1>1, <2>1, StoreFrame DEF TameInv
  <2> QED
    BY <1>1, <1>3, <2>2 DEF InTable
<1>5. Waiting(lc) /\ ~Waiting(lc)' /\ lold = {} /\ ~Kicking
  BY <1>1 DEF Waiting, RegPc, TameInv, RegOnce, OldOK, Kicking
<1>6. \A d \in Live : /\ IsUp(d)' <=> IsUp(d)
                      /\ IsOpen(d)' <=> IsOpen(d)
                      /\ Waiting(d)' <=> Waiting(d) /\ d # lc
                      /\ Closing(d)' <=> Closing(d)
                      /\ UserID(d)' = UserID(d) /\ PlatformID(d)' = PlatformID(d)
  BY <1>1, <1>5 DEF IsUp, IsOpen, Waiting, Closing, InUn, RegPc, UserID, PlatformID
<1>7. AllPlaced'
  BY <1>1, <1>2, <1>4, <1>5, <1>6 DEF TameInv, AllPlaced, Placed
<1>8. OldOK'
  BY <1>1, <1>5 DEF OldOK, Kicking
<1>9. ChanOK'
  BY <1>1, <1>6, ChanOldLive DEF TameInv, ChanOK, OldOf
<1>10. RegOnce' /\ SnapOK'
  BY <1>1 DEF TameInv, RegOnce, SnapOK, RegPc
<1>11. \A d \in Live : d = lc => Counts(d)' /\ ~Counts(d)
  BY <1>5, <1>6 DEF Counts, TameInv, AllPlaced, Placed
<1>12. \A d \in Live : d # lc => (Counts(d)' <=> Counts(d)) /\ (Shown(d)' => Shown(d))
  BY <1>6 DEF Counts, Shown
<1> QED
  BY <1>3, <1>4, <1>7, <1>8, <1>9, <1>10, <1>11, <1>12 DEF TameInv

LEMMA StoreRemovedTame ==
    ASSUME Base, TameInv, StoreRemoved
    PROVE  /\ TameInv' /\ lc \in Live /\ UserID(lc) = WorkUser
           /\ \A d \in Live : /\ d = lc => Counts(d) /\ (Counts(d)' => InUn(d) \/ rd[conn[d]] = "send")
                              /\ d # lc => (Counts(d)' <=> Counts(d))
                              /\ Shown(d)' => Shown(d)
                              /\ InTable(d)' <=> InTable(d) /\ d # lc
<1>1. /\ lpc = "unStore" /\ lpc' = "offline" /\ lsnap = table[WorkUser] /\ WorkUser \in User
      /\ UNCHANGED <<hs, rd, sock, conn, registerChan, unregisterChan, kickHandlerChan, lc, lold, lcur, lsnap>>
  BY WorkOK DEF StoreRemoved, TameInv, SnapOK, connVars, objVars, chanVars
<1>2. Live' = Live
  BY <1>1 DEF Live
<1>3. lsnap \subseteq Live /\ lc \in Live /\ lc \in Client /\ UserID(lc) = WorkUser
  BY <1>1, LiveOK DEF Base, LoopHolds, OwnPc, WorkUser
<1>4. Without(lsnap, {lc}) = lsnap \ {lc}
  BY <1>3, WithoutIs
<1>5. /\ TableUser'
      /\ \A d \in Live : InTable(d)' <=> InTable(d) /\ d # lc
  <2>1. CASE lsnap = {}
    BY <1>1, <1>3, <2>1 DEF TameInv, TableUser, InTable, StoreRemoved, UserID
  <2>2. CASE lsnap # {}
    <3>1. table' = [table EXCEPT ![WorkUser] = lsnap \ {lc}]
      BY <1>4, <2>2 DEF StoreRemoved
    <3>2. lsnap \ {lc} \in SUBSET Live /\ \A d \in lsnap \ {lc} : UserID(d) = WorkUser
      BY <1>1, <1>3 DEF TameInv, TableUser
    <3>3. /\ TableUser'
          /\ \A d \in Live : InTable(d)' <=> IF UserID(d) = WorkUser THEN d \in lsnap \ {lc} ELSE InTable(d)
      BY <1>1, <3>1, <3>2, StoreFrame DEF TameInv
    <3> QED
      BY <1>1, <1>3, <3>3 DEF InTable
  <2> QED
    BY <2>1, <2>2
<1>6. Closing(lc) /\ IsUp(lc) /\ ~IsOpen(lc) /\ lold = {} /\ ~Kicking /\ ~Kicking'
  BY <1>1, <1>3 DEF Closing, TameInv, AllPlaced, Placed, OldOK, Kicking
<1>7. \A d \in Live : /\ IsUp(d)' <=> IsUp(d)
                      /\ IsOpen(d)' <=> IsOpen(d)
                      /\ Waiting(d)' <=> Waiting(d)
                      /\ Closing(d)' => Closing(d)
                      /\ d # lc => (Closing(d)' <=> Closing(d))
                      /\ UserID(d)' = UserID(d) /\ PlatformID(d)' = PlatformID(d)
  BY <1>1 DEF IsUp, IsOpen, Waiting, Closing, InUn, RegPc, UserID, PlatformID
<1>8. AllPlaced'
  BY <1>1, <1>2, <1>5, <1>6, <1>7 DEF TameInv, AllPlaced, Placed
<1>9. OldOK'
  BY <1>1, <1>6 DEF OldOK
<1>10. ChanOK'
  BY <1>1, <1>7, ChanOldLive DEF TameInv, ChanOK, OldOf
<1>11. RegOnce' /\ SnapOK'
  BY <1>1 DEF TameInv, RegOnce, SnapOK, RegPc
<1>12. \A d \in Live : d = lc => Counts(d) /\ ~IsOpen(d)'
  BY <1>6, <1>7 DEF Counts, TameInv, AllPlaced, Placed
<1>13. \A d \in Live : d = lc => (Counts(d)' => InUn(d) \/ rd[conn[d]] = "send")
  BY <1>1, <1>12 DEF Counts, Closing, InUn
<1>14. \A d \in Live : (d # lc => (Counts(d)' <=> Counts(d))) /\ (Shown(d)' => Shown(d))
  BY <1>7 DEF Counts, Shown
<1> QED
  BY <1>3, <1>5, <1>8, <1>9, <1>10, <1>11, <1>12, <1>13, <1>14 DEF TameInv

LEMMA TameStep ==
    ASSUME Base, OwnObjects, Tame, TameInv, [Next]_vars
    PROVE  TameInv'
<1>1. OwnInv
  BY TameTrusted DEF OwnObjects
<1>2. ASSUME NEW n \in Conn, ParseWSArgs(n) \/ Handler(n) \/ Reader(n)
      PROVE  TameInv'
  BY <1>1, <1>2, ParseTame, ResetTame, AcceptTame, ReadTame, ReaderMarkTame, ReaderSendTame
  DEF Handler, Reader, ReaderCloses
<1>3. CASE Run
  BY <1>3, RegisterTame, KickHandlerTame, LoopTame, StoreDeletedTame, LoopMarkTame, LoopSendTame,
      StoreNewTame, UnregisterTame, StoreRemovedTame DEF Run
<1>4. CASE UNCHANGED vars
  <2>1. /\ UNCHANGED <<conn, table, registerChan, unregisterChan, kickHandlerChan, lpc, lc, lold, lcur, lsnap>>
        /\ UNCHANGED <<hs, rd, sock>>
    BY <1>4 DEF vars, connVars, objVars, mapVars, chanVars, loopVars
  <2>2. \A c \in Live : Waiting(c) => rd[conn[c]] \in {"read", "got", "handle"}
    BY DEF TameInv, AllPlaced, Placed
  <2> QED
    BY <2>1, <2>2, TameFrame DEF IsUp, IsOpen
<1> QED
  BY <1>2, <1>3, <1>4, RemoteTame DEF Next, Tame

LEMMA InitTame == Init => TameInv
<1> SUFFICES ASSUME Init PROVE TameInv
  OBVIOUS
<1>1. Live = {}
  BY GatewayAssumption DEF Init, Live
<1>2. Range(kickHandlerChan) = {} /\ Range(registerChan) = {}
  BY DEF Init, Range
<1>3. RegOnce /\ SnapOK /\ TableUser
  BY DEF Init, RegOnce, SnapOK, TableUser, IsInjective, RegPc
<1>4. OldOK /\ ChanOK
  BY <1>2 DEF Init, OldOK, ChanOK, Kicking
<1> QED
  BY <1>1, <1>3, <1>4 DEF TameInv, AllPlaced

\* The inductive invariant behind the table and the counters: every object is
\* waiting to be registered, in the table, about to be kicked, or on its way
\* to being unregistered.
THEOREM TameHolds ==
    ASSUME Tame
    PROVE  Spec => []TameInv
<1>1. Base /\ OwnObjects /\ TameInv /\ [Next]_vars => TameInv'
  BY TameStep
<1> QED
  BY <1>1, InitTame, BaseHolds, OwnObjectsHold, PTL DEF Spec

\* What is under way when everything has settled.
LEMMA SettledNone ==
    ASSUME Base, Settled
    PROVE  /\ \A c : ~Waiting(c) /\ ~InUn(c)
           /\ \A c \in Live : ~Closing(c)
           /\ ~Kicking
           /\ \A n \in Conn : sock[n] = "open" => hs[n] = "up" /\ rd[n] # "none"
<1>1. Range(registerChan) = {} /\ Range(unregisterChan) = {}
  BY DEF Settled, Range
<1>2. \A n \in Conn : hs[n] \in {"new", "refused", "up"} /\ rd[n] # "send"
  BY DEF Settled
<1>3. \A n \in Conn : sock[n] = "open" => hs[n] = "up" /\ rd[n] # "none"
  BY <1>2 DEF Base, SockOK, ReadersUp
<1> QED
  BY <1>1, <1>2, <1>3, LiveOK DEF Settled, Waiting, Closing, InUn, Kicking, RegPc

LEMMA SettledOpen ==
    ASSUME Base, OwnObjects, Tame, TameInv, Settled, NEW n \in Open
    PROVE  /\ n \in Conn /\ client[n] \in Live /\ conn[client[n]] = n
           /\ InTable(client[n]) /\ IsUp(client[n])
<1>1. n \in Conn /\ sock[n] = "open" /\ hs[n] = "up" /\ rd[n] # "none"
  BY SettledNone DEF Open
<1>2. rd[n] # "done" /\ Active(n)
  BY <1>1, TameTrusted DEF OwnObjects, DoneClosed, Active
<1>3. client[n] \in Live /\ conn[client[n]] = n
  BY <1>1, <1>2, TameTrusted DEF Base, HandlersHold, HasObj, OwnObjects, OwnInv, Own
<1>4. IsUp(client[n]) /\ IsOpen(client[n])
  BY <1>1, <1>3 DEF IsUp, IsOpen
<1>5. InTable(client[n])
  BY <1>3, <1>4, SettledNone DEF TameInv, AllPlaced, Placed
<1> QED
  BY <1>1, <1>3, <1>4, <1>5

\* When nothing is under way the table holds the open connections of each
\* user, also while objects are reused if only readers close, and also while
\* the event loop kicks if objects are not reused.
THEOREM TableHoldsOpenHolds ==
    ASSUME Tame
    PROVE  Spec => []TableHoldsOpen
<1>1. ASSUME Base, OwnObjects, TameInv, Settled, NEW u \in User
      PROVE  { conn[c] : c \in table[u] } = { n \in Open : UserOf[n] = u }
  <2>1. ASSUME NEW c \in table[u]
        PROVE  conn[c] \in Open /\ UserOf[conn[c]] = u
    <3>1. c \in Live /\ InTable(c) /\ UserID(c) = u
      BY <1>1, InTableIs DEF TameInv
    <3>2. IsOpen(c)
      BY <1>1, <3>1, SettledNone DEF TameInv, AllPlaced, Placed
    <3> QED
      BY <3>1, <3>2 DEF Open, IsOpen, Live, UserID
  <2>2. ASSUME NEW n \in Open, UserOf[n] = u
        PROVE  \E c \in table[u] : conn[c] = n
    BY <1>1, <2>2, SettledOpen DEF InTable, UserID
  <2> QED
    BY <2>1, <2>2
<1>2. Base /\ OwnObjects /\ TameInv => TableHoldsOpen
  BY <1>1 DEF TableHoldsOpen
<1> QED
  BY <1>2, BaseHolds, OwnObjectsHold, TameHolds, PTL

-----------------------------------------------------------------------------
(* AllLoginButSameTermKick.                                                 *)

OfWork(c) == InTable(c) /\ UserID(c) = WorkUser /\ PlatformID(c) = WorkPlatform
Alike(c, d) == UserID(c) = UserID(d) /\ PlatformID(c) = PlatformID(d)

OnePer   == \A c, d \in Live : InTable(c) /\ InTable(d) /\ Alike(c, d) => c = d
OldListed == lpc \in {"delLoad", "delStore"} /\ lc \in Client => \A c \in Live : OfWork(c) => c \in lold
OldGone  == /\ lpc \in {"kick", "mark", "send", "tokens", "setLoad", "setStore"} /\ lc \in Client
            => \A c \in Live : ~OfWork(c)
SameInv  == OnePer /\ OldListed /\ OldGone

\* A step that does not add to the table and begins no registration.
LEMMA SameFrame ==
    ASSUME SameInv,
           \A d \in Live' : InTable(d)' => d \in Live /\ InTable(d) /\ conn'[d] = conn[d],
           lpc' \in RegPc /\ lc' \in Client => lc' = lc /\ conn'[lc] = conn[lc] /\ lpc \in RegPc,
           lpc' \in {"delLoad", "delStore"} => lpc \in {"delLoad", "delStore"} /\ lold' = lold,
           lpc \in {"delLoad", "delStore"} /\ lpc' \in RegPc \ {"delLoad", "delStore"} =>
               \A d \in Live : InTable(d)' => d \notin lold
    PROVE  SameInv'
<1>2. \A d \in Live' : InTable(d)' => UserID(d)' = UserID(d) /\ PlatformID(d)' = PlatformID(d)
  BY DEF UserID, PlatformID
<1>3. OnePer'
  BY <1>2 DEF SameInv, OnePer, Alike
<1>4. lpc' \in RegPc /\ lc' \in Client =>
          lc' = lc /\ lpc \in RegPc /\ WorkUser' = WorkUser /\ WorkPlatform' = WorkPlatform
  BY WorkFrame
<1>5. lpc' \in RegPc /\ lc' \in Client => \A d \in Live' : OfWork(d)' => d \in Live /\ OfWork(d)
  BY <1>2, <1>4 DEF OfWork
<1>6. OldListed'
  BY <1>4, <1>5 DEF SameInv, OldListed, RegPc
<1>7. OldGone'
  <2> SUFFICES ASSUME lpc' \in {"kick", "mark", "send", "tokens", "setLoad", "setStore"}, lc' \in Client,
                      NEW d \in Live', OfWork(d)'
               PROVE  FALSE
    BY DEF OldGone
  <2>1. lpc' \in RegPc \ {"delLoad", "delStore"} /\ lc = lc' /\ lpc \in RegPc
    BY <1>4 DEF RegPc
  <2>2. d \in Live /\ OfWork(d) /\ InTable(d)'
    BY <1>5, <2>1 DEF OfWork
  <2>3. CASE lpc \in {"delLoad", "delStore"}
    BY <2>1, <2>2, <2>3 DEF SameInv, OldListed
  <2>4. CASE lpc \notin {"delLoad", "delStore"}
    BY <2>1, <2>2, <2>4 DEF SameInv, OldGone, RegPc
  <2> QED
    BY <2>3, <2>4
<1> QED
  BY <1>3, <1>6, <1>7 DEF SameInv

LEMMA SameStep ==
    ASSUME Base, OwnObjects, Tame, TameInv, KickPolicy = "sameTerminal", SameInv, [Next]_vars
    PROVE  SameInv'
<1>1. OwnInv
  BY TameTrusted DEF OwnObjects
<1>2. ASSUME NEW n \in Conn, NEW c \in Client, ResetClient(n, c)
      PROVE  SameInv'
  <2>1. /\ \A d \in Live : d # c => (InTable(d)' <=> InTable(d)) /\ conn'[d] = conn[d]
        /\ Live' = Live \cup {c} /\ ~InTable(c)'
    BY <1>2, ResetTame DEF Steady
  <2>2. UNCHANGED <<lpc, lc, lold>> /\ (lpc # "idle" => lc # c)
    BY <1>2, AvailableNowhere DEF ResetClient, loopVars
  <2>3. \A d \in Client : d # c => conn'[d] = conn[d]
    BY <1>2 DEF Base, TypeObj, ResetClient
  <2>4. lpc' \in RegPc /\ lc' \in Client => lc' = lc /\ conn'[lc] = conn[lc] /\ lpc \in RegPc
    BY <2>2, <2>3 DEF RegPc
  <2>5. \A d \in Live' : InTable(d)' => d \in Live /\ InTable(d) /\ conn'[d] = conn[d]
    BY <2>1
  <2>6. /\ lpc' \in {"delLoad", "delStore"} => lpc \in {"delLoad", "delStore"} /\ lold' = lold
        /\ ~(lpc \in {"delLoad", "delStore"} /\ lpc' \in RegPc \ {"delLoad", "delStore"})
    BY <2>2
  <2> QED
    BY <2>4, <2>5, <2>6, SameFrame
<1>3. ASSUME UNCHANGED <<conn, lpc, lc, lold>>, \A d \in Live : InTable(d)' <=> InTable(d)
      PROVE  SameInv'
  <2>1. \A d \in Live' : InTable(d)' => d \in Live /\ InTable(d) /\ conn'[d] = conn[d]
    BY <1>3 DEF Live
  <2>2. /\ lpc' \in RegPc /\ lc' \in Client => lc' = lc /\ conn'[lc] = conn[lc] /\ lpc \in RegPc
        /\ lpc' \in {"delLoad", "delStore"} => lpc \in {"delLoad", "delStore"} /\ lold' = lold
        /\ ~(lpc \in {"delLoad", "delStore"} /\ lpc' \in RegPc \ {"delLoad", "delStore"})
    BY <1>3
  <2> QED
    BY <2>1, <2>2, SameFrame
<1>4. ASSUME NEW n \in Conn, ParseWSArgs(n) \/ Accept(n) \/ Reader(n)
      PROVE  SameInv'
  <2>1. UNCHANGED <<conn, lpc, lc, lold>>
    BY <1>4 DEF ParseWSArgs, Accept, Reader, ReaderCloses, ReadRequest, CheckClosed, HandleMessage,
        ReadError, ReaderCloseCheck, ReaderCloseMark, ReaderCloseSend, objVars, loopVars
  <2>2. \A d \in Live : InTable(d)' <=> InTable(d)
    BY <1>1, <1>4, ParseTame, AcceptTame, ReadTame, ReaderMarkTame, ReaderSendTame
    DEF Steady, Reader, ReaderCloses
  <2> QED
    BY <1>3, <2>1, <2>2
<1>5. CASE RegisterClient
  <2>0. PICK c : c = Head(registerChan)
    OBVIOUS
  <2>1. c \in Live /\ c \in Client /\ lc' = c /\ lpc' \in {"delLoad", "setLoad"} /\ UNCHANGED <<conn, table>>
    BY <1>5, <2>0, RegisterHead, LiveOK DEF RegisterClient, objVars, mapVars
  <2>2. /\ lpc' = "delLoad" => lold' = Get(UserID(c), PlatformID(c))
        /\ lpc' = "setLoad" => Get(UserID(c), PlatformID(c)) = {}
    BY <1>5, <2>0 DEF RegisterClient, Kicks
  <2>3. /\ WorkUser' = UserID(c) /\ WorkPlatform' = PlatformID(c)
        /\ \A d : UserID(d)' = UserID(d) /\ PlatformID(d)' = PlatformID(d) /\ (InTable(d)' <=> InTable(d))
    BY <2>1 DEF WorkUser, WorkPlatform, UserID, PlatformID, InTable
  <2>4. \A d \in Live : OfWork(d)' => d \in Get(UserID(c), PlatformID(c))
    BY <2>3 DEF OfWork, InTable, Get
  <2>5. Live' = Live
    BY <2>1 DEF Live
  <2> QED
    BY <2>1, <2>2, <2>3, <2>4, <2>5 DEF SameInv, OnePer, OldListed, OldGone, Alike
<1>6. ASSUME lpc = "idle", lc' \notin Client \/ lpc' \notin RegPc, UNCHANGED conn,
             lpc' = "unLoad" \/ lc' \in Remote \/ lpc' = "idle",
             \A d \in Live : InTable(d)' <=> InTable(d)
      PROVE  SameInv'
  <2>1. Live' = Live /\ \A d : UserID(d)' = UserID(d) /\ PlatformID(d)' = PlatformID(d)
    BY <1>6 DEF Live, UserID, PlatformID
  <2>2. OnePer'
    BY <1>6, <2>1 DEF SameInv, OnePer, Alike
  <2> QED
    BY <1>6, <2>2 DEF SameInv, OldListed, OldGone, RegPc
<1>7. CASE KickHandler \/ UnregisterClient
  <2>1. \A d \in Live : InTable(d)' <=> InTable(d)
    BY <1>7, KickHandlerTame, UnregisterTame DEF Steady
  <2>2. lpc = "idle" /\ UNCHANGED conn
    BY <1>7 DEF KickHandler, UnregisterClient, objVars
  <2>3. CASE UnregisterClient
    BY <1>6, <2>1, <2>2, <2>3 DEF UnregisterClient, RegPc
  <2>4. CASE KickHandler
    <3>1. lpc' = "idle" \/ lc' \in Remote
      BY <2>4, KickHead DEF KickHandler
    <3> QED
      BY <1>6, <2>1, <2>2, <3>1, GatewayAssumption DEF RegPc
  <2> QED
    BY <1>7, <2>3, <2>4
<1>8. CASE Load \/ KickOld \/ KickTokens \/ SetOnline \/ SetOffline \/ LoopCloseMark \/ LoopCloseSend
  <2>1. \A d \in Live : InTable(d)' <=> InTable(d)
    BY <1>8, LoopTame, LoopMarkTame, LoopSendTame DEF Steady
  <2>2. UNCHANGED conn /\ lc' = lc /\ Live' = Live
    BY <1>8 DEF Load, KickOld, KickTokens, SetOnline, SetOffline, LoopCloseMark, LoopCloseSend, Live,
        objVars
  <2>3. /\ lpc' \in RegPc => lpc \in RegPc
        /\ lpc' \in {"delLoad", "delStore"} => lpc \in {"delLoad", "delStore"} /\ lold' = lold
        /\ lpc \in {"delLoad", "delStore"} => lpc' \in {"delLoad", "delStore"}
    BY <1>8 DEF Load, KickOld, KickTokens, SetOnline, SetOffline, LoopCloseMark, LoopCloseSend,
        AfterKick, RegPc
  <2>4. \A d \in Live' : InTable(d)' => d \in Live /\ InTable(d) /\ conn'[d] = conn[d]
    BY <2>1, <2>2
  <2>5. lpc' \in RegPc /\ lc' \in Client => lc' = lc /\ conn'[lc] = conn[lc] /\ lpc \in RegPc
    BY <2>2, <2>3
  <2> QED
    BY <2>3, <2>4, <2>5, SameFrame
<1>9. CASE StoreDeleted \/ StoreRemoved
  <2>1. \A d \in Live : (InTable(d)' => InTable(d)) /\ (StoreDeleted /\ InTable(d)' => d \notin lold)
    BY <1>9, StoreDeletedTame, StoreRemovedTame
  <2>2. /\ UNCHANGED conn /\ lc' = lc /\ Live' = Live
        /\ (lpc = "unStore" /\ lpc' = "offline") \/ (StoreDeleted /\ lpc = "delStore" /\ lpc' = "kick")
    BY <1>9 DEF StoreDeleted, StoreRemoved, Live, objVars
  <2>3. \A d \in Live' : InTable(d)' => d \in Live /\ InTable(d) /\ conn'[d] = conn[d]
    BY <2>1, <2>2
  <2>4. /\ lpc' \in RegPc /\ lc' \in Client => lc' = lc /\ conn'[lc] = conn[lc] /\ lpc \in RegPc
        /\ lpc' \in {"delLoad", "delStore"} => lpc \in {"delLoad", "delStore"} /\ lold' = lold
    BY <2>2 DEF RegPc
  <2>5. lpc \in {"delLoad", "delStore"} /\ lpc' \in RegPc \ {"delLoad", "delStore"} =>
            \A d \in Live : InTable(d)' => d \notin lold
    BY <2>1, <2>2
  <2> QED
    BY <2>3, <2>4, <2>5, SameFrame
<1>10. CASE StoreNew
  <2>1. /\ lc \in Live /\ lc \in Client /\ UserID(lc) = WorkUser
        /\ \A d \in Live : InTable(d)' <=> InTable(d) \/ d = lc
    BY <1>10, StoreNewTame, LiveOK
  <2>2. lpc = "setStore" /\ lpc' = "online" /\ UNCHANGED conn /\ Live' = Live
    BY <1>10 DEF StoreNew, Live, objVars
  <2>3. \A d : UserID(d)' = UserID(d) /\ PlatformID(d)' = PlatformID(d)
    BY <2>2 DEF UserID, PlatformID
  <2>4. \A d \in Live : ~(InTable(d) /\ Alike(d, lc))
    BY <2>1, <2>2 DEF SameInv, OldGone, OfWork, Alike, WorkPlatform
  <2>5. OnePer'
    BY <2>1, <2>2, <2>3, <2>4 DEF SameInv, OnePer, Alike
  <2> QED
    BY <2>2, <2>5 DEF SameInv, OldListed, OldGone
<1>11. ASSUME NEW r \in Remote, MultiTerminalLoginCheck(r)
       PROVE  SameInv'
  BY <1>3, <1>11, RemoteTame DEF MultiTerminalLoginCheck, Steady, objVars, loopVars
<1>12. CASE UNCHANGED vars
  BY <1>3, <1>12 DEF vars, objVars, mapVars, loopVars, InTable, UserID
<1> QED
  BY <1>2, <1>4, <1>5, <1>7, <1>8, <1>9, <1>10, <1>11, <1>12 DEF Next, Run, Handler, Tame

LEMMA SameHolds ==
    ASSUME Tame, KickPolicy = "sameTerminal"
    PROVE  Spec => []SameInv
<1>1. Init => SameInv
  <2> SUFFICES ASSUME Init PROVE SameInv
    OBVIOUS
  <2>1. Live = {}
    BY GatewayAssumption DEF Init, Live
  <2> QED
    BY <2>1 DEF SameInv, OnePer, OldListed, OldGone
<1>2. Base /\ OwnObjects /\ TameInv /\ SameInv /\ [Next]_vars => SameInv'
  BY SameStep
<1> QED
  BY <1>1, <1>2, BaseHolds, OwnObjectsHold, TameHolds, PTL DEF Spec

\* Under AllLoginButSameTermKick a user has at most one open connection on a
\* platform when nothing is under way, whatever logs in here or at other
\* nodes and whoever hangs up meanwhile.
THEOREM SameTerminalExclusiveHolds ==
    ASSUME Tame
    PROVE  Spec => []SameTerminalExclusive
<1>1. CASE KickPolicy = "sameTerminal"
  <2>1. ASSUME Base, OwnObjects, TameInv, SameInv, Settled, NEW n \in Open, NEW k \in Open,
               UserOf[n] = UserOf[k], PlatformOf[n] = PlatformOf[k]
        PROVE  n = k
    <3>1. /\ client[n] \in Live /\ conn[client[n]] = n /\ InTable(client[n])
          /\ client[k] \in Live /\ conn[client[k]] = k /\ InTable(client[k])
      BY <2>1, SettledOpen
    <3>2. Alike(client[n], client[k])
      BY <2>1, <3>1 DEF Alike, UserID, PlatformID
    <3>3. client[n] = client[k]
      BY <2>1, <3>1, <3>2 DEF SameInv, OnePer
    <3> QED
      BY <3>1, <3>3
  <2>2. Base /\ OwnObjects /\ TameInv /\ SameInv => SameTerminalExclusive
    BY <2>1 DEF SameTerminalExclusive
  <2> QED
    BY <1>1, <2>2, BaseHolds, OwnObjectsHold, TameHolds, SameHolds, PTL
<1>2. CASE KickPolicy # "sameTerminal"
  <2>1. SameTerminalExclusive
    BY <1>2 DEF SameTerminalExclusive
  <2> QED
    BY <2>1, PTL
<1> QED
  BY <1>1, <1>2

-----------------------------------------------------------------------------
(* Every connection is unregistered once, when only readers close or only   *)
(* the event loop does.                                                     *)

LoopOnly == Kick = {} /\ ~Reuse /\ Quits = {}

ReadersWait == \A n \in Conn : rd[n] \notin {"mark", "send"} /\ (rd[n] = "close" => sock[n] = "closed")
MarksOpen   == lpc = "mark" => IsOpen(lcur)
Queued      == \A c \in Live : InUn(c) => /\ ~(lpc \in {"unLoad", "unStore"} /\ lc = c)
                                          /\ ~(lpc = "send" /\ lcur = c)
LoopInv == ReadersWait /\ UnOnce /\ MarksOpen /\ Queued

\* What the readers do when only the event loop closes.
LEMMA ReadersWaitStep ==
    ASSUME Base, OwnInv, LoopOnly, ReadersWait, [Next]_vars
    PROVE  ReadersWait'
<1>1. ASSUME NEW n \in Conn, ParseWSArgs(n) PROVE ReadersWait'
  <2>1. rd[n] = "none"
    BY <1>1 DEF Base, ReadersUp, ParseWSArgs
  <2> QED
    BY <1>1, <2>1 DEF Base, TypeConn, ReadersWait, ParseWSArgs
<1>2. ASSUME NEW n \in Conn, Handler(n) PROVE ReadersWait'
  BY <1>2 DEF Base, TypeConn, ReadersWait, Handler, ResetClient, Accept
<1>3. ASSUME NEW n \in Conn, Reader(n) PROVE ReadersWait'
  <2>1. rd[n] \notin {"none", "done"}
    BY <1>3 DEF Reader, ReaderCloses, ReadRequest, CheckClosed, HandleMessage, ReadError,
        ReaderCloseCheck, ReaderCloseMark, ReaderCloseSend
  <2>2. /\ client[n] \in Live /\ conn[client[n]] = n /\ on[n] = n
        /\ closed[client[n]] <=> sock[n] = "closed"
    BY <2>1, ReaderOwns DEF Base, ClosedOK
  <2>3. ~ReaderCloseMark(n) /\ ~ReaderCloseSend(n)
    BY DEF ReadersWait, ReaderCloseMark, ReaderCloseSend
  <2>4. UNCHANGED sock /\ \A m \in Conn : m # n => rd'[m] = rd[m]
    BY <1>3, <2>3 DEF Base, TypeConn, Reader, ReaderCloses, ReadRequest, CheckClosed, HandleMessage,
        ReadError, ReaderCloseCheck
  <2>5. rd'[n] \notin {"mark", "send"} /\ (rd'[n] = "close" => sock[n] = "closed")
    <3>1. CASE ReadRequest(n)
      BY <3>1 DEF Base, TypeConn, ReadRequest
    <3>2. CASE CheckClosed(n)
      BY <2>2, <3>2 DEF Base, TypeConn, CheckClosed
    <3>3. CASE HandleMessage(n)
      BY <2>2, <3>3 DEF Base, TypeConn, HandleMessage, UserID
    <3>4. CASE ReadError(n)
      BY <2>2, <3>4 DEF Base, TypeConn, ReadError, LoopOnly
    <3>5. CASE ReaderCloseCheck(n)
      BY <2>2, <3>5 DEF Base, TypeConn, ReaderCloseCheck, AlreadyClosed, ReadersWait
    <3> QED
      BY <1>3, <2>3, <3>1, <3>2, <3>3, <3>4, <3>5 DEF Reader, ReaderCloses
  <2> QED
    BY <2>4, <2>5 DEF ReadersWait
<1>4. CASE Run \/ (\E r \in Remote : MultiTerminalLoginCheck(r)) \/ (\E k \in Kick : KickRPC(k))
  <2>1. UNCHANGED rd
    BY <1>4, LoopFrame
  <2> QED
    BY <2>1, SockStays DEF ReadersWait
<1>5. CASE UNCHANGED vars
  BY <1>5 DEF ReadersWait, vars, connVars
<1> QED
  BY <1>1, <1>2, <1>3, <1>4, <1>5 DEF Next

\* The rest of LoopInv is kept by a step that leaves the event loop alone.
LEMMA LoopInvFrame ==
    ASSUME LoopInv, ReadersWait', NEW c, UNCHANGED <<unregisterChan, lpc, lc, lcur>>,
           Live' \subseteq Live \cup {c}, c \in Live' \ Live => ~InUn(c),
           lpc = "mark" => (IsOpen(lcur)' <=> IsOpen(lcur))
    PROVE  LoopInv'
BY DEF LoopInv, UnOnce, MarksOpen, Queued, InUn

LEMMA LoopInvStep ==
    ASSUME Base, OwnObjects, Tame, LoopOnly, TameInv, LoopInv, [Next]_vars
    PROVE  LoopInv'
<1>1. OwnInv
  BY TameTrusted DEF OwnObjects
<1>2. ReadersWait'
  BY <1>1, ReadersWaitStep DEF LoopInv
<1>3. ASSUME NEW n \in Conn, NEW c \in Client, ResetClient(n, c)
      PROVE  LoopInv'
  <2>1. UNCHANGED <<unregisterChan, lpc, lc, lcur, sock>> /\ Live' = Live \cup {c} /\ ~InUn(c)
    BY <1>3, ResetTame, AvailableNowhere DEF ResetClient, chanVars, loopVars, InUn
  <2>2. lpc = "mark" => lcur \in Client /\ lcur # c
    BY <1>3, AvailableNowhere, LiveOK DEF Base, LoopHolds, ResetClient
  <2>3. lpc = "mark" => (IsOpen(lcur)' <=> IsOpen(lcur))
    BY <1>3, <2>1, <2>2 DEF IsOpen, ResetClient, Base, TypeObj
  <2> QED
    BY <1>2, <2>1, <2>3, LoopInvFrame
<1>4. ASSUME NEW n \in Conn, ParseWSArgs(n) \/ Accept(n) \/ Reader(n)
      PROVE  LoopInv'
  <2>1. ~ReaderCloseMark(n) /\ ~ReaderCloseSend(n)
    BY DEF LoopInv, ReadersWait, ReaderCloseMark, ReaderCloseSend
  <2>2. UNCHANGED <<unregisterChan, lpc, lc, lcur, conn>>
    BY <1>4, <2>1 DEF ParseWSArgs, Accept, Reader, ReaderCloses, ReadRequest, CheckClosed, HandleMessage,
        ReadError, ReaderCloseCheck, objVars, chanVars, loopVars
  <2>3. \A m \in Conn : sock[m] # "none" => sock'[m] = sock[m]
    BY <1>4, <2>1 DEF Base, TypeConn, SockOK, ParseWSArgs, Accept, Reader, ReaderCloses, ReadRequest, CheckClosed,
        HandleMessage, ReadError, ReaderCloseCheck
  <2>4. lpc = "mark" => IsOpen(lcur) /\ conn[lcur] \in Conn
    BY LiveOK DEF Base, LoopHolds, LoopInv, MarksOpen
  <2>5. lpc = "mark" => (IsOpen(lcur)' <=> IsOpen(lcur))
    BY <2>2, <2>3, <2>4 DEF IsOpen
  <2>6. Live' = Live
    BY <2>2 DEF Live
  <2> QED
    BY <1>2, <2>2, <2>5, <2>6, LoopInvFrame
<1>5. CASE KickOld
  <2>1. UNCHANGED <<sock, unregisterChan, lc, conn>> /\ lpc = "kick" /\ lpc' \in {"kick", "tokens", "mark"}
    BY <1>5 DEF KickOld, connVars, chanVars, objVars
  <2>2. Live' = Live
    BY <2>1 DEF Live
  <2>3. lpc' = "mark" => lcur' \in lold /\ ~closed[lcur']
    BY <1>5 DEF KickOld, AlreadyClosed
  <2>4. lpc' = "mark" => lcur' \in Live /\ conn[lcur'] \in Conn /\ sock[conn[lcur']] # "none" /\ sock[conn[lcur']] # "closed"
    BY <2>3, LiveOK DEF Base, LoopHolds, ClosedOK, OwnersKnown, HasObj, SockOK
  <2>5. lpc' = "mark" => sock[conn[lcur']] = "open"
    BY <2>4 DEF Base, TypeConn
  <2> QED
    BY <1>2, <2>1, <2>2, <2>5 DEF LoopInv, UnOnce, MarksOpen, IsOpen, Queued, InUn
<1>6. CASE LoopCloseMark
  <2>1. lpc = "mark" /\ lpc' = "send" /\ UNCHANGED <<unregisterChan, lc, lcur, conn>>
    BY <1>6 DEF LoopCloseMark, chanVars
  <2>2. lcur \in Live /\ IsOpen(lcur)
    BY <2>1 DEF Base, LoopHolds, LoopInv, MarksOpen
  <2>3. ~InUn(lcur)
    BY <2>2 DEF TameInv, AllPlaced, Placed, Closing
  <2>4. Live' = Live
    BY <2>1 DEF Live
  <2> QED
    BY <1>2, <2>1, <2>3, <2>4 DEF LoopInv, UnOnce, MarksOpen, Queued, InUn
<1>7. CASE LoopCloseSend
  <2>1. /\ lpc = "send" /\ lpc' = "kick" /\ UNCHANGED <<lc, lcur, conn>>
        /\ unregisterChan' = Append(unregisterChan, lcur)
    BY <1>7 DEF LoopCloseSend, CloseSend
  <2>2. lcur \in Live /\ ~InUn(lcur)
    BY <2>1 DEF Base, LoopHolds, LoopInv, Queued
  <2>3. UnOnce'
    BY <2>1, <2>2, RangeAppend DEF Base, UnChanHolds, LoopInv, UnOnce, InUn
  <2> QED
    BY <1>2, <2>1, <2>3 DEF LoopInv, MarksOpen, Queued
<1>8. CASE UnregisterClient
  <2>0. PICK c : c = Head(unregisterChan)
    OBVIOUS
  <2>1. /\ lpc' = "unLoad" /\ lc' = c /\ UNCHANGED conn
        /\ unregisterChan' = Tail(unregisterChan) /\ unregisterChan # <<>>
    BY <1>8, <2>0 DEF UnregisterClient, objVars
  <2>2. UnOnce' /\ ~InUn(c)'
    BY <2>0, <2>1, RangeTail DEF Base, UnChanHolds, LoopInv, UnOnce, InUn
  <2> QED
    BY <1>2, <2>1, <2>2 DEF LoopInv, MarksOpen, Queued
<1>9. CASE RegisterClient \/ KickHandler \/ Load \/ StoreDeleted \/ KickTokens \/ StoreNew \/ SetOnline
           \/ StoreRemoved \/ SetOffline
  <2>1. /\ UNCHANGED <<unregisterChan, conn>>
        /\ lpc' # "mark" /\ lpc' # "send"
        /\ lpc' \in {"unLoad", "unStore"} => lpc \in {"unLoad", "unStore"} /\ lc' = lc
    BY <1>9 DEF RegisterClient, KickHandler, Load, StoreDeleted, KickTokens, StoreNew, SetOnline,
        StoreRemoved, SetOffline, AfterKick, chanVars, objVars
  <2>2. Live' = Live
    BY <2>1 DEF Live
  <2> QED
    BY <1>2, <2>1, <2>2 DEF LoopInv, UnOnce, MarksOpen, Queued, InUn
<1>10. CASE (\E r \in Remote : MultiTerminalLoginCheck(r)) \/ UNCHANGED vars
  <2>1. UNCHANGED <<unregisterChan, lpc, lc, lcur, conn, sock>>
    BY <1>10 DEF MultiTerminalLoginCheck, vars, connVars, objVars, chanVars, loopVars
  <2>2. Live' = Live /\ (IsOpen(lcur)' <=> IsOpen(lcur))
    BY <2>1 DEF Live, IsOpen
  <2> QED
    BY <1>2, <2>1, <2>2, LoopInvFrame
<1> QED
  BY <1>3, <1>4, <1>5, <1>6, <1>7, <1>8, <1>9, <1>10 DEF Next, Handler, Run, LoopOnly

LEMMA LoopInvHolds ==
    ASSUME Tame, LoopOnly
    PROVE  Spec => []LoopInv
<1>1. Init => LoopInv
  BY DEF Init, LoopInv, ReadersWait, UnOnce, IsInjective, MarksOpen, Queued
<1>2. Base /\ OwnObjects /\ TameInv /\ LoopInv /\ [Next]_vars => LoopInv'
  BY LoopInvStep
<1> QED
  BY <1>1, <1>2, BaseHolds, OwnObjectsHold, TameHolds, PTL DEF Spec

\* Who closes: readers only, or the event loop only.
OneCloser == KickPolicy = "none" \/ Quits = {}

Closes == /\ KickPolicy = "none" => ReadersInv
          /\ KickPolicy # "none" => LoopInv

LEMMA ClosesHolds ==
    ASSUME Tame, OneCloser
    PROVE  Spec => []Closes
<1>1. CASE KickPolicy = "none"
  <2>1. OwnObjects => Closes
    BY <1>1, TameTrusted DEF OwnObjects, Closes, ReadersOnly, Tame
  <2> QED
    BY <2>1, OwnObjectsHold, PTL
<1>2. CASE KickPolicy # "none"
  <2>1. LoopOnly
    BY <1>2 DEF Tame, OneCloser, LoopOnly
  <2>2. LoopInv => Closes
    BY <1>2 DEF Closes
  <2> QED
    BY <2>1, <2>2, LoopInvHolds, PTL
<1> QED
  BY <1>1, <1>2

\* The connection a reader or the event loop is about to mark is open.
LEMMA MarksAreOpen ==
    ASSUME Base, OwnInv, Closes
    PROVE  /\ \A n \in Conn : rd[n] = "mark" => IsOpen(client[n])
           /\ lpc = "mark" => IsOpen(lcur)
<1>1. ASSUME NEW n \in Conn, rd[n] = "mark"
      PROVE  IsOpen(client[n])
  <2>1. client[n] \in Live /\ conn[client[n]] = n /\ hs[n] = "up"
    BY <1>1, ReaderOwns
  <2>2. KickPolicy = "none" /\ Cycle(client[n])
    BY <1>1, <2>1 DEF Closes, LoopInv, ReadersWait, ReadersInv, Cycles
  <2>3. sock[n] # "closed"
    BY <1>1, <2>1, <2>2 DEF Base, ClosedOK, Cycle
  <2>4. sock[n] # "none"
    BY <2>1 DEF Base, SockOK
  <2> QED
    BY <2>1, <2>3, <2>4 DEF Base, TypeConn, IsOpen
<1>2. lpc = "mark" => IsOpen(lcur)
  BY DEF Closes, LoopInv, MarksOpen, ReadersInv, LoopPc, OwnPc
<1> QED
  BY <1>1, <1>2

\* The object the event loop removes is not being closed again.
LEMMA RemovedOnce ==
    ASSUME Base, Closes, lpc = "unStore"
    PROVE  lc \in Live /\ ~InUn(lc) /\ rd[conn[lc]] # "send"
<1>1. lc \in Live /\ conn[lc] \in Conn /\ HasObj(conn[lc])
  BY LiveOK DEF Base, LoopHolds, OwnPc, OwnersKnown
<1>2. CASE KickPolicy = "none"
  <2>1. Cycle(lc) /\ AtUn(lc)
    BY <1>1, <1>2 DEF Closes, ReadersInv, Cycles, AtUn
  <2>2. ~InUn(lc) /\ ~Active(conn[lc])
    BY <2>1 DEF Cycle
  <2> QED
    BY <1>1, <2>2 DEF Active, HasObj
<1>3. CASE KickPolicy # "none"
  BY <1>1, <1>3 DEF Closes, LoopInv, Queued, ReadersWait
<1> QED
  BY <1>1, <1>2, <1>3

Counted  == { n \in Conn : \E c \in Live : conn[c] = n /\ Counts(c) }
CountInv == IsFiniteSet(Counted) /\ connNum = Cardinality(Counted)

LEMMA CountFrame ==
    ASSUME CountInv, connNum' = connNum,
           \A d \in Live : Counts(d) => d \in Live' /\ Counts(d)' /\ conn'[d] = conn[d],
           \A d \in Live' : Counts(d)' => d \in Live /\ Counts(d) /\ conn'[d] = conn[d]
    PROVE  CountInv'
<1>1. Counted' = Counted
  BY DEF Counted
<1> QED
  BY <1>1 DEF CountInv

LEMMA CountSteady ==
    ASSUME CountInv, connNum' = connNum, UNCHANGED conn, \A d \in Live : Counts(d)' <=> Counts(d)
    PROVE  CountInv'
<1>1. Live' = Live
  BY DEF Live
<1> QED
  BY <1>1, CountFrame

LEMMA CountStep ==
    ASSUME Base, OwnObjects, Tame, TameInv, Closes, CountInv, [Next]_vars
    PROVE  CountInv'
<1>1. OwnInv
  BY TameTrusted DEF OwnObjects
<1>2. ASSUME NEW n \in Conn, NEW c \in Client, ResetClient(n, c)
      PROVE  CountInv'
  <2>1. /\ \A d \in Live : d # c => (Counts(d)' <=> Counts(d)) /\ conn'[d] = conn[d]
        /\ Live' = Live \cup {c} /\ ~Counts(c)' /\ (c \in Live => ~Counts(c))
    BY <1>2, ResetTame DEF Steady
  <2>2. connNum' = connNum
    BY <1>2 DEF ResetClient, mapVars
  <2> QED
    BY <2>1, <2>2, CountFrame
<1>3. ASSUME NEW n \in Conn, ParseWSArgs(n) \/ Accept(n) \/ Reader(n)
      PROVE  CountInv'
  <2>1. UNCHANGED <<conn, connNum>>
    BY <1>3 DEF ParseWSArgs, Accept, Reader, ReaderCloses, ReadRequest, CheckClosed, HandleMessage,
        ReadError, ReaderCloseCheck, ReaderCloseMark, ReaderCloseSend, objVars, mapVars
  <2>2. \A d \in Live : Counts(d)' <=> Counts(d)
    <3>1. CASE ReaderCloseMark(n)
      <4>1. IsOpen(client[n])
        BY <1>1, <3>1, MarksAreOpen DEF ReaderCloseMark
      <4> QED
        BY <1>1, <3>1, <4>1, ReaderMarkTame
    <3> QED
      BY <1>1, <1>3, <3>1, ParseTame, AcceptTame, ReadTame, ReaderSendTame DEF Steady, Reader, ReaderCloses
  <2> QED
    BY <2>1, <2>2, CountSteady
<1>4. CASE RegisterClient \/ KickHandler \/ UnregisterClient \/ Load \/ KickOld \/ KickTokens \/ SetOnline
           \/ SetOffline \/ LoopCloseMark \/ LoopCloseSend \/ StoreDeleted
  <2>1. UNCHANGED <<conn, connNum>>
    BY <1>4 DEF RegisterClient, KickHandler, UnregisterClient, Load, KickOld, KickTokens, SetOnline,
        SetOffline, LoopCloseMark, LoopCloseSend, StoreDeleted, objVars, mapVars
  <2>2. CASE LoopCloseMark
    <3>1. IsOpen(lcur)
      BY <1>1, <2>2, MarksAreOpen DEF LoopCloseMark
    <3> QED
      BY <2>1, <2>2, <3>1, LoopMarkTame, CountSteady
  <2>3. CASE ~LoopCloseMark
    <3>1. \A d \in Live : Counts(d)' <=> Counts(d)
      BY <1>4, <2>3, RegisterTame, KickHandlerTame, UnregisterTame, LoopTame, LoopSendTame, StoreDeletedTame
      DEF Steady
    <3> QED
      BY <2>1, <3>1, CountSteady
  <2> QED
    BY <2>2, <2>3
<1>5. CASE StoreNew
  <2>1. /\ lc \in Live /\ conn[lc] \in Conn
        /\ \A d \in Live : /\ d = lc => Counts(d)' /\ ~Counts(d)
                           /\ d # lc => (Counts(d)' <=> Counts(d))
    BY <1>5, StoreNewTame, LiveOK
  <2>2. UNCHANGED conn /\ connNum' = connNum + 1 /\ Live' = Live
    BY <1>5 DEF StoreNew, objVars, Live
  <2>3. Counted' = Counted \cup {conn[lc]}
    BY <2>1, <2>2 DEF Counted
  <2>4. conn[lc] \notin Counted
    BY <2>1, ConnInjective DEF Counted
  <2> QED
    BY <2>2, <2>3, <2>4, FS_AddElement DEF CountInv
<1>6. CASE StoreRemoved
  <2>1. lc \in Live /\ ~InUn(lc) /\ rd[conn[lc]] # "send"
    BY <1>6, RemovedOnce DEF StoreRemoved
  <2>2. \A d \in Live : /\ d = lc => Counts(d) /\ ~Counts(d)'
                        /\ d # lc => (Counts(d)' <=> Counts(d))
    BY <1>6, <2>1, StoreRemovedTame
  <2>3. UNCHANGED conn /\ connNum' = connNum - 1 /\ Live' = Live
    BY <1>6 DEF StoreRemoved, objVars, Live
  <2>4. Counted' = Counted \ {conn[lc]}
    <3>1. \A d \in Live : conn[d] = conn[lc] => d = lc
      BY <2>1, ConnInjective
    <3> QED
      BY <2>1, <2>2, <2>3, <3>1 DEF Counted
  <2>5. conn[lc] \in Counted
    BY <2>1, <2>2, LiveOK DEF Counted
  <2> QED
    BY <2>3, <2>4, <2>5, FS_RemoveElement DEF CountInv
<1>7. ASSUME NEW r \in Remote, MultiTerminalLoginCheck(r)
      PROVE  CountInv'
  <2>1. UNCHANGED <<conn, connNum>>
    BY <1>7 DEF MultiTerminalLoginCheck, objVars, mapVars
  <2> QED
    BY <1>7, <2>1, RemoteTame, CountSteady DEF Steady
<1>8. CASE UNCHANGED vars
  <2>1. UNCHANGED <<conn, connNum>> /\ \A d \in Live : Counts(d)' <=> Counts(d)
    BY <1>8 DEF vars, connVars, objVars, mapVars, chanVars, loopVars, Counts, IsUp, IsOpen, Waiting, Closing,
        InUn
  <2> QED
    BY <2>1, CountSteady
<1> QED
  BY <1>2, <1>3, <1>4, <1>5, <1>6, <1>7, <1>8 DEF Next, Run, Handler, Tame

\* The connection limit is compared with the number of open connections, when
\* nothing is under way: if only readers close, objects being reused or not,
\* and if only the event loop does.
THEOREM ConnNumCountsOpenHolds ==
    ASSUME Tame, OneCloser
    PROVE  Spec => []ConnNumCountsOpen
<1>1. Init => CountInv
  <2> SUFFICES ASSUME Init PROVE CountInv
    OBVIOUS
  <2>1. Counted = {}
    BY GatewayAssumption DEF Init, Live, Counted
  <2> QED
    BY <2>1, FS_EmptySet DEF CountInv, Init
<1>2. Base /\ OwnObjects /\ TameInv /\ Closes /\ CountInv /\ [Next]_vars => CountInv'
  BY CountStep
<1>3. ASSUME Base, OwnObjects, TameInv, CountInv, Settled
      PROVE  connNum = Cardinality(Open)
  <2>1. ASSUME NEW n \in Open
        PROVE  n \in Counted
    <3>1. n \in Conn /\ client[n] \in Live /\ conn[client[n]] = n /\ IsUp(client[n])
      BY <1>3, SettledOpen
    <3>2. Counts(client[n])
      BY <1>3, <3>1, SettledNone DEF Counts, IsOpen, Open
    <3> QED
      BY <3>1, <3>2 DEF Counted
  <2>2. Counted \subseteq Open
    BY <1>3, SettledNone DEF Counted, Counts, IsOpen, Open
  <2>3. Counted = Open
    BY <2>1, <2>2
  <2> QED
    BY <1>3, <2>3 DEF CountInv
<1>4. Base /\ OwnObjects /\ TameInv /\ CountInv => ConnNumCountsOpen
  BY <1>3 DEF ConnNumCountsOpen
<1> QED
  BY <1>1, <1>2, <1>4, BaseHolds, OwnObjectsHold, TameHolds, ClosesHolds, PTL DEF Spec

-----------------------------------------------------------------------------
(* The counter of users.                                                    *)

\* No login at another node kicks here.
NoRemoteKick == KickPolicy = "none" \/ Remote = {}

KickPc == {"delLoad", "delStore", "kick", "mark", "send", "tokens"}

\* A user whose entries are being replaced is still counted.
Users == { u \in User : table[u] # {} \/ (lpc \in RegPc /\ u = WorkUser /\ ~lnew) }

UsersCount == IsFiniteSet(Users) /\ userNum = Cardinality(Users)
RegOwn     == lpc \in RegPc => lc \in Client
NewEmpty   == lpc \in RegPc /\ lnew => table[WorkUser] = {}
OldHere    == lpc \in {"delLoad", "delStore"} => lold # {} /\ lold \subseteq table[WorkUser]
KicksOld   == lpc \in KickPc => ~lnew
GaugeInv   == UsersCount /\ RegOwn /\ NewEmpty /\ OldHere /\ KicksOld

\* A step that stores nothing and neither begins nor ends a registration.
LEMMA GaugeFrame ==
    ASSUME GaugeInv, UNCHANGED <<table, userNum, lnew>>,
           lpc' \in RegPc <=> lpc \in RegPc,
           lpc \in RegPc => lc' = lc /\ WorkUser' = WorkUser,
           lpc' \in {"delLoad", "delStore"} => lpc \in {"delLoad", "delStore"} /\ lold' = lold,
           lpc' \in KickPc => lpc \in KickPc
    PROVE  GaugeInv'
<1>1. Users' = Users
  BY DEF Users
<1>2. UsersCount'
  BY <1>1 DEF GaugeInv, UsersCount
<1>3. RegOwn' /\ NewEmpty' /\ KicksOld'
  BY DEF GaugeInv, RegOwn, NewEmpty, KicksOld
<1>4. OldHere'
  BY DEF GaugeInv, OldHere, RegPc
<1> QED
  BY <1>2, <1>3, <1>4 DEF GaugeInv

LEMMA GaugeRegister ==
    ASSUME Base, GaugeInv, RegisterClient
    PROVE  GaugeInv'
<1>0. PICK c : c = Head(registerChan)
  OBVIOUS
<1>1. /\ c \in Live /\ c \in Client /\ UserID(c) \in User /\ lpc = "idle" /\ lc' = c
      /\ lpc' \in {"delLoad", "setLoad"}
      /\ lnew' = (table[UserID(c)] = {}) /\ UNCHANGED <<conn, table, userNum>>
  BY <1>0, RegisterHead, LiveOK, FieldsOK DEF RegisterClient, objVars, mapVars
<1>2. lpc' = "delLoad" => lold' # {} /\ lold' \subseteq table[UserID(c)]
  BY <1>0, <1>1, GetLive DEF RegisterClient
<1>3. WorkUser' = UserID(c)
  BY <1>1 DEF WorkUser, UserID
<1>4. Users' = Users
  BY <1>1, <1>3 DEF Users, RegPc
<1>5. UsersCount'
  BY <1>1, <1>4 DEF GaugeInv, UsersCount
<1>6. RegOwn' /\ NewEmpty' /\ OldHere'
  BY <1>1, <1>2, <1>3 DEF RegOwn, NewEmpty, OldHere
<1>7. KicksOld'
  BY <1>1, <1>2 DEF KicksOld, KickPc
<1> QED
  BY <1>5, <1>6, <1>7 DEF GaugeInv

LEMMA GaugeStores ==
    ASSUME Base, TameInv, GaugeInv, StoreDeleted \/ StoreNew \/ StoreRemoved
    PROVE  GaugeInv'
<1>1. /\ WorkUser \in User /\ lsnap = table[WorkUser] /\ UNCHANGED <<conn, lc, lnew>> /\ WorkUser' = WorkUser
      /\ lpc \in {"delStore", "setStore", "unStore"}
  <2>1. UNCHANGED <<conn, lc, lnew>> /\ lpc \in {"delStore", "setStore", "unStore"}
    BY DEF StoreDeleted, StoreNew, StoreRemoved, objVars
  <2> QED
    BY <2>1, WorkOK, WorkFrame DEF TameInv, SnapOK
<1>2. \A u \in User : u # WorkUser => table'[u] = table[u]
  BY DEF StoreDeleted, StoreNew, StoreRemoved, Base, TableHolds
<1>3. CASE StoreDeleted
  <2>1. lpc = "delStore" /\ lpc' = "kick" /\ userNum' = userNum /\ ~lnew /\ lc \in Client
    BY <1>3 DEF StoreDeleted, GaugeInv, KicksOld, KickPc, RegOwn, RegPc
  <2>2. Users' = Users
    BY <1>1, <1>2, <2>1 DEF Users, RegPc
  <2> QED
    BY <1>1, <2>1, <2>2 DEF GaugeInv, UsersCount, RegOwn, NewEmpty, OldHere, KicksOld
<1>4. CASE StoreNew
  <2>1. /\ lpc = "setStore" /\ lpc' = "online"
        /\ userNum' = IF lnew THEN userNum + 1 ELSE userNum
        /\ table'[WorkUser] # {}
    BY <1>1, <1>4 DEF StoreNew, With, Base, TableHolds
  <2>2. Users' = Users \cup {WorkUser}
    BY <1>1, <1>2, <2>1 DEF Users, RegPc
  <2>3. WorkUser \in Users <=> ~lnew
    BY <1>1, <2>1 DEF Users, RegPc, GaugeInv, NewEmpty
  <2>4. lnew \in BOOLEAN
    BY DEF Base, TypeLoop
  <2>5. UsersCount'
    BY <2>1, <2>2, <2>3, <2>4, FS_AddElement DEF GaugeInv, UsersCount
  <2> QED
    BY <2>1, <2>5 DEF GaugeInv, RegOwn, NewEmpty, OldHere, KicksOld, RegPc, KickPc
<1>5. CASE StoreRemoved
  <2>1. /\ lpc = "unStore" /\ lpc' = "offline"
        /\ userNum' = IF IsDeleteUser THEN userNum - 1 ELSE userNum
    BY <1>5 DEF StoreRemoved
  <2>2. table'[WorkUser] = IF lsnap = {} THEN {} ELSE Without(lsnap, {lc})
    BY <1>1, <1>5 DEF StoreRemoved, Base, TableHolds
  <2>3. CASE IsDeleteUser
    <3>1. WorkUser \in Users /\ Users' = Users \ {WorkUser}
      BY <1>1, <1>2, <2>1, <2>2, <2>3 DEF Users, IsDeleteUser, RegPc
    <3>2. UsersCount'
      BY <2>1, <2>3, <3>1, FS_RemoveElement DEF GaugeInv, UsersCount
    <3> QED
      BY <2>1, <3>2 DEF GaugeInv, RegOwn, NewEmpty, OldHere, KicksOld, RegPc, KickPc
  <2>4. CASE ~IsDeleteUser
    <3>1. table'[WorkUser] = {} <=> table[WorkUser] = {}
      BY <1>1, <2>2, <2>4 DEF IsDeleteUser
    <3>2. Users' = Users
      BY <1>1, <1>2, <2>1, <3>1 DEF Users, RegPc
    <3>3. UsersCount'
      BY <2>1, <2>4, <3>2 DEF GaugeInv, UsersCount
    <3> QED
      BY <2>1, <3>3 DEF GaugeInv, RegOwn, NewEmpty, OldHere, KicksOld, RegPc, KickPc
  <2> QED
    BY <2>3, <2>4
<1> QED
  BY <1>3, <1>4, <1>5

LEMMA GaugeStep ==
    ASSUME Base, OwnObjects, Tame, NoRemoteKick, TameInv, GaugeInv, [Next]_vars
    PROVE  GaugeInv'
<1>1. ASSUME NEW n \in Conn, NEW c \in Client, ResetClient(n, c)
      PROVE  GaugeInv'
  <2>1. UNCHANGED <<table, userNum, lnew, lpc, lc, lold>> /\ (lpc # "idle" => lc # c)
    BY <1>1, AvailableNowhere DEF ResetClient, mapVars, loopVars
  <2>2. \A d \in Client : d # c => conn'[d] = conn[d]
    BY <1>1 DEF Base, TypeObj, ResetClient
  <2>3. lpc \in RegPc => WorkUser' = WorkUser
    BY <2>1, <2>2, WorkFrame DEF RegPc
  <2> QED
    BY <2>1, <2>3, GaugeFrame
<1>2. ASSUME UNCHANGED <<conn, table, userNum, lnew, lpc, lc, lold>>
      PROVE  GaugeInv'
  BY <1>2, WorkFrame, GaugeFrame
<1>3. ASSUME NEW n \in Conn, ParseWSArgs(n) \/ Accept(n) \/ Reader(n)
      PROVE  GaugeInv'
  BY <1>2, <1>3 DEF ParseWSArgs, Accept, Reader, ReaderCloses, ReadRequest, CheckClosed, HandleMessage,
      ReadError, ReaderCloseCheck, ReaderCloseMark, ReaderCloseSend, objVars, mapVars, loopVars
<1>4. CASE KickHandler
  <2>1. UNCHANGED <<lc, lpc, lold>>
    <3>1. Head(kickHandlerChan).login \in Remote
      BY <1>4, KickHead DEF KickHandler
    <3> QED
      BY <1>4, <3>1 DEF KickHandler, Kicks, NoRemoteKick
  <2> QED
    BY <1>2, <1>4, <2>1 DEF KickHandler, objVars, mapVars
<1>5. CASE Load \/ KickOld \/ KickTokens \/ LoopCloseMark \/ LoopCloseSend
  <2>1. UNCHANGED <<conn, table, userNum, lnew, lc>>
    BY <1>5 DEF Load, KickOld, KickTokens, LoopCloseMark, LoopCloseSend, objVars, mapVars
  <2>2. WorkUser' = WorkUser
    BY <2>1, WorkFrame
  <2>3. /\ lpc' \in RegPc <=> lpc \in RegPc
        /\ lpc' \in {"delLoad", "delStore"} => lpc \in {"delLoad", "delStore"} /\ lold' = lold
        /\ lpc' \in KickPc => lpc \in KickPc
    BY <1>5 DEF Load, KickOld, KickTokens, LoopCloseMark, LoopCloseSend, AfterKick, GaugeInv, RegOwn,
        RegPc, KickPc
  <2> QED
    BY <2>1, <2>2, <2>3, GaugeFrame
<1>6. CASE SetOnline \/ SetOffline \/ UnregisterClient
  <2>1. UNCHANGED <<table, userNum, lnew>>
    BY <1>6 DEF SetOnline, SetOffline, UnregisterClient, mapVars
  <2>2. lpc \notin RegPc /\ lpc' \notin RegPc /\ lpc' \notin KickPc
    BY <1>6 DEF SetOnline, SetOffline, UnregisterClient, RegPc, KickPc
  <2> QED
    BY <2>1, <2>2, GaugeFrame DEF RegPc
<1>7. CASE (\E r \in Remote : MultiTerminalLoginCheck(r)) \/ UNCHANGED vars
  BY <1>2, <1>7 DEF MultiTerminalLoginCheck, vars, objVars, mapVars, loopVars
<1> QED
  BY <1>1, <1>3, <1>4, <1>5, <1>6, <1>7, GaugeRegister, GaugeStores DEF Next, Handler, Run, Tame

\* onlineUserNum counts the users with an open connection when nothing is under
\* way, also when a user's only connection is replaced by a newer login.
THEOREM GaugeCountsUsersHolds ==
    ASSUME Tame, NoRemoteKick
    PROVE  Spec => []GaugeCountsUsers
<1>1. Init => GaugeInv
  <2> SUFFICES ASSUME Init PROVE GaugeInv
    OBVIOUS
  <2>1. Users = {}
    BY DEF Init, Users, RegPc
  <2>2. UsersCount
    BY <2>1, FS_EmptySet DEF UsersCount, Init
  <2> QED
    BY <2>2 DEF Init, GaugeInv, RegOwn, NewEmpty, OldHere, KicksOld, RegPc, KickPc
<1>2. Base /\ OwnObjects /\ TameInv /\ GaugeInv /\ [Next]_vars => GaugeInv'
  BY GaugeStep
<1>3. ASSUME Base, GaugeInv, TableHoldsOpen, Settled
      PROVE  userNum = Cardinality({ UserOf[n] : n \in Open })
  <2>1. Users = { u \in User : table[u] # {} }
    BY <1>3 DEF Users, Settled, RegPc
  <2>2. ASSUME NEW u \in User
        PROVE  table[u] # {} <=> \E n \in Open : UserOf[n] = u
    <3>1. { conn[c] : c \in table[u] } = { n \in Open : UserOf[n] = u }
      BY <1>3 DEF TableHoldsOpen
    <3> QED
      BY <3>1
  <2>3. \A n \in Open : UserOf[n] \in User
    BY GatewayAssumption DEF Open
  <2>4. Users = { UserOf[n] : n \in Open }
    BY <2>1, <2>2, <2>3
  <2> QED
    BY <1>3, <2>4 DEF GaugeInv, UsersCount
<1>4. Base /\ GaugeInv /\ TableHoldsOpen => GaugeCountsUsers
  BY <1>3 DEF GaugeCountsUsers
<1> QED
  BY <1>1, <1>2, <1>4, BaseHolds, OwnObjectsHold, TameHolds, TableHoldsOpenHolds, PTL DEF Spec

-----------------------------------------------------------------------------
(* The online status in Redis.                                              *)

\* One connection per user and platform: unregistering one of two takes the
\* platform offline although the other is open.
OneEach == \A n, k \in Conn : UserOf[n] = UserOf[k] /\ PlatformOf[n] = PlatformOf[k] => n = k

Pair(c)  == <<UserID(c), PlatformID(c)>>
ShownIn  == \A c \in Live : Shown(c) /\ ~(lpc = "online" /\ lc = c) => Pair(c) \in status
InShown  == \A x \in status : \E c \in Live : Pair(c) = x /\ (Counts(c) \/ (lpc = "offline" /\ lc = c))
StatusInv == faults = 0 => ShownIn /\ InShown

LEMMA PairInjective ==
    ASSUME Base, OneEach, NEW c \in Live, NEW d \in Live, Pair(c) = Pair(d)
    PROVE  c = d
<1>1. conn[c] = conn[d]
  BY LiveOK DEF Pair, UserID, PlatformID, OneEach
<1> QED
  BY <1>1, ConnInjective

LEMMA StatusFrame ==
    ASSUME StatusInv, faults' = 0 => faults = 0, status' = status,
           \A d \in Live : Counts(d) => d \in Live' /\ Counts(d)' /\ conn'[d] = conn[d],
           \A d \in Live' : Shown(d)' => d \in Live /\ Shown(d) /\ conn'[d] = conn[d],
           lpc = "online" => lpc' = "online" /\ lc' = lc,
           lpc = "offline" => lpc' = "offline" /\ lc' = lc /\ (lc \in Live => lc \in Live' /\ conn'[lc] = conn[lc])
    PROVE  StatusInv'
<1> SUFFICES ASSUME faults = 0 PROVE ShownIn' /\ InShown'
  BY DEF StatusInv
<1>1. \A d : conn'[d] = conn[d] => Pair(d)' = Pair(d)
  BY DEF Pair, UserID, PlatformID
<1>2. ShownIn'
  BY <1>1 DEF StatusInv, ShownIn
<1>3. ASSUME NEW x \in status
      PROVE  \E c \in Live' : Pair(c)' = x /\ (Counts(c)' \/ (lpc' = "offline" /\ lc' = c))
  <2>1. PICK c \in Live : Pair(c) = x /\ (Counts(c) \/ (lpc = "offline" /\ lc = c))
    BY DEF StatusInv, InShown
  <2>2. c \in Live' /\ conn'[c] = conn[c] /\ (Counts(c)' \/ (lpc' = "offline" /\ lc' = c))
    BY <2>1
  <2> QED
    BY <1>1, <2>1, <2>2
<1>4. InShown'
  BY <1>3 DEF InShown
<1> QED
  BY <1>2, <1>4

LEMMA StatusSteady ==
    ASSUME StatusInv, faults' = 0 => faults = 0, status' = status, UNCHANGED conn,
           \A d \in Live : (Counts(d) => Counts(d)') /\ (Shown(d)' => Shown(d)),
           lpc \in {"online", "offline"} => lpc' = lpc /\ lc' = lc
    PROVE  StatusInv'
<1>1. Live' = Live
  BY DEF Live
<1> QED
  BY <1>1, StatusFrame

LEMMA StatusStep ==
    ASSUME Base, OwnObjects, Tame, OneEach, TameInv, StatusInv, [Next]_vars
    PROVE  StatusInv'
<1>1. OwnInv
  BY TameTrusted DEF OwnObjects
<1>2. ASSUME NEW n \in Conn, NEW c \in Client, ResetClient(n, c)
      PROVE  StatusInv'
  <2>1. /\ \A d \in Live : d # c => (Counts(d) => Counts(d)') /\ (Shown(d)' => Shown(d)) /\ conn'[d] = conn[d]
        /\ Live' = Live \cup {c} /\ ~Shown(c)' /\ (c \in Live => ~Counts(c))
    BY <1>2, ResetTame DEF Steady
  <2>2. UNCHANGED <<lpc, lc, status, faults>> /\ (lpc # "idle" => lc # c)
    BY <1>2, AvailableNowhere DEF ResetClient, loopVars, redisVars
  <2>3. lpc = "offline" => (lc \in Live => lc \in Live' /\ conn'[lc] = conn[lc])
    BY <2>1, <2>2
  <2> QED
    BY <2>1, <2>2, <2>3, StatusFrame
<1>3. ASSUME NEW n \in Conn, ParseWSArgs(n) \/ Accept(n) \/ Reader(n)
      PROVE  StatusInv'
  <2>1. UNCHANGED <<conn, lpc, lc, status, faults>>
    BY <1>3 DEF ParseWSArgs, Accept, Reader, ReaderCloses, ReadRequest, CheckClosed, HandleMessage,
        ReadError, ReaderCloseCheck, ReaderCloseMark, ReaderCloseSend, objVars, loopVars, redisVars
  <2>2. \A d \in Live : (Counts(d) => Counts(d)') /\ (Shown(d)' => Shown(d))
    BY <1>1, <1>3, ParseTame, AcceptTame, ReadTame, ReaderSendTame, ReaderMarkTame
    DEF Steady, Reader, ReaderCloses
  <2> QED
    BY <2>1, <2>2, StatusSteady
<1>4. CASE RegisterClient \/ KickHandler \/ UnregisterClient \/ Load \/ KickOld \/ KickTokens
           \/ LoopCloseMark \/ LoopCloseSend \/ StoreDeleted
  <2>1. UNCHANGED <<conn, status>> /\ lpc \notin {"online", "offline"}
    BY <1>4 DEF RegisterClient, KickHandler, UnregisterClient, Load, KickOld, KickTokens,
        LoopCloseMark, LoopCloseSend, StoreDeleted, objVars, redisVars
  <2>2. faults' = faults \/ faults' = faults + 1
    BY <1>4 DEF RegisterClient, KickHandler, UnregisterClient, Load, KickOld, KickTokens,
        LoopCloseMark, LoopCloseSend, StoreDeleted, Ok, Fails
  <2>3. faults' = 0 => faults = 0
    BY <2>2 DEF Base, KindsOK
  <2>4. \A d \in Live : (Counts(d) => Counts(d)') /\ (Shown(d)' => Shown(d))
    BY <1>4, RegisterTame, KickHandlerTame, UnregisterTame, LoopTame, LoopSendTame, LoopMarkTame,
        StoreDeletedTame DEF Steady
  <2> QED
    BY <2>1, <2>3, <2>4, StatusSteady
<1>5. CASE StoreNew
  <2>1. /\ lc \in Live
        /\ \A d \in Live : /\ d = lc => Counts(d)' /\ ~Counts(d)
                           /\ d # lc => (Counts(d)' <=> Counts(d)) /\ (Shown(d)' => Shown(d))
    BY <1>5, StoreNewTame
  <2>2. UNCHANGED <<conn, status, lc, faults>> /\ lpc = "setStore" /\ lpc' = "online" /\ Live' = Live
    BY <1>5 DEF StoreNew, objVars, redisVars, Live
  <2>3. \A d : Pair(d)' = Pair(d)
    BY <2>2 DEF Pair, UserID, PlatformID
  <2>4. faults = 0 => ShownIn'
    BY <2>1, <2>2, <2>3 DEF StatusInv, ShownIn
  <2>5. faults = 0 => InShown'
    BY <2>1, <2>2, <2>3 DEF StatusInv, InShown
  <2> QED
    BY <2>2, <2>4, <2>5 DEF StatusInv
<1>6. CASE StoreRemoved
  <2>1. /\ lc \in Live
        /\ \A d \in Live : (d # lc => (Counts(d)' <=> Counts(d))) /\ (Shown(d)' => Shown(d))
    BY <1>6, StoreRemovedTame
  <2>2. UNCHANGED <<conn, status, lc, faults>> /\ lpc = "unStore" /\ lpc' = "offline" /\ Live' = Live
    BY <1>6 DEF StoreRemoved, objVars, redisVars, Live
  <2>3. \A d : Pair(d)' = Pair(d)
    BY <2>2 DEF Pair, UserID, PlatformID
  <2>4. faults = 0 => ShownIn'
    BY <2>1, <2>2, <2>3 DEF StatusInv, ShownIn
  <2>5. faults = 0 => InShown'
    BY <2>1, <2>2, <2>3 DEF StatusInv, InShown
  <2> QED
    BY <2>2, <2>4, <2>5 DEF StatusInv
<1>7. CASE SetOnline \/ SetOffline
  <2>1. /\ UNCHANGED <<conn, lc>> /\ lpc' = "idle" /\ Live' = Live
        /\ lc \in Live /\ <<WorkUser, WorkPlatform>> = Pair(lc)
    <3>1. UNCHANGED <<conn, lc>> /\ lpc' = "idle" /\ lpc \in {"online", "offline"}
      BY <1>7 DEF SetOnline, SetOffline, objVars
    <3>2. lc \in Live /\ lc \in Client
      BY <3>1, LiveOK DEF Base, LoopHolds, OwnPc
    <3> QED
      BY <3>1, <3>2 DEF Live, WorkUser, WorkPlatform, Pair
  <2>2. \A d \in Live : (Counts(d)' <=> Counts(d)) /\ (Shown(d)' => Shown(d))
    BY <1>7, LoopTame DEF Steady
  <2>3. \A d : Pair(d)' = Pair(d)
    BY <2>1 DEF Pair, UserID, PlatformID
  <2> SUFFICES ASSUME faults' = 0 PROVE ShownIn' /\ InShown'
    BY DEF StatusInv
  <2>4. /\ faults = 0
        /\ SetOnline => status' = status \cup {Pair(lc)}
        /\ SetOffline => status' = status \ {Pair(lc)}
    BY <2>1, <1>7 DEF SetOnline, SetOffline, Ok, Fails, Base, KindsOK, WithoutPlatform
  <2>5. CASE SetOnline
    <3>1. lpc = "online" /\ Counts(lc)
      BY <2>1, <2>5 DEF SetOnline, TameInv, AllPlaced, Placed, Counts
    <3>2. ShownIn'
      BY <2>1, <2>2, <2>3, <2>4, <2>5 DEF StatusInv, ShownIn
    <3>3. InShown'
      BY <2>1, <2>2, <2>3, <2>4, <2>5, <3>1 DEF StatusInv, InShown
    <3> QED
      BY <3>2, <3>3
  <2>6. CASE SetOffline
    <3>1. lpc = "offline" /\ ~Shown(lc)
      BY <2>1, <2>6 DEF SetOffline, TameInv, AllPlaced, Placed, Shown
    <3>2. \A d \in Live : Pair(d) = Pair(lc) => d = lc
      BY <2>1, PairInjective
    <3>3. ShownIn'
      BY <2>1, <2>2, <2>3, <2>4, <2>6, <3>1, <3>2 DEF StatusInv, ShownIn
    <3>4. InShown'
      BY <2>1, <2>2, <2>3, <2>4, <2>6, <3>1, <3>2 DEF StatusInv, InShown
    <3> QED
      BY <3>3, <3>4
  <2> QED
    BY <1>7, <2>5, <2>6
<1>8. ASSUME NEW r \in Remote, MultiTerminalLoginCheck(r)
      PROVE  StatusInv'
  <2>1. UNCHANGED <<conn, lpc, lc, status, faults>>
    BY <1>8 DEF MultiTerminalLoginCheck, objVars, loopVars, redisVars
  <2> QED
    BY <1>8, <2>1, RemoteTame, StatusSteady DEF Steady
<1>9. CASE UNCHANGED vars
  <2>1. /\ UNCHANGED <<conn, lpc, lc, status, faults>>
        /\ \A d \in Live : (Counts(d)' <=> Counts(d)) /\ (Shown(d)' <=> Shown(d))
    BY <1>9 DEF vars, connVars, objVars, mapVars, chanVars, loopVars, redisVars, Counts, Shown, IsUp, IsOpen,
        Waiting, Closing, InUn
  <2> QED
    BY <2>1, StatusSteady
<1> QED
  BY <1>2, <1>3, <1>4, <1>5, <1>6, <1>7, <1>8, <1>9 DEF Next, Run, Handler, Tame

\* The platforms shown online are those with an open connection when nothing is
\* under way and no write of the status failed.
THEOREM StatusInSyncHolds ==
    ASSUME Tame, OneEach
    PROVE  Spec => []StatusInSync
<1>1. Init => StatusInv
  <2> SUFFICES ASSUME Init PROVE StatusInv
    OBVIOUS
  <2>1. Live = {}
    BY GatewayAssumption DEF Init, Live
  <2> QED
    BY <2>1 DEF StatusInv, ShownIn, InShown, Init
<1>2. Base /\ OwnObjects /\ TameInv /\ StatusInv /\ [Next]_vars => StatusInv'
  BY StatusStep
<1>3. ASSUME Base, OwnObjects, TameInv, StatusInv, Settled, faults = 0
      PROVE  status = { <<UserOf[n], PlatformOf[n]>> : n \in Open }
  <2>1. ASSUME NEW n \in Open
        PROVE  <<UserOf[n], PlatformOf[n]>> \in status
    <3>1. n \in Conn /\ client[n] \in Live /\ conn[client[n]] = n /\ IsUp(client[n])
      BY <1>3, SettledOpen
    <3>2. Shown(client[n])
      BY <1>3, <3>1, SettledNone DEF Shown, IsOpen, Open
    <3>3. Pair(client[n]) = <<UserOf[n], PlatformOf[n]>> /\ lpc = "idle"
      BY <1>3, <3>1 DEF Pair, UserID, PlatformID, Settled
    <3> QED
      BY <1>3, <3>1, <3>2, <3>3 DEF StatusInv, ShownIn
  <2>2. ASSUME NEW x \in status
        PROVE  \E n \in Open : x = <<UserOf[n], PlatformOf[n]>>
    <3>1. PICK c \in Live : Pair(c) = x /\ Counts(c)
      BY <1>3 DEF StatusInv, InShown, Settled
    <3>2. conn[c] \in Open
      BY <1>3, <3>1, SettledNone, LiveOK DEF Counts, IsOpen, Open
    <3> QED
      BY <3>1, <3>2 DEF Pair, UserID, PlatformID
  <2> QED
    BY <2>1, <2>2
<1>4. Base /\ OwnObjects /\ TameInv /\ StatusInv => StatusInSync
  BY <1>3 DEF StatusInSync
<1> QED
  BY <1>1, <1>2, <1>4, BaseHolds, OwnObjectsHold, TameHolds, PTL DEF Spec

-----------------------------------------------------------------------------
(* Tokens of replaced connections, when objects are not reused.  Peers may  *)
(* hang up at any time and KickUserOffline may be called.                   *)

Known(c) == c \in Live /\ IsUp(c) /\ ~Waiting(c)
StorePc  == {"delStore", "setStore", "unStore"}

RegInv == RegOnce /\ \A c \in Live : Waiting(c) => IsUp(c)

TableKnown == \A u \in User : \A c \in table[u] : Known(c) /\ UserID(c) = u
SnapKnown  == \A c \in lsnap : Known(c) /\ (lpc \in StorePc => UserID(c) = WorkUser)
CallsKnown == \A k \in Kick :
                 /\ \A c \in ksnap[k] : Known(c) /\ (kpc[k] = "store" => UserID(c) = UserID(kcur[k]))
                 /\ \A c \in kold[k] : Known(c)
LoginOf(x) == /\ x.login \notin remote
              /\ \A c \in x.old : /\ Known(c)
                                  /\ UserID(c) = x.login.user /\ PlatformID(c) = x.login.platform
ChanKnown  == \A x \in Range(kickHandlerChan) : LoginOf(x)
OldKnown   == /\ \A c \in lold : Known(c) /\ UserID(c) = WorkUser /\ PlatformID(c) = WorkPlatform
              /\ lpc \in {"mark", "send"} => lcur \in lold
              /\ lpc \notin {"delLoad", "delStore", "kick", "mark", "send"} => lold = {}
WorkGone   == lpc # "idle" => lc \notin remote
HeldKnown  == TableKnown /\ SnapKnown /\ CallsKnown /\ ChanKnown /\ OldKnown /\ WorkGone

\* Which steps write what.
LEMMA Writers ==
    ASSUME [Next]_vars
    PROVE  /\ UNCHANGED table \/ StoreDeleted \/ StoreNew \/ StoreRemoved \/ \E k \in Kick : KickStore(k)
           /\ Load \/ (UNCHANGED lsnap /\ (lpc' \in StorePc => lpc' = lpc /\ lc' = lc))
           /\ UNCHANGED kickVars \/ \E k \in Kick : KickRPC(k)
           /\ UNCHANGED kickHandlerChan \/ KickHandler \/ \E r \in Remote : MultiTerminalLoginCheck(r)
           /\ UNCHANGED <<lpc, lc, lold, lcur>> \/ Run
           /\ remote' \subseteq remote
           /\ UNCHANGED replaced \/ LoopCloseMark
           /\ UNCHANGED tokens \/ KickTokens
<1>1. UNCHANGED table \/ StoreDeleted \/ StoreNew \/ StoreRemoved \/ \E k \in Kick : KickStore(k)
  BY DEF Next, Handler, Run, KickRPC, vars, ParseWSArgs, ResetClient, Accept, Reader, ReaderCloses,
      ReadRequest, CheckClosed, HandleMessage, ReadError, ReaderCloseCheck, ReaderCloseMark, ReaderCloseSend,
      RegisterClient, KickHandler, Load, KickOld, LoopCloseMark, LoopCloseSend, KickTokens, SetOnline,
      UnregisterClient, SetOffline, MultiTerminalLoginCheck, KickUserOffline, KickUserConn, KickCloseCheck,
      KickCloseMark, KickCloseSend, mapVars
<1>2. UNCHANGED loopVars \/ Run
  BY DEF Next, Handler, KickRPC, vars, ParseWSArgs, ResetClient, Accept, Reader, ReaderCloses,
      ReadRequest, CheckClosed, HandleMessage, ReadError, ReaderCloseCheck, ReaderCloseMark, ReaderCloseSend,
      MultiTerminalLoginCheck, KickUserOffline, KickUserConn, KickStore, KickCloseCheck,
      KickCloseMark, KickCloseSend
<1>3. Load \/ (UNCHANGED lsnap /\ (lpc' \in StorePc => lpc' = lpc /\ lc' = lc))
  BY <1>2 DEF Run, RegisterClient, KickHandler, StoreDeleted, KickOld, LoopCloseMark, LoopCloseSend, KickTokens,
      StoreNew, SetOnline, UnregisterClient, StoreRemoved, SetOffline, AfterKick, loopVars, StorePc
<1>4. UNCHANGED kickVars \/ \E k \in Kick : KickRPC(k)
  BY DEF Next, Handler, Run, vars, ParseWSArgs, ResetClient, Accept, Reader, ReaderCloses,
      ReadRequest, CheckClosed, HandleMessage, ReadError, ReaderCloseCheck, ReaderCloseMark, ReaderCloseSend,
      RegisterClient, KickHandler, Load, StoreDeleted, KickOld, LoopCloseMark, LoopCloseSend, KickTokens,
      StoreNew, SetOnline, UnregisterClient, StoreRemoved, SetOffline, MultiTerminalLoginCheck
<1>5. UNCHANGED kickHandlerChan \/ KickHandler \/ \E r \in Remote : MultiTerminalLoginCheck(r)
  BY DEF Next, Handler, Run, KickRPC, vars, ParseWSArgs, ResetClient, Accept, Reader, ReaderCloses,
      ReadRequest, CheckClosed, HandleMessage, ReadError, ReaderCloseCheck, ReaderCloseMark, ReaderCloseSend,
      RegisterClient, Load, StoreDeleted, KickOld, LoopCloseMark, LoopCloseSend, KickTokens, StoreNew,
      SetOnline, UnregisterClient, StoreRemoved, SetOffline, KickUserOffline, KickUserConn, KickStore,
      KickCloseCheck, KickCloseMark, KickCloseSend, chanVars
<1>6. remote' \subseteq remote
  BY DEF Next, Handler, Run, KickRPC, vars, ParseWSArgs, ResetClient, Accept, Reader, ReaderCloses,
      ReadRequest, CheckClosed, HandleMessage, ReadError, ReaderCloseCheck, ReaderCloseMark, ReaderCloseSend,
      RegisterClient, KickHandler, Load, StoreDeleted, KickOld, LoopCloseMark, LoopCloseSend, KickTokens,
      StoreNew, SetOnline, UnregisterClient, StoreRemoved, SetOffline, MultiTerminalLoginCheck,
      KickUserOffline, KickUserConn, KickStore, KickCloseCheck, KickCloseMark, KickCloseSend
<1>7. UNCHANGED replaced \/ LoopCloseMark
  BY DEF Next, Handler, Run, KickRPC, vars, ParseWSArgs, ResetClient, Accept, Reader, ReaderCloses,
      ReadRequest, CheckClosed, HandleMessage, ReadError, ReaderCloseCheck, ReaderCloseMark, ReaderCloseSend,
      RegisterClient, KickHandler, Load, StoreDeleted, KickOld, LoopCloseSend, KickTokens,
      StoreNew, SetOnline, UnregisterClient, StoreRemoved, SetOffline, MultiTerminalLoginCheck,
      KickUserOffline, KickUserConn, KickStore, KickCloseCheck, KickCloseMark, KickCloseSend
<1>8. UNCHANGED tokens \/ KickTokens
  BY DEF Next, Handler, Run, KickRPC, vars, ParseWSArgs, ResetClient, Accept, Reader, ReaderCloses,
      ReadRequest, CheckClosed, HandleMessage, ReadError, ReaderCloseCheck, ReaderCloseMark, ReaderCloseSend,
      RegisterClient, KickHandler, Load, StoreDeleted, KickOld, LoopCloseMark, LoopCloseSend,
      StoreNew, SetOnline, UnregisterClient, StoreRemoved, SetOffline, MultiTerminalLoginCheck,
      KickUserOffline, KickUserConn, KickStore, KickCloseCheck, KickCloseMark, KickCloseSend, redisVars
<1> QED
  BY <1>1, <1>2, <1>3, <1>4, <1>5, <1>6, <1>7, <1>8 DEF loopVars

\* An object stays with its connection, and a connection stays up.
LEMMA LiveKept ==
    ASSUME Base, ~Reuse, [Next]_vars
    PROVE  /\ Live \subseteq Live'
           /\ \A m \in Conn : hs[m] = "up" => hs'[m] = "up"
           /\ \A c \in Live : /\ conn'[c] = conn[c]
                              /\ UserID(c)' = UserID(c) /\ PlatformID(c)' = PlatformID(c)
                              /\ IsUp(c) => IsUp(c)'
           /\ lpc # "idle" /\ lc' = lc =>
                 WorkUser' = WorkUser /\ WorkPlatform' = WorkPlatform /\ WorkToken' = WorkToken
<1>1. UNCHANGED conn \/ \E n \in Conn, c \in Client : ResetClient(n, c)
  BY LoopFrame DEF Next, Handler, vars, objVars, ParseWSArgs, Accept, Reader, ReaderCloses,
      ReadRequest, CheckClosed, HandleMessage, ReadError, ReaderCloseCheck, ReaderCloseMark, ReaderCloseSend
<1>2. \A c \in Live : conn'[c] = conn[c]
  <2>1. ASSUME NEW n \in Conn, NEW c \in Client, ResetClient(n, c), NEW d \in Live
        PROVE  conn'[d] = conn[d]
    <3>1. c \notin Live
      BY <2>1, GatewayAssumption DEF ResetClient, Available, Live
    <3> QED
      BY <2>1, <3>1, LiveOK DEF Base, TypeObj, ResetClient
  <2> QED
    BY <1>1, <2>1
<1>3. Live \subseteq Live'
  BY <1>2 DEF Live
<1>4. \A c \in Live : UserID(c)' = UserID(c) /\ PlatformID(c)' = PlatformID(c)
  BY <1>2 DEF UserID, PlatformID
<1>5. \A m \in Conn : hs[m] = "up" => hs'[m] = "up"
  <2>1. UNCHANGED hs \/ \E n \in Conn : ParseWSArgs(n) \/ Handler(n)
    BY LoopFrame DEF Next, Handler, vars, connVars, Reader, ReaderCloses,
        ReadRequest, CheckClosed, HandleMessage, ReadError, ReaderCloseCheck, ReaderCloseMark, ReaderCloseSend
  <2> QED
    BY <2>1 DEF Base, TypeConn, ParseWSArgs, Handler, ResetClient, Accept
<1>6. \A c \in Live : IsUp(c) => IsUp(c)'
  BY <1>2, <1>5, LiveOK DEF IsUp
<1>7. ASSUME lpc # "idle", lc' = lc
      PROVE  WorkUser' = WorkUser /\ WorkPlatform' = WorkPlatform /\ WorkToken' = WorkToken
  <2>1. lc \in Client => lc \in Live
    BY <1>7, GatewayAssumption DEF Base, LoopHolds
  <2> QED
    BY <1>2, <1>7, <2>1, WorkFrame
<1> QED
  BY <1>2, <1>3, <1>4, <1>5, <1>6, <1>7

\* Only Accept makes an object wait, and the event loop takes each one once.
LEMMA RegStep ==
    ASSUME Base, KeptInv, ~Reuse, RegInv, [Next]_vars
    PROVE  RegInv' /\ \A c : Known(c) => Known(c)'
<1>1. ASSUME NEW n \in Conn, Accept(n)
      PROVE  RegInv' /\ \A c : Known(c) => Known(c)'
  <2>0. PICK c : c = client[n]
    OBVIOUS
  <2>1. c \in Live /\ conn[c] = n /\ hs[n] = "reset" /\ ~IsUp(c) /\ ~Waiting(c)
    BY <1>1, <2>0 DEF Base, HandlersHold, HasObj, KeptInv, Own, Accept, IsUp, RegInv
  <2>2. /\ Range(registerChan') = Range(registerChan) \cup {c}
        /\ c \notin Range(registerChan) => IsInjective(registerChan')
    BY <1>1, <2>0, <2>1, RangeAppend DEF Base, RegChanHolds, RegInv, RegOnce, Accept
  <2>3. UNCHANGED <<conn, lpc, lc>> /\ \A m \in Conn : hs'[m] = IF m = n THEN "up" ELSE hs[m]
    BY <1>1 DEF Accept, objVars, loopVars, Base, TypeConn
  <2>4. Live' = Live /\ \A d \in Live : (Waiting(d)' <=> Waiting(d) \/ d = c) /\ (IsUp(d) => IsUp(d)')
    BY <2>2, <2>3, LiveOK DEF Live, Waiting, IsUp
  <2>5. IsUp(c)'
    BY <2>1, <2>3 DEF IsUp
  <2>6. RegOnce'
    BY <2>1, <2>2, <2>3 DEF RegInv, RegOnce, Waiting
  <2> QED
    BY <2>1, <2>4, <2>5, <2>6 DEF RegInv, Known
<1>2. CASE RegisterClient
  <2>0. PICK c : c = Head(registerChan)
    OBVIOUS
  <2>1. /\ Range(registerChan) = Range(registerChan') \cup {c}
        /\ IsInjective(registerChan') /\ c \notin Range(registerChan')
    BY <1>2, <2>0, RangeTail DEF Base, RegChanHolds, RegInv, RegOnce, RegisterClient
  <2>2. lpc = "idle" /\ lc' = c /\ lpc' \in RegPc /\ UNCHANGED <<hs, conn>>
    BY <1>2, <2>0 DEF RegisterClient, connVars, objVars, RegPc
  <2>3. Live' = Live /\ \A d : (Waiting(d)' <=> Waiting(d)) /\ (IsUp(d)' <=> IsUp(d))
    BY <2>1, <2>2 DEF Live, Waiting, IsUp, RegPc
  <2> QED
    BY <2>1, <2>2, <2>3 DEF RegInv, RegOnce, Known
<1>3. ASSUME UNCHANGED registerChan, lpc' \in RegPc => (lpc \in RegPc /\ lc' = lc) \/ lc' \notin Client,
             \A d \in Live' \ Live : d \notin Range(registerChan) /\ (lpc \in RegPc => lc # d)
      PROVE  RegInv' /\ \A c : Known(c) => Known(c)'
  <2>1. \A d \in Live' : Waiting(d)' => Waiting(d) /\ d \in Live
    BY <1>3, LiveOK DEF Waiting, Live
  <2>2. \A d \in Live : IsUp(d) => IsUp(d)' /\ d \in Live'
    BY LiveKept
  <2>3. RegOnce'
    <3>1. \A d \in Range(registerChan) : d \in Client
      BY LiveOK DEF Base, RegChanHolds, Range
    <3> QED
      BY <1>3, <3>1 DEF RegInv, RegOnce
  <2> QED
    BY <2>1, <2>2, <2>3 DEF RegInv, Known
<1>4. ASSUME NEW n \in Conn, NEW c \in Client, ResetClient(n, c)
      PROVE  RegInv' /\ \A d : Known(d) => Known(d)'
  <2>1. UNCHANGED <<registerChan, lpc, lc>>
    BY <1>4 DEF ResetClient, chanVars, loopVars
  <2>2. c \notin Live /\ Live' \subseteq Live \cup {c}
    BY <1>4, GatewayAssumption DEF ResetClient, Available, Live, Base, TypeObj
  <2>3. c \notin Range(registerChan)
    BY <2>2 DEF Base, RegChanHolds, Range
  <2>4. lpc \in RegPc => lc # c
    BY <2>2, GatewayAssumption DEF Base, LoopHolds, RegPc
  <2> QED
    BY <1>3, <2>1, <2>2, <2>3, <2>4
<1>5. CASE ~(\E n \in Conn : Handler(n)) /\ ~RegisterClient
  <2>1. UNCHANGED <<registerChan, conn>>
    BY <1>5 DEF Next, Run, KickRPC, vars, ParseWSArgs, Reader, ReaderCloses,
      ReadRequest, CheckClosed, HandleMessage, ReadError, ReaderCloseCheck, ReaderCloseMark, ReaderCloseSend,
      KickHandler, Load, StoreDeleted, KickOld, LoopCloseMark, LoopCloseSend, KickTokens,
      StoreNew, SetOnline, UnregisterClient, StoreRemoved, SetOffline, MultiTerminalLoginCheck,
      KickUserOffline, KickUserConn, KickStore, KickCloseCheck, KickCloseMark, KickCloseSend, chanVars, objVars
  <2>2. Live' = Live
    BY <2>1 DEF Live
  <2>3. CASE UNCHANGED <<lpc, lc>>
    BY <1>3, <2>1, <2>2, <2>3
  <2>4. CASE Run /\ ~KickHandler
    <3>1. lpc' \in RegPc => lpc \in RegPc /\ lc' = lc
      BY <1>5, <2>4 DEF Run, Load, StoreDeleted, KickOld, LoopCloseMark, LoopCloseSend, KickTokens, StoreNew,
          SetOnline, UnregisterClient, StoreRemoved, SetOffline, AfterKick, RegPc
    <3> QED
      BY <1>3, <2>1, <2>2, <3>1
  <2>5. CASE KickHandler
    <3>1. lc' \notin Client \/ UNCHANGED <<lpc, lc>>
      BY <2>5, KickHead, GatewayAssumption DEF KickHandler
    <3> QED
      BY <1>3, <2>1, <2>2, <3>1
  <2> QED
    BY <2>3, <2>4, <2>5, Writers
<1> QED
  BY <1>1, <1>2, <1>4, <1>5 DEF Handler

LEMMA TableKnownStep ==
    ASSUME Base, KeptInv, ~Reuse, RegInv, HeldKnown, [Next]_vars
    PROVE  TableKnown'
<1>1. \A c : Known(c) => c \in Live /\ Known(c)' /\ UserID(c)' = UserID(c)
  BY RegStep, LiveKept DEF Known
<1>2. ASSUME NEW u \in User, NEW cs, table' = [table EXCEPT ![u] = cs],
             \A c \in cs : Known(c)' /\ UserID(c)' = u
      PROVE  TableKnown'
  <2>1. table'[u] = cs /\ \A v \in User : v # u => table'[v] = table[v]
    BY <1>2 DEF Base, TableHolds
  <2> QED
    BY <1>1, <1>2, <2>1 DEF TableKnown, HeldKnown
<1>3. CASE UNCHANGED table
  BY <1>1, <1>3 DEF TableKnown, HeldKnown
<1>4. CASE StoreDeleted \/ StoreNew \/ StoreRemoved
  <2>1. WorkUser \in User /\ lpc \in StorePc
    BY <1>4, WorkOK DEF StoreDeleted, StoreNew, StoreRemoved, StorePc
  <2>2. \A c \in lsnap : Known(c)' /\ UserID(c)' = WorkUser
    BY <1>1, <2>1 DEF HeldKnown, SnapKnown
  <2>3. CASE StoreDeleted \/ StoreRemoved
    <3>1. \A gone : \A c \in Without(lsnap, gone) : Known(c)' /\ UserID(c)' = WorkUser
      BY <2>2, WithoutSubset
    <3> QED
      BY <1>2, <1>3, <2>1, <2>3, <3>1 DEF StoreDeleted, StoreRemoved
  <2>4. CASE StoreNew
    <3>1. /\ lc \in Live /\ lc \in Client /\ UserID(lc) = WorkUser
          /\ UNCHANGED <<registerChan, hs, conn>> /\ lpc = "setStore" /\ lpc' = "online"
      BY <2>4, LiveOK DEF Base, LoopHolds, OwnPc, WorkUser, StoreNew, connVars, chanVars, objVars
    <3>2. Waiting(lc) /\ IsUp(lc)
      BY <3>1 DEF Waiting, RegPc, RegInv
    <3>3. lc \notin Range(registerChan)
      BY <3>1 DEF RegInv, RegOnce, RegPc
    <3>4. Known(lc)' /\ UserID(lc)' = WorkUser
      <4>1. lc' = lc
        BY <2>4 DEF StoreNew
      <4>2. ASSUME NEW d, d = lc PROVE Known(d)' /\ UserID(d)' = WorkUser
        BY <3>1, <3>2, <3>3, <4>2 DEF Known, Live, IsUp, Waiting, RegPc, UserID
      <4> QED
        BY <4>1, <4>2
    <3>5. \A c \in lsnap \cup {lc} : Known(c)' /\ UserID(c)' = WorkUser
      <4>1. lc' = lc
        BY <2>4 DEF StoreNew
      <4> QED
        BY <2>2, <3>4, <4>1
    <3> QED
      BY <1>2, <2>1, <2>4, <3>5 DEF StoreNew, With
  <2> QED
    BY <1>4, <2>3, <2>4
<1>5. ASSUME NEW k \in Kick, KickStore(k)
      PROVE  TableKnown'
  <2>1. kcur[k] \in Live /\ UserID(kcur[k]) \in User /\ kpc[k] = "store"
    BY <1>5, FieldsOK DEF Base, KicksHold, KickStore
  <2>2. \A c \in ksnap[k] : Known(c)' /\ UserID(c)' = UserID(kcur[k])
    BY <1>1, <2>1 DEF HeldKnown, CallsKnown
  <2>3. \A c \in Without(ksnap[k], {kcur[k]}) : Known(c)' /\ UserID(c)' = UserID(kcur[k])
    BY <2>2, WithoutSubset
  <2> QED
    BY <1>2, <1>3, <1>5, <2>1, <2>3 DEF KickStore
<1> QED
  BY <1>3, <1>4, <1>5, Writers

LEMMA SnapKnownStep ==
    ASSUME Base, KeptInv, ~Reuse, RegInv, HeldKnown, [Next]_vars
    PROVE  SnapKnown'
<1>1. \A c : Known(c) => c \in Live /\ Known(c)' /\ UserID(c)' = UserID(c)
  BY RegStep, LiveKept DEF Known
<1>2. CASE Load
  <2>1. lpc # "idle" /\ lc' = lc /\ lsnap' = table[WorkUser] /\ WorkUser \in User
    BY <1>2, WorkOK DEF Load
  <2>2. WorkUser' = WorkUser
    BY <2>1, LiveKept
  <2> QED
    BY <1>1, <2>1, <2>2 DEF HeldKnown, TableKnown, SnapKnown
<1>3. CASE UNCHANGED lsnap /\ (lpc' \in StorePc => lpc' = lpc /\ lc' = lc)
  <2>1. lpc' \in StorePc => WorkUser' = WorkUser /\ lpc \in StorePc
    BY <1>3, LiveKept DEF StorePc
  <2> QED
    BY <1>1, <1>3, <2>1 DEF HeldKnown, SnapKnown
<1> QED
  BY <1>2, <1>3, Writers

LEMMA CallsKnownStep ==
    ASSUME Base, KeptInv, ~Reuse, RegInv, HeldKnown, [Next]_vars
    PROVE  CallsKnown'
<1>1. \A c : Known(c) => c \in Live /\ Known(c)' /\ UserID(c)' = UserID(c)
  BY RegStep, LiveKept DEF Known
<1>2. CASE UNCHANGED kickVars
  <2>1. \A k \in Kick : kpc[k] = "store" => UserID(kcur[k])' = UserID(kcur[k])
    <3> SUFFICES ASSUME NEW k \in Kick, kpc[k] = "store" PROVE UserID(kcur[k])' = UserID(kcur[k])
      OBVIOUS
    <3>1. kcur[k] \in Live /\ kcur'[k] = kcur[k]
      BY <1>2 DEF Base, KicksHold, kickVars
    <3>2. conn'[kcur[k]] = conn[kcur[k]]
      BY <3>1, LiveKept
    <3> QED
      BY <3>1, <3>2 DEF UserID
  <2>2. UNCHANGED <<kpc, kold, ksnap>>
    BY <1>2 DEF kickVars
  <2> QED
    BY <1>1, <2>1, <2>2 DEF HeldKnown, CallsKnown
<1>3. ASSUME NEW k \in Kick, KickRPC(k), NEW j \in Kick
      PROVE  /\ \A c \in ksnap'[j] : Known(c)' /\ (kpc'[j] = "store" => UserID(c)' = UserID(kcur[j])')
             /\ \A c \in kold'[j] : Known(c)'
  <2>1. UNCHANGED conn
    BY <1>3, LoopFrame
  <2>2. CASE j # k
    <3>1. kpc'[j] = kpc[j] /\ kold'[j] = kold[j] /\ ksnap'[j] = ksnap[j] /\ kcur'[j] = kcur[j]
      BY <1>3, <2>2 DEF KickRPC, KickUserOffline, KickUserConn, KickStore, KickCloseCheck, KickCloseMark,
          KickCloseSend, KGoto, Base, KindsOK, KicksHold, TypeKick
    <3>2. UserID(kcur[j])' = UserID(kcur[j])
      BY <2>1, <3>1 DEF UserID
    <3> QED
      BY <1>1, <3>1, <3>2 DEF HeldKnown, CallsKnown
  <2>3. CASE j = k
    <3>1. CASE KickUserOffline(k)
      <4>1. /\ kold'[k] = Get(KickUser[k], KickPlatform[k]) /\ ksnap'[k] = ksnap[k] /\ kpc'[k] = "next"
            /\ KickUser[k] \in User
        BY <3>1, GatewayAssumption DEF KickUserOffline, KGoto, Base, KindsOK, KicksHold
      <4>2. \A c \in kold'[k] : Known(c)
        BY <4>1 DEF Get, HeldKnown, TableKnown
      <4> QED
        BY <1>1, <2>3, <4>1, <4>2 DEF HeldKnown, CallsKnown
    <3>2. CASE KickUserConn(k)
      <4>1. kold'[k] = kold[k]
        BY <3>2 DEF KickUserConn
      <4>2. CASE kold[k] = {}
        <5>1. ksnap'[k] = ksnap[k] /\ kpc'[k] = "done"
          BY <3>2, <4>2 DEF KickUserConn, KGoto, Base, KindsOK
        <5> QED
          BY <1>1, <2>3, <4>1, <5>1 DEF HeldKnown, CallsKnown
      <4>3. CASE kold[k] # {}
        <5>1. PICK c \in kold[k] : kcur'[k] = c /\ ksnap'[k] = table[UserID(c)]
          BY <3>2, <4>3 DEF KickUserConn, Base, TypeKick, KicksHold
        <5>2. UserID(c) \in User /\ UserID(kcur[k])' = UserID(c)
          BY <2>1, <5>1, FieldsOK DEF Base, KicksHold, UserID
        <5>3. \A d \in ksnap'[k] : Known(d) /\ UserID(d) = UserID(c)
          BY <5>1, <5>2 DEF HeldKnown, TableKnown
        <5> QED
          BY <1>1, <2>3, <4>1, <5>2, <5>3 DEF HeldKnown, CallsKnown
      <4> QED
        BY <4>2, <4>3
    <3>3. CASE KickStore(k) \/ KickCloseCheck(k) \/ KickCloseMark(k) \/ KickCloseSend(k)
      <4>1. kold'[k] \subseteq kold[k] /\ ksnap'[k] = ksnap[k] /\ kpc'[k] # "store"
        BY <3>3 DEF KickStore, KickCloseCheck, KickCloseMark, KickCloseSend, KGoto, Base, KindsOK, KicksHold
      <4> QED
        BY <1>1, <2>3, <4>1 DEF HeldKnown, CallsKnown
    <3> QED
      BY <1>3, <3>1, <3>2, <3>3 DEF KickRPC
  <2> QED
    BY <2>2, <2>3
<1> QED
  BY <1>2, <1>3, Writers DEF CallsKnown

LEMMA ChanKnownStep ==
    ASSUME Base, KeptInv, ~Reuse, RegInv, HeldKnown, [Next]_vars
    PROVE  ChanKnown'
<1>1. \A c : Known(c) => c \in Live /\ Known(c)' /\ UserID(c)' = UserID(c) /\ PlatformID(c)' = PlatformID(c)
  BY RegStep, LiveKept DEF Known
<1>2. remote' \subseteq remote
  BY Writers
<1>3. \A x : LoginOf(x) => LoginOf(x)'
  BY <1>1, <1>2 DEF LoginOf
<1>4. CASE UNCHANGED kickHandlerChan
  BY <1>3, <1>4 DEF HeldKnown, ChanKnown
<1>5. CASE KickHandler
  <2>1. Range(kickHandlerChan') \subseteq Range(kickHandlerChan)
    BY <1>5, RangeTail DEF KickHandler, Base, KickChanHolds
  <2> QED
    BY <1>3, <2>1 DEF HeldKnown, ChanKnown
<1>6. ASSUME NEW r \in Remote, MultiTerminalLoginCheck(r)
      PROVE  ChanKnown'
  <2>1. PICK x : x = [old |-> Get(r.user, r.platform), login |-> r]
    OBVIOUS
  <2>2. r.user \in User /\ x \in Held
    BY <2>1, GetLive, GatewayAssumption DEF Held
  <2>3. Range(kickHandlerChan') \subseteq Range(kickHandlerChan) \cup {x}
    BY <1>6, <2>1, <2>2, RangeAppend DEF Base, KickChanHolds, MultiTerminalLoginCheck
  <2>4. \A c \in x.old : Known(c) /\ UserID(c) = r.user /\ PlatformID(c) = r.platform
    BY <2>1, <2>2 DEF Get, HeldKnown, TableKnown
  <2>5. r \notin remote'
    BY <1>6 DEF MultiTerminalLoginCheck
  <2>6. LoginOf(x)'
    BY <1>1, <2>1, <2>4, <2>5 DEF LoginOf
  <2> QED
    BY <1>3, <2>3, <2>6 DEF HeldKnown, ChanKnown
<1> QED
  BY <1>4, <1>5, <1>6, Writers

LEMMA OldKnownStep ==
    ASSUME Base, KeptInv, ~Reuse, RegInv, HeldKnown, [Next]_vars
    PROVE  OldKnown' /\ WorkGone'
<1>1. \A c : Known(c) => c \in Live /\ Known(c)' /\ UserID(c)' = UserID(c) /\ PlatformID(c)' = PlatformID(c)
  BY RegStep, LiveKept DEF Known
<1>2. remote' \subseteq remote /\ remote \subseteq Remote
  BY Writers DEF Base, TypeRest
<1>3. ASSUME lpc # "idle", lc' = lc, lold' \subseteq lold,
             lpc' \in {"mark", "send"} => lcur' \in lold',
             lpc' \notin {"delLoad", "delStore", "kick", "mark", "send"} => lold' = {}
      PROVE  OldKnown' /\ WorkGone'
  <2>1. WorkUser' = WorkUser /\ WorkPlatform' = WorkPlatform
    BY <1>3, LiveKept
  <2> QED
    BY <1>1, <1>2, <1>3, <2>1 DEF HeldKnown, OldKnown, WorkGone
<1>4. CASE lpc = "idle" /\ UNCHANGED <<lpc, lc, lold, lcur>>
  BY <1>4 DEF HeldKnown, OldKnown, WorkGone
<1>5. CASE lpc # "idle" /\ UNCHANGED <<lpc, lc, lold, lcur>>
  BY <1>3, <1>5 DEF HeldKnown, OldKnown
<1>6. CASE Load \/ StoreDeleted \/ KickOld \/ LoopCloseMark \/ LoopCloseSend \/ KickTokens \/ StoreNew
           \/ SetOnline \/ StoreRemoved \/ SetOffline
  <2>1. lpc # "idle" /\ lc' = lc /\ lold' \subseteq lold
    BY <1>6 DEF Load, StoreDeleted, KickOld, LoopCloseMark, LoopCloseSend, KickTokens, StoreNew, SetOnline,
        StoreRemoved, SetOffline
  <2>2. lpc' \in {"mark", "send"} => lcur' \in lold'
    BY <1>6 DEF Load, StoreDeleted, KickOld, LoopCloseMark, LoopCloseSend, KickTokens, StoreNew, SetOnline,
        StoreRemoved, SetOffline, AfterKick, HeldKnown, OldKnown
  <2>3. lpc' \notin {"delLoad", "delStore", "kick", "mark", "send"} => lold' = {}
    BY <1>6 DEF Load, StoreDeleted, KickOld, LoopCloseMark, LoopCloseSend, KickTokens, StoreNew, SetOnline,
        StoreRemoved, SetOffline, AfterKick, HeldKnown, OldKnown
  <2> QED
    BY <1>3, <2>1, <2>2, <2>3
<1>7. CASE RegisterClient
  <2>0. PICK c : c = Head(registerChan)
    OBVIOUS
  <2>1. /\ c \in Live /\ c \in Client /\ lpc = "idle" /\ lc' = c /\ lpc' \in {"delLoad", "setLoad"}
        /\ lpc' = "setLoad" => lold' = lold
        /\ lpc' = "delLoad" => lold' = Get(UserID(c), PlatformID(c))
        /\ UNCHANGED conn
    BY <1>7, <2>0, RegisterHead, LiveOK DEF RegisterClient, objVars
  <2>2. WorkUser' = UserID(c) /\ WorkPlatform' = PlatformID(c)
    BY <2>1 DEF WorkUser, WorkPlatform, UserID, PlatformID
  <2>3. \A d \in Get(UserID(c), PlatformID(c)) : Known(d) /\ UserID(d) = UserID(c) /\ PlatformID(d) = PlatformID(c)
    BY <2>1, FieldsOK DEF Get, HeldKnown, TableKnown
  <2>4. lold = {}
    BY <2>1 DEF HeldKnown, OldKnown
  <2>5. OldKnown'
    BY <1>1, <2>1, <2>2, <2>3, <2>4 DEF OldKnown
  <2>6. lc' \notin remote'
    BY <1>2, <2>1, GatewayAssumption
  <2> QED
    BY <2>5, <2>6 DEF WorkGone
<1>8. CASE KickHandler
  <2>0. PICK x : x = Head(kickHandlerChan)
    OBVIOUS
  <2>1. x.login \in Remote /\ x.login \notin Client /\ x \in Range(kickHandlerChan)
    BY <1>8, <2>0, KickHead, RangeTail, GatewayAssumption DEF KickHandler, Base, KickChanHolds
  <2>2. CASE UNCHANGED <<lc, lpc, lold>>
    BY <1>4, <1>8, <2>2 DEF KickHandler
  <2>3. CASE lc' = x.login /\ lpc' = "delLoad" /\ lold' = x.old
    <3>1. WorkUser' = x.login.user /\ WorkPlatform' = x.login.platform
      BY <2>1, <2>3 DEF WorkUser, WorkPlatform
    <3>2. LoginOf(x)
      BY <2>1 DEF HeldKnown, ChanKnown
    <3> QED
      BY <1>1, <1>2, <2>3, <3>1, <3>2 DEF OldKnown, WorkGone, LoginOf
  <2> QED
    BY <1>8, <2>0, <2>2, <2>3 DEF KickHandler
<1>9. CASE UnregisterClient
  <2>1. lc' \in Live /\ lpc = "idle" /\ lpc' = "unLoad" /\ lold' = lold
    BY <1>9, UnregisterHead DEF UnregisterClient
  <2>2. lold = {}
    BY <2>1 DEF HeldKnown, OldKnown
  <2>3. lc' \notin remote'
    BY <1>2, <2>1, LiveOK, GatewayAssumption
  <2> QED
    BY <2>1, <2>2, <2>3 DEF OldKnown, WorkGone
<1> QED
  BY <1>4, <1>5, <1>6, <1>7, <1>8, <1>9, Writers DEF Run

\* The token of a replaced connection is dead, or the login in whose favour it
\* was replaced has it; and until then the event loop is about to mark it.
Lasting(n) == \/ tokens[TokenOf[n]] = "kicked"
              \/ \E k \in Conn \ replaced : hs[k] = "up" /\ TokenOf[k] = TokenOf[n]
              \/ \E r \in Remote \ remote : r.token = TokenOf[n]
Pending(n) == /\ lpc \in {"kick", "mark", "send", "tokens"}
              /\ TokenOf[n] \in TokensOf(WorkUser, WorkPlatform)
ReplacedKnown == \A n \in replaced : \E c \in Live : conn[c] = n /\ Known(c)
TokensDue == faults = 0 => \A n \in replaced : Lasting(n) \/ Pending(n)
TokenInv  == ReplacedKnown /\ TokensDue

LEMMA FaultsKept ==
    ASSUME Base, [Next]_vars, faults' = 0
    PROVE  faults = 0
<1>1. faults' = faults \/ faults' = faults + 1
  BY DEF Next, Handler, Run, KickRPC, vars, ParseWSArgs, ResetClient, Accept, Reader, ReaderCloses,
      ReadRequest, CheckClosed, HandleMessage, ReadError, ReaderCloseCheck, ReaderCloseMark, ReaderCloseSend,
      RegisterClient, KickHandler, Load, StoreDeleted, KickOld, LoopCloseMark, LoopCloseSend, KickTokens,
      StoreNew, SetOnline, UnregisterClient, StoreRemoved, SetOffline, MultiTerminalLoginCheck,
      KickUserOffline, KickUserConn, KickStore, KickCloseCheck, KickCloseMark, KickCloseSend, Ok, Fails
<1> QED
  BY <1>1 DEF Base, KindsOK

LEMMA TokenStep ==
    ASSUME Base, KeptInv, ~Reuse, RegInv, HeldKnown, TokenInv, [Next]_vars
    PROVE  TokenInv'
<1>1. \A c : Known(c) => c \in Live' /\ Known(c)' /\ conn'[c] = conn[c]
  BY RegStep, LiveKept DEF Known
<1>2. replaced \subseteq Conn /\ \A n \in replaced : \E c \in Live' : conn'[c] = n /\ Known(c)'
  BY <1>1 DEF TokenInv, ReplacedKnown, Base, KindsOK
<1>3. CASE LoopCloseMark
  <2>1. PICK m : m = conn[lcur]
    OBVIOUS
  <2>2. /\ Known(lcur) /\ lcur \in Live /\ UserOf[m] = WorkUser /\ PlatformOf[m] = WorkPlatform /\ m \in Conn
        /\ lpc = "mark" /\ lpc' = "send" /\ replaced' = replaced \cup {m}
        /\ UNCHANGED <<lc, hs, tokens, remote, faults>>
    BY <1>3, <2>1, LiveOK DEF LoopCloseMark, HeldKnown, OldKnown, Known, UserID, PlatformID, redisVars
  <2>3. WorkUser' = WorkUser /\ WorkPlatform' = WorkPlatform
    BY <2>2, LiveKept
  <2>4. \A n : Pending(n)' <=> TokenOf[n] \in TokensOf(WorkUser, WorkPlatform)
    BY <2>2, <2>3 DEF Pending, TokensOf
  <2>5. Pending(m)'
    <3>1. TokenOf[m] \in TokensOf(WorkUser, WorkPlatform)
      BY <2>2 DEF TokensOf
    <3> QED
      BY <2>4, <3>1
  <2>6. ReplacedKnown'
    BY <1>1, <1>2, <2>1, <2>2 DEF ReplacedKnown
  <2>7. ASSUME NEW n \in replaced, Lasting(n)
        PROVE  Lasting(n)' \/ Pending(n)'
    <3>1. CASE \E k \in Conn \ replaced : hs[k] = "up" /\ TokenOf[k] = TokenOf[n]
      <4>1. PICK k \in Conn \ replaced : hs[k] = "up" /\ TokenOf[k] = TokenOf[n]
        BY <3>1
      <4>2. CASE k = m
        BY <2>4, <2>5, <4>1, <4>2
      <4>3. CASE k # m
        BY <2>2, <4>1, <4>3 DEF Lasting
      <4> QED
        BY <4>2, <4>3
    <3>2. CASE tokens[TokenOf[n]] = "kicked" \/ \E r \in Remote \ remote : r.token = TokenOf[n]
      BY <2>2, <3>2 DEF Lasting
    <3> QED
      BY <2>7, <3>1, <3>2 DEF Lasting
  <2>8. ASSUME NEW n \in replaced, Pending(n)
        PROVE  Pending(n)'
    BY <2>4, <2>8 DEF Pending
  <2>9. TokensDue'
    BY <2>2, <2>5, <2>7, <2>8 DEF TokenInv, TokensDue
  <2> QED
    BY <2>6, <2>9 DEF TokenInv
<1>4. CASE ~LoopCloseMark
  <2>1. UNCHANGED replaced
    BY <1>4, Writers
  <2>2. ReplacedKnown'
    BY <1>2, <2>1 DEF ReplacedKnown
  <2>3. remote' \subseteq remote /\ \A k \in Conn : hs[k] = "up" => hs'[k] = "up"
    BY Writers, LiveKept
  <2>4. ASSUME NEW n \in replaced, Lasting(n), tokens[TokenOf[n]] = "kicked" => tokens'[TokenOf[n]] = "kicked"
        PROVE  Lasting(n)'
    BY <2>1, <2>3, <2>4 DEF Lasting
  <2>5. CASE KickTokens
    <3>1. lpc = "tokens" /\ lc' = lc /\ UNCHANGED <<hs, remote>> /\ lpc # "idle"
      BY <2>5 DEF KickTokens, connVars
    <3>2. ASSUME faults' = 0, NEW n \in replaced
          PROVE  Lasting(n)'
      <4>1. faults = 0 /\ n \in Conn /\ TokenOf[n] \in Token
        BY <1>2, <3>2, FaultsKept, GatewayAssumption
      <4>2. tokens' = [t \in Token |-> IF t \in TokensOf(WorkUser, WorkPlatform)
                                        THEN NewTokenStatus(t) ELSE tokens[t]]
        BY <2>5, <3>2, <4>1 DEF KickTokens, Ok, Fails
      <4>3. CASE Lasting(n)
        BY <2>4, <4>1, <4>2, <4>3 DEF NewTokenStatus
      <4>4. CASE TokenOf[n] \in TokensOf(WorkUser, WorkPlatform) /\ TokenOf[n] # WorkToken
        BY <4>1, <4>2, <4>4 DEF NewTokenStatus, Lasting
      <4>5. CASE TokenOf[n] = WorkToken /\ lc \in Client
        <5>1. lc \in Live /\ Waiting(lc)
          BY <3>1, <4>5, GatewayAssumption DEF Base, LoopHolds, Waiting, RegPc
        <5>2. conn[lc] \in Conn /\ hs[conn[lc]] = "up"
          BY <5>1, LiveOK DEF RegInv, IsUp
        <5>3. conn[lc] \notin replaced
          BY <5>1, ConnInjective DEF TokenInv, ReplacedKnown, Known
        <5>4. TokenOf[conn[lc]] = TokenOf[n]
          BY <4>5 DEF WorkToken
        <5> QED
          BY <2>1, <3>1, <5>2, <5>3, <5>4 DEF Lasting
      <4>6. CASE TokenOf[n] = WorkToken /\ lc \notin Client
        <5>1. lc \in Remote \ remote
          BY <3>1, <4>6, LiveOK DEF Base, LoopHolds, HeldKnown, WorkGone
        <5>2. lc.token = TokenOf[n]
          BY <4>6 DEF WorkToken
        <5> QED
          BY <3>1, <5>1, <5>2 DEF Lasting
      <4> QED
        BY <4>1, <4>3, <4>4, <4>5, <4>6 DEF TokenInv, TokensDue, Pending
    <3> QED
      BY <2>1, <2>2, <3>2 DEF TokenInv, TokensDue
  <2>6. CASE ~KickTokens
    <3>1. UNCHANGED tokens
      BY <2>6, Writers
    <3>2. lpc \in {"kick", "mark", "send", "tokens"} =>
              lc' = lc /\ lpc' \in {"kick", "mark", "send", "tokens"}
      <4>1. CASE Run
        BY <1>4, <2>6, <4>1 DEF Run, RegisterClient, KickHandler, Load, StoreDeleted, KickOld, LoopCloseSend,
            StoreNew, SetOnline, UnregisterClient, StoreRemoved, SetOffline
      <4> QED
        BY <4>1, Writers
    <3>3. \A n \in replaced : Lasting(n) => Lasting(n)'
      BY <2>4, <3>1
    <3>4. ASSUME NEW n \in replaced, Pending(n)
          PROVE  Pending(n)'
      <4>1. lc' = lc /\ lpc # "idle" /\ lpc' \in {"kick", "mark", "send", "tokens"}
        BY <3>2, <3>4 DEF Pending
      <4>2. WorkUser' = WorkUser /\ WorkPlatform' = WorkPlatform
        BY <4>1, LiveKept
      <4> QED
        BY <3>4, <4>1, <4>2 DEF Pending, TokensOf
    <3> QED
      BY <2>1, <2>2, <3>3, <3>4, FaultsKept DEF TokenInv, TokensDue
  <2> QED
    BY <2>5, <2>6
<1> QED
  BY <1>3, <1>4

LEMMA InitToken == Init => RegInv /\ HeldKnown /\ TokenInv
<1> SUFFICES ASSUME Init PROVE RegInv /\ HeldKnown /\ TokenInv
  OBVIOUS
<1>1. Live = {}
  BY GatewayAssumption DEF Init, Live
<1>2. Range(kickHandlerChan) = {} /\ Range(registerChan) = {}
  BY DEF Init, Range
<1>3. RegInv
  BY <1>1 DEF RegInv, RegOnce, IsInjective, Init, RegPc
<1>4. TableKnown /\ SnapKnown /\ CallsKnown
  BY DEF Init, TableKnown, SnapKnown, CallsKnown
<1>5. ChanKnown /\ OldKnown /\ WorkGone
  BY <1>2 DEF Init, ChanKnown, OldKnown, WorkGone
<1> QED
  BY <1>3, <1>4, <1>5 DEF HeldKnown, TokenInv, ReplacedKnown, TokensDue, Init

\* A device that was replaced by a newer login cannot come back with its token
\* and replace its successor: whatever hangs up, whatever KickUserOffline does
\* to the table meanwhile, and in whatever order logins arrive here and at other
\* nodes, as long as objects are not reused and no call to Redis fails.
THEOREM ReplacedTokenDeadHolds ==
    ASSUME ~Reuse
    PROVE  Spec => []ReplacedTokenDead
<1>1. OwnObjects => KeptInv
  BY DEF OwnObjects, Trusted
<1>2. Base /\ KeptInv /\ RegInv /\ HeldKnown /\ TokenInv /\ [Next]_vars => (RegInv /\ HeldKnown /\ TokenInv)'
  <2> SUFFICES ASSUME Base, KeptInv, RegInv, HeldKnown, TokenInv, [Next]_vars
               PROVE  (RegInv /\ HeldKnown /\ TokenInv)'
    OBVIOUS
  <2>1. RegInv' /\ TokenInv'
    BY RegStep, TokenStep
  <2>2. TableKnown' /\ SnapKnown' /\ CallsKnown' /\ ChanKnown' /\ OldKnown' /\ WorkGone'
    BY TableKnownStep, SnapKnownStep, CallsKnownStep, ChanKnownStep, OldKnownStep
  <2> QED
    BY <2>1, <2>2 DEF HeldKnown
<1>3. TokenInv => ReplacedTokenDead
  BY DEF TokenInv, TokensDue, ReplacedTokenDead, Lasting, Pending, Settled
<1> QED
  BY <1>1, <1>2, <1>3, InitToken, BaseHolds, OwnObjectsHold, PTL DEF Spec

==============================================================================
