----------------------------- MODULE PushProofs -----------------------------
(***************************************************************************)
(* Proofs about Push, for every set of users, devices, gateways and        *)
(* scenarios, and for any number of messages, membership changes, failures *)
(* and restarts: no receiver is forgotten, the member list of a push is    *)
(* fresh but for the exceptions ListFresh names, and a leaver is bounded.  *)
(*                                                                         *)
(* Base is the invariant all three start from.  Each has one of its own    *)
(* beside it: ServedInv follows a push from the list to its end, ListInv   *)
(* the two cache entries, what a push has read of them and the local list, *)
(* LeaverInv the two writers of a leaver's limit.                          *)
(***************************************************************************)
EXTENDS Push, TLAPS

\* A function on the messages.
OnMsg(f) == f = [m \in Msg |-> f[m]]
Maps == /\ OnMsg(pc) /\ OnMsg(hash) /\ OnMsg(list) /\ OnMsg(val) /\ OnMsg(to)
        /\ OnMsg(wait) /\ OnMsg(got) /\ OnMsg(reached) /\ OnMsg(handed)
        /\ OnMsg(owed) /\ OnMsg(barred)

\* What the group service is about to do.
At == IF svc = <<>> THEN "idle" ELSE Head(svc)

Asks == {"none", "chat", "single", "quit", "kick", "join", "dismiss"}
Word == {"send", "delete", "create", "mark", "flushHash", "flushIds", "flushInfo", "notify",
         "readMax", "setMax", "lift"}
Leaving == <<"delete", "flushHash", "flushIds", "flushInfo", "notify", "readMax", "setMax">>
Joining == <<"create", "flushHash", "flushIds", "flushInfo", "lift">>
Plan(k) == CASE k \in {"chat", "single"} -> <<"send">>
             [] k \in {"quit", "kick"} -> Leaving
             [] k = "join" -> Joining
             [] k = "dismiss" -> <<"mark", "notify">>
             [] OTHER -> <<>>
SuffixOf(s, t) == /\ s \in Seq(Word)
                  /\ Len(s) <= Len(t)
                  /\ \A i \in 1..Len(s) : s[i] = t[Len(t) - Len(s) + i]

SvcInv == /\ SuffixOf(svc, Plan(asked.kind))
          /\ asked.kind \in Asks /\ asked.user \in User /\ asked.by \in User
          /\ ask \in Seq(Request)

\* What comes after a step.
After(k, s) == CASE s = "delete" -> "flushHash"
                 [] s = "create" -> "flushHash"
                 [] s = "flushHash" -> "flushIds"
                 [] s = "flushIds" -> "flushInfo"
                 [] s = "flushInfo" -> IF k = "join" THEN "lift" ELSE "notify"
                 [] s = "notify" -> IF k = "dismiss" THEN "idle" ELSE "readMax"
                 [] s = "readMax" -> "setMax"
                 [] s = "mark" -> "notify"
                 [] OTHER -> "idle"

LogInv == /\ log \in Seq([kind : Kinds, from : User, user : User, seq : Int])
          /\ Len(log) \in 0..MaxMsgs /\ maxSeq \in Nat
          /\ next \in 1..(Len(log) + 1)
          /\ committed \in 1..next

\* The dismissal is the only part of a push that survives a crash.
PlaceInv ==
    \A m \in Msg :
        /\ m > Len(log) => pc[m] = "none"
        /\ Dismissing(m) => log[m].kind = "goneTip"
        /\ m >= next /\ m <= Len(log) /\ log[m].kind # "goneTip" => pc[m] = "none"
        /\ pc[m] = "setMax" => log[m].kind \in LeftKinds

Base == Maps /\ SvcInv /\ LogInv /\ PlaceInv

-----------------------------------------------------------------------------
(* The group service.                                                      *)

LEMMA EmptyLen == \A S : \A s \in Seq(S) : s = <<>> <=> Len(s) = 0
OBVIOUS

LEMMA TailSuffix ==
    ASSUME NEW s, NEW t \in Seq(Word), SuffixOf(s, t), s # <<>>
    PROVE  /\ SuffixOf(Tail(s), t)
           /\ Len(Tail(s)) = Len(s) - 1
           /\ Head(s) = t[Len(t) - Len(s) + 1]
           /\ Tail(s) # <<>> => Head(Tail(s)) = t[Len(t) - Len(s) + 2]
<1>1. s \in Seq(Word) /\ Len(s) \in Nat /\ Len(s) > 0 /\ Len(t) \in Nat
  BY DEF SuffixOf
<1>2. Tail(s) \in Seq(Word) /\ Len(Tail(s)) = Len(s) - 1
  BY <1>1
<1>3. \A i \in 1..Len(Tail(s)) : Tail(s)[i] = s[i + 1]
  BY <1>1
<1>4. \A i \in 1..Len(Tail(s)) : Tail(s)[i] = t[Len(t) - Len(Tail(s)) + i]
  BY <1>1, <1>2, <1>3 DEF SuffixOf
<1>5. Head(s) = t[Len(t) - Len(s) + 1]
  BY <1>1 DEF SuffixOf
<1>6. ASSUME Tail(s) # <<>>
      PROVE  Head(Tail(s)) = t[Len(t) - Len(s) + 2]
  <2>1. Len(Tail(s)) > 0 /\ Head(Tail(s)) = Tail(s)[1]
    BY <1>2, <1>6
  <2>2. 1 \in 1..Len(Tail(s))
    BY <1>1, <1>2, <2>1
  <2>a. Tail(s)[1] = t[Len(t) - Len(Tail(s)) + 1]
    BY <1>4, <2>2
  <2>3. Len(t) - Len(Tail(s)) + 1 = Len(t) - Len(s) + 2
    BY <1>1, <1>2
  <2> QED
    BY <2>1, <2>a, <2>3
<1> QED
  BY <1>1, <1>2, <1>4, <1>5, <1>6 DEF SuffixOf

LEMMA PlanType == \A k \in Asks : Plan(k) \in Seq(Word)
<1>1. /\ <<"send">> \in Seq(Word) /\ <<"mark", "notify">> \in Seq(Word) /\ <<>> \in Seq(Word)
      /\ Leaving \in Seq(Word) /\ Joining \in Seq(Word)
  BY DEF Leaving, Joining, Word
<1> QED
  BY <1>1 DEF Plan, Asks

\* A step of the service, and what it is about to do then.
LEMMA ServiceMoves ==
    ASSUME SvcInv, NEW s, SvcStep(s), asked' = asked, ask' = ask
    PROVE  /\ SvcInv'
           /\ At = s
           /\ At' = After(asked.kind, s)
           /\ s \in {"delete", "readMax", "setMax"} => asked.kind \in {"quit", "kick"}
           /\ s \in {"create", "lift"} => asked.kind = "join"
           /\ s \in {"flushHash", "flushIds", "flushInfo"} => asked.kind \in {"quit", "kick", "join"}
           /\ s = "send" => asked.kind \in {"chat", "single"}
           /\ s = "mark" => asked.kind = "dismiss"
           /\ s = "notify" => asked.kind \in {"quit", "kick", "dismiss"}
<1>1. svc # <<>> /\ Head(svc) = s /\ svc' = Tail(svc)
  BY DEF SvcStep
<1>2. PICK t \in Seq(Word) : t = Plan(asked.kind)
  BY PlanType DEF SvcInv
<1>3. /\ SuffixOf(Tail(svc), t)
      /\ Len(Tail(svc)) = Len(svc) - 1
      /\ Head(svc) = t[Len(t) - Len(svc) + 1]
      /\ Tail(svc) # <<>> => Head(Tail(svc)) = t[Len(t) - Len(svc) + 2]
  BY <1>1, <1>2, TailSuffix DEF SvcInv
<1>4. Len(svc) \in Nat /\ Len(svc) > 0 /\ Len(svc) <= Len(t) /\ svc \in Seq(Word)
  BY <1>1, <1>2 DEF SvcInv, SuffixOf
<1>5. Tail(svc) = <<>> <=> Len(svc) = 1
  <2>1. Tail(svc) \in Seq(Word)
    BY <1>3 DEF SuffixOf
  <2>2. Tail(svc) = <<>> <=> Len(Tail(svc)) = 0
    BY <2>1, EmptyLen
  <2> QED
    BY <2>2, <1>3, <1>4
<1> HIDE DEF SvcInv, SuffixOf, SvcStep
<1>a. PICK n \in Nat : n = Len(svc)
  BY <1>4
<1>b. n > 0 /\ Head(svc) = t[Len(t) - n + 1]
  BY <1>a, <1>3, <1>4
<1>6. SvcInv'
  BY <1>1, <1>2, <1>3 DEF SvcInv
<1>7. At = s
  BY <1>1 DEF At
<1>8. At' = IF n = 1 THEN "idle" ELSE t[Len(t) - n + 2]
  BY <1>1, <1>3, <1>5, <1>a DEF At
<1>9. CASE asked.kind \in {"chat", "single"}
  <2>1. t = <<"send">> /\ Len(t) = 1
    BY <1>2, <1>9 DEF Plan
  <2>2. n = 1
    BY <1>4, <1>a, <1>b, <2>1
  <2> QED
    BY <2>1, <2>2, <1>1, <1>b, <1>6, <1>7, <1>8, <1>9 DEF After
<1>10. CASE asked.kind \in {"quit", "kick"}
  <2>1. /\ t[1] = "delete" /\ t[2] = "flushHash" /\ t[3] = "flushIds" /\ t[4] = "flushInfo"
        /\ t[5] = "notify" /\ t[6] = "readMax" /\ t[7] = "setMax" /\ Len(t) = 7
    BY <1>2, <1>10 DEF Plan, Leaving
  <2>a. n <= 7
    BY <1>4, <1>a, <2>1
  <2>2. n \in {1, 2, 3, 4, 5, 6, 7}
    BY <1>b, <2>a
  <2> QED
    BY <2>1, <2>2, <1>1, <1>b, <1>6, <1>7, <1>8, <1>10 DEF After
<1>11. CASE asked.kind = "join"
  <2>1. /\ t[1] = "create" /\ t[2] = "flushHash" /\ t[3] = "flushIds" /\ t[4] = "flushInfo"
        /\ t[5] = "lift" /\ Len(t) = 5
    BY <1>2, <1>11 DEF Plan, Joining
  <2>a. n <= 5
    BY <1>4, <1>a, <2>1
  <2>2. n \in {1, 2, 3, 4, 5}
    BY <1>b, <2>a
  <2> QED
    BY <2>1, <2>2, <1>1, <1>b, <1>6, <1>7, <1>8, <1>11 DEF After
<1>12. CASE asked.kind = "dismiss"
  <2>1. t[1] = "mark" /\ t[2] = "notify" /\ Len(t) = 2
    BY <1>2, <1>12 DEF Plan
  <2>a. n <= 2
    BY <1>4, <1>a, <2>1
  <2>2. n \in {1, 2}
    BY <1>b, <2>a
  <2> QED
    BY <2>1, <2>2, <1>1, <1>b, <1>6, <1>7, <1>8, <1>12 DEF After
<1>13. CASE asked.kind \notin {"chat", "single", "quit", "kick", "join", "dismiss"}
  <2>1. t = <<>> /\ Len(t) = 0
    BY <1>2, <1>13 DEF Plan
  <2> QED
    BY <1>4, <2>1
<1> QED
  BY <1>9, <1>10, <1>11, <1>12, <1>13

\* A request that is served begins at its first step.
LEMMA ServeBegins ==
    ASSUME SvcInv, Serve
    PROVE  /\ SvcInv'
           /\ At = "idle"
           /\ At' \in {"idle", "send", "delete", "create", "mark"}
           /\ At' = "delete" => asked'.user \in Members \ {Owner}
           /\ At' = "create" => asked'.kind = "join" /\ asked'.user \notin Members
<1>1. svc = <<>> /\ ask \in Seq(Request) /\ ask # <<>>
  BY DEF Serve, SvcInv
<1>2. PICK r \in Request : r = Head(ask)
  BY <1>1
<1>3. ask' = Tail(ask) /\ ask' \in Seq(Request)
  BY <1>1 DEF Serve
<1>4. asked' = r /\ svc' = IF Permitted(r) THEN Steps(r) ELSE <<>>
  BY <1>2 DEF Serve
<1>a. /\ r.kind \in {"chat", "single", "quit", "kick", "join", "dismiss"}
      /\ r.user \in User /\ r.by \in User
  BY DEF Request
<1>5. asked'.kind \in Asks /\ asked'.user \in User /\ asked'.by \in User
  BY <1>4, <1>a DEF Asks
<1>b. Plan(r.kind) \in Seq(Word)
  BY <1>a, PlanType DEF Asks
<1>c. Steps(r) = Plan(r.kind)
  BY <1>a DEF Steps, Plan, Leaving, Joining
<1>6. Steps(r) = Plan(r.kind) /\ Plan(r.kind) \in Seq(Word)
  BY <1>b, <1>c
<1>7. SuffixOf(<<>>, Plan(r.kind)) /\ SuffixOf(Plan(r.kind), Plan(r.kind))
  BY <1>6 DEF SuffixOf
<1>8. SvcInv'
  BY <1>3, <1>4, <1>5, <1>6, <1>7 DEF SvcInv
<1>9. At = "idle"
  BY <1>1 DEF At
<1>10. CASE ~Permitted(r)
  BY <1>4, <1>8, <1>9, <1>10 DEF At
<1>11. CASE Permitted(r)
  <2>1. svc' = Plan(r.kind)
    BY <1>4, <1>6, <1>11
  <2>2. CASE r.kind \in {"chat", "single"}
    <3>1. At' = "send"
      BY <2>1, <2>2 DEF At, Plan
    <3> QED
      BY <3>1, <1>8, <1>9
  <2>3. CASE r.kind \in {"quit", "kick"}
    <3>1. At' = "delete"
      BY <2>1, <2>3 DEF At, Plan, Leaving
    <3>2. r.user \in Members \ {Owner}
      BY <1>11, <2>3 DEF Permitted
    <3> QED
      BY <3>1, <3>2, <1>4, <1>8, <1>9
  <2>4. CASE r.kind = "join"
    <3>1. At' = "create"
      BY <2>1, <2>4 DEF At, Plan, Joining
    <3>2. r.user \notin Members
      BY <1>11, <2>4 DEF Permitted
    <3> QED
      BY <3>1, <3>2, <2>4, <1>4, <1>8, <1>9
  <2>5. CASE r.kind = "dismiss"
    <3>1. At' = "mark"
      BY <2>1, <2>5 DEF At, Plan
    <3> QED
      BY <3>1, <1>8, <1>9
  <2> QED
    BY <2>2, <2>3, <2>4, <2>5, <1>a
<1> QED
  BY <1>10, <1>11

-----------------------------------------------------------------------------
(* The steps of a goroutine.                                               *)

Edge(a, b, k) ==
    \/ a = "start" /\ (b \in {"hash", "done"} \/ (k = "single" /\ b \in {"online", "offline"}))
    \/ a = "hash" /\ b \in {"hashIds", "compare"}
    \/ a = "hashIds" /\ b = "hashInfo"
    \/ a = "hashInfo" /\ b = "compare"
    \/ a = "compare" /\ b \in {"ids", "online", "offline"}
    \/ a = "ids" /\ b = "store"
    \/ a = "store" /\ b \in {"online", "offline"}
    \/ a = "online" /\ b \in {"online", "offline"}
    \/ a = "offline" /\ b \in {"again", "defer", "latest"}
    \/ a = "again" /\ b \in {"again", "defer"}
    \/ a = "defer" /\ (b = "latest" \/ (k \in LeftKinds /\ b = "setMax")
                                    \/ (k = "goneTip" /\ b = "dismissRows"))
    \/ a = "setMax" /\ b = "latest"
    \/ a = "dismissRows" /\ b = "dismissIds"
    \/ a = "dismissIds" /\ b = "dismissHash"
    \/ a = "dismissHash" /\ b = "dismissInfo"
    \/ a = "dismissInfo" /\ b = "latest"
    \/ a = "latest" /\ b = "done"

\* A goroutine moves along its code, and no other with it.
LEMMA Moves ==
    ASSUME OnMsg(pc), NEW m \in Msg, Goroutine(m)
    PROVE  /\ OnMsg(pc')
           /\ \A k \in Msg \ {m} : pc'[k] = pc[k]
           /\ Edge(pc[m], pc'[m], log[m].kind)
<1>1. CASE Begin(m)
  BY <1>1 DEF Begin, StartOnline, OnMsg, Edge
<1>2. CASE FetchHash(m)
  BY <1>2 DEF FetchHash, OnMsg, Edge
<1>3. CASE HashIds(m)
  BY <1>3 DEF HashIds, OnMsg, Edge
<1>4. CASE HashInfo(m)
  BY <1>4 DEF HashInfo, OnMsg, Edge
<1>5. CASE Compare(m)
  BY <1>5 DEF Compare, StartOnline, OnMsg, Edge
<1>6. CASE ReadIds(m)
  BY <1>6 DEF ReadIds, OnMsg, Edge
<1>7. CASE StoreIds(m)
  BY <1>7 DEF StoreIds, StartOnline, OnMsg, Edge
<1>8. ASSUME NEW g \in Gateway, Answer(m, g)
      PROVE  /\ OnMsg(pc')
             /\ \A k \in Msg \ {m} : pc'[k] = pc[k]
             /\ Edge(pc[m], pc'[m], log[m].kind)
  BY <1>8 DEF Answer, OnMsg, Edge
<1>9. CASE Offline(m)
  BY <1>9 DEF Offline, PushAgain, OnMsg, Edge
<1>10. CASE Defer(m)
  BY <1>10 DEF Defer, OnMsg, Edge
<1>11. CASE SetMax(m)
  BY <1>11 DEF SetMax, OnMsg, Edge
<1>12. CASE Dismiss(m)
  BY <1>12 DEF Dismiss, OnMsg, Edge
<1>13. CASE SetLatest(m)
  BY <1>13 DEF SetLatest, OnMsg, Edge
<1> QED
  BY <1>1, <1>2, <1>3, <1>4, <1>5, <1>6, <1>7, <1>8, <1>9, <1>10, <1>11, <1>12, <1>13
      DEF Goroutine

\* What no goroutine touches.
LEMMA GoFrame ==
    ASSUME NEW m, Goroutine(m)
    PROVE  /\ UNCHANGED <<cfg, clock, dismissed, maxSeq, svc, asked, svcMax, ask, log, crashes>>
           /\ UNCHANGED <<leftAt, rejoined, next, committed>>
<1> USE DEF GroupUnchanged, svcVars, leaveHist
<1>1. CASE Begin(m) \/ FetchHash(m) \/ HashIds(m)
  BY <1>1 DEF Begin, FetchHash, HashIds
<1>2. CASE HashInfo(m) \/ Compare(m) \/ ReadIds(m) \/ StoreIds(m)
  BY <1>2 DEF HashInfo, Compare, ReadIds, StoreIds
<1>3. CASE (\E g \in Gateway : Answer(m, g)) \/ Offline(m)
  BY <1>3 DEF Answer, Offline
<1>4. CASE Defer(m) \/ SetMax(m) \/ Dismiss(m) \/ SetLatest(m)
  BY <1>4 DEF Defer, SetMax, Dismiss, SetLatest
<1> QED
  BY <1>1, <1>2, <1>3, <1>4 DEF Goroutine

\* A goroutine writes the places of its own message.
LEMMA GoMaps ==
    ASSUME Maps, NEW m \in Msg, Goroutine(m)
    PROVE  /\ Maps'
           /\ \A k \in Msg \ {m} : /\ hash'[k] = hash[k] /\ list'[k] = list[k]
                                   /\ val'[k] = val[k] /\ to'[k] = to[k]
                                   /\ wait'[k] = wait[k] /\ got'[k] = got[k]
                                   /\ reached'[k] = reached[k] /\ handed'[k] = handed[k]
<1>a. OnMsg(pc')
  BY Moves DEF Maps
<1> DEFINE P ==
           /\ OnMsg(hash') /\ OnMsg(list') /\ OnMsg(val') /\ OnMsg(to')
           /\ OnMsg(wait') /\ OnMsg(got') /\ OnMsg(reached') /\ OnMsg(handed')
           /\ OnMsg(owed') /\ OnMsg(barred')
           /\ \A k \in Msg \ {m} : /\ hash'[k] = hash[k] /\ list'[k] = list[k]
                                   /\ val'[k] = val[k] /\ to'[k] = to[k]
                                   /\ wait'[k] = wait[k] /\ got'[k] = got[k]
                                   /\ reached'[k] = reached[k] /\ handed'[k] = handed[k]
<1> SUFFICES P
  BY <1>a DEF Maps
<1> USE DEF Maps, OnMsg, pushHist, listHist
<1>1. CASE Begin(m)
  BY <1>1 DEF Begin, StartOnline
<1>2. CASE FetchHash(m)
  BY <1>2 DEF FetchHash
<1>3. CASE HashIds(m)
  BY <1>3 DEF HashIds, FillIds
<1>4. CASE HashInfo(m)
  BY <1>4 DEF HashInfo
<1>5. CASE Compare(m)
  BY <1>5 DEF Compare, StartOnline, Excuse
<1>6. CASE ReadIds(m)
  BY <1>6 DEF ReadIds, FillIds
<1>7. CASE StoreIds(m)
  BY <1>7 DEF StoreIds, StartOnline, Excuse
<1>8. ASSUME NEW g \in Gateway, Answer(m, g)
      PROVE  P
  BY <1>8 DEF Answer
<1>9. CASE Offline(m)
  <2>1. OnMsg(handed') /\ \A k \in Msg \ {m} : handed'[k] = handed[k]
    BY <1>9 DEF Offline, Vendor
  <2>2. OnMsg(to') /\ OnMsg(wait') /\ \A k \in Msg \ {m} : to'[k] = to[k] /\ wait'[k] = wait[k]
    BY <1>9 DEF Offline, PushAgain
  <2> QED
    BY <1>9, <2>1, <2>2 DEF Offline
<1>10. CASE Defer(m)
  BY <1>10 DEF Defer
<1>11. CASE SetMax(m)
  BY <1>11 DEF SetMax
<1>12. CASE Dismiss(m)
  BY <1>12 DEF Dismiss
<1>13. CASE SetLatest(m)
  BY <1>13 DEF SetLatest
<1> QED
  BY <1>1, <1>2, <1>3, <1>4, <1>5, <1>6, <1>7, <1>8, <1>9, <1>10, <1>11, <1>12, <1>13
      DEF Goroutine

-----------------------------------------------------------------------------
(* The base invariant.                                                     *)

LEMMA EntryType ==
    ASSUME NEW k \in Kinds, NEW r, r.by \in User, r.user \in User, NEW s \in Int
    PROVE  /\ Entry(k, r, s) \in [kind : Kinds, from : User, user : User, seq : Int]
           /\ Entry(k, r, s).user = r.user /\ Entry(k, r, s).kind = k
BY DEF Entry

\* The topic only grows, and only the group service writes it.
LEMMA LogGrows ==
    ASSUME SvcInv, LogInv, GroupService
    PROVE  /\ log' \in Seq([kind : Kinds, from : User, user : User, seq : Int])
           /\ Len(log') \in Len(log)..MaxMsgs /\ maxSeq' \in Nat /\ maxSeq <= maxSeq'
           /\ \A m \in 1..Len(log) : log'[m] = log[m]
           /\ \A m \in (Len(log) + 1)..Len(log') :
                  log'[m].user = asked.user /\ (At = "notify" \/ log'[m].kind \in {"single", "chat"})
           /\ \A m \in (Len(log) + 1)..Len(log') :
                  /\ log'[m].kind \in {"goneMsg", "goneTip"} => asked.kind = "dismiss"
                  /\ log'[m].kind \in LeftKinds => asked.kind \in {"quit", "kick"}
<1> DEFINE E == [kind : Kinds, from : User, user : User, seq : Int]
<1>0. log \in Seq(E) /\ Len(log) \in Nat /\ Len(log) <= MaxMsgs /\ maxSeq \in Nat /\ MaxMsgs \in Nat
  BY ConstantsAssumption DEF LogInv
<1>u. asked.by \in User /\ asked.user \in User
  BY DEF SvcInv
<1>1. CASE Send
  <2>1. asked.kind \in {"chat", "single"}
    BY <1>1, ServiceMoves DEF Send, RestUnchanged
  <2>2. maxSeq' \in Nat /\ maxSeq <= maxSeq'
    BY <1>0, <1>1 DEF Send
  <2>a. asked.kind \in Kinds /\ maxSeq' \in Int
    BY <2>1, <2>2 DEF Kinds
  <2>3. PICK e \in E : e = Entry(asked.kind, asked, maxSeq')
    BY <2>a, <1>u, EntryType
  <2>4. log' = Append(log, e) /\ Len(log) < MaxMsgs
    BY <1>1, <2>3 DEF Send
  <2>5. e.user = asked.user /\ e.kind \in {"single", "chat"}
    BY <2>1, <2>3, <2>a, <1>u, EntryType
  <2>6. /\ log' \in Seq(E) /\ Len(log') = Len(log) + 1
        /\ \A m \in 1..Len(log) : log'[m] = log[m]
        /\ log'[Len(log) + 1] = e
    BY <2>4, <1>0
  <2>7. \A m \in (Len(log) + 1)..Len(log') : log'[m] = e
    BY <2>6, <1>0
  <2> QED
    BY <2>2, <2>4, <2>5, <2>6, <2>7, <1>0 DEF LeftKinds
<1>2. CASE Notify
  <2>1. At = "notify" /\ asked.kind \in {"quit", "kick", "dismiss"}
    BY <1>2, ServiceMoves DEF Notify, RestUnchanged
  <2>2. maxSeq' \in Nat /\ maxSeq <= maxSeq'
    BY <1>0, <1>2 DEF Notify
  <2>3. PICK k1, k2 :
            /\ k1 \in Kinds /\ k2 \in Kinds
            /\ asked.kind # "dismiss" => k1 = "leftMsg" /\ k2 = "leftTip"
            /\ asked.kind = "dismiss" => k1 = "goneMsg" /\ k2 = "goneTip"
            /\ log' = log \o <<Entry(k1, asked, maxSeq'), Entry(k2, asked, 0)>>
    <3>1. CASE asked.kind = "dismiss"
      BY <1>2, <3>1 DEF Notify, Kinds
    <3>2. CASE asked.kind # "dismiss"
      BY <1>2, <3>2 DEF Notify, Kinds
    <3> QED
      BY <3>1, <3>2
  <2>4. PICK e \in E, d \in E : /\ e = Entry(k1, asked, maxSeq') /\ d = Entry(k2, asked, 0)
                                /\ e.user = asked.user /\ d.user = asked.user
                                /\ e.kind = k1 /\ d.kind = k2
    BY <2>2, <2>3, <1>u, EntryType
  <2>5. log' = log \o <<e, d>> /\ Len(log) + 1 < MaxMsgs
    BY <1>2, <2>3, <2>4 DEF Notify
  <2>6. /\ log' \in Seq(E) /\ Len(log') = Len(log) + 2
        /\ \A m \in 1..Len(log) : log'[m] = log[m]
        /\ log'[Len(log) + 1] = e /\ log'[Len(log) + 2] = d
    <3>1. <<e, d>> \in Seq(E) /\ Len(<<e, d>>) = 2 /\ <<e, d>>[1] = e /\ <<e, d>>[2] = d
      BY <2>4
    <3> QED
      BY <3>1, <2>5, <1>0
  <2>7. \A m \in (Len(log) + 1)..Len(log') : log'[m] \in {e, d}
    <3>1. \A m \in (Len(log) + 1)..Len(log') : m = Len(log) + 1 \/ m = Len(log) + 2
      BY <2>6, <1>0
    <3> QED
      BY <3>1, <2>6
  <2>8. \A m \in (Len(log) + 1)..Len(log') :
            /\ log'[m].user = asked.user
            /\ log'[m].kind \in {"goneMsg", "goneTip"} => asked.kind = "dismiss"
            /\ log'[m].kind \in LeftKinds => asked.kind \in {"quit", "kick"}
    <3> SUFFICES ASSUME NEW m \in (Len(log) + 1)..Len(log')
                 PROVE  /\ log'[m].user = asked.user
                        /\ log'[m].kind \in {"goneMsg", "goneTip"} => asked.kind = "dismiss"
                        /\ log'[m].kind \in LeftKinds => asked.kind \in {"quit", "kick"}
      OBVIOUS
    <3>1. log'[m] = e \/ log'[m] = d
      BY <2>7
    <3> QED
      BY <3>1, <2>1, <2>3, <2>4 DEF LeftKinds
  <2>9. Len(log') \in Len(log)..MaxMsgs
    BY <2>5, <2>6, <1>0
  <2> QED
    BY <2>1, <2>2, <2>6, <2>8, <2>9
<1>3. CASE Serve \/ WriteRow \/ Flush \/ Lift \/ MarkDismissed \/ SetLeaverMax
  <2>1. log' = log /\ maxSeq' = maxSeq
    BY <1>3 DEF Serve, WriteRow, Flush, Lift, MarkDismissed, SetLeaverMax, groupVars, topicVars
  <2> QED
    BY <2>1, <1>0
<1> QED
  BY <1>1, <1>2, <1>3 DEF GroupService

\* What the group service leaves alone.
LEMMA ServiceFrame ==
    ASSUME SvcInv, GroupService
    PROVE  /\ SvcInv'
           /\ UNCHANGED <<cfg, next, committed, local, pc, hash, list, val, to, wait, got, reached,
                          handed, excused, crashes>>
           /\ OnMsg(owed) /\ OnMsg(barred) => OnMsg(owed') /\ OnMsg(barred')
<1> USE DEF RestUnchanged, runVars, pushHist, listHist, topicVars, svcVars
<1>1. CASE Serve
  BY <1>1, ServeBegins DEF Serve
<1>2. CASE Send \/ Notify
  BY <1>2, ServiceMoves DEF Send, Notify
<1>3. CASE WriteRow
  <2>1. SvcInv'
    BY <1>3, ServiceMoves DEF WriteRow
  <2>2. OnMsg(owed') /\ OnMsg(barred')
    BY <1>3 DEF WriteRow, OnMsg
  <2> QED
    BY <1>3, <2>1, <2>2 DEF WriteRow
<1>4. CASE Flush \/ Lift
  BY <1>4, ServiceMoves DEF Flush, Lift
<1>5. CASE MarkDismissed \/ SetLeaverMax
  BY <1>5, ServiceMoves DEF MarkDismissed, SetLeaverMax
<1> QED
  BY <1>1, <1>2, <1>3, <1>4, <1>5 DEF GroupService

LEMMA MsgRange ==
    ASSUME LogInv
    PROVE  /\ 1..Len(log) \subseteq Msg
           /\ \A m \in Msg : m \in Nat /\ m > 0 /\ (m <= Len(log) => m \in 1..Len(log))
           /\ Len(log) \in Nat /\ next \in Nat /\ committed \in Nat /\ MaxMsgs \in Nat
BY ConstantsAssumption DEF LogInv, Msg

LEMMA InitBase == Init => Base
<1> SUFFICES ASSUME Init PROVE Base
  OBVIOUS
<1>1. PICK s \in Scenario : ask = s.ask
  BY DEF Init
<1>2. Maps
  BY DEF Init, Maps, OnMsg
<1>3. SvcInv
  <2>1. asked = NoRequest /\ svc = <<>> /\ ask \in Seq(Request) /\ Owner \in User
    BY <1>1, ConstantsAssumption DEF Init
  <2>2. asked.kind = "none" /\ asked.user = Owner /\ asked.by = Owner
    BY <2>1 DEF NoRequest
  <2>3. SuffixOf(<<>>, Plan("none"))
    BY PlanType DEF SuffixOf, Plan, Asks
  <2> QED
    BY <2>1, <2>2, <2>3 DEF SvcInv, Asks
<1>4. LogInv
  <2>1. log = <<>> /\ next = 1 /\ committed = 1 /\ maxSeq = 1
    BY DEF Init
  <2> QED
    BY <2>1, ConstantsAssumption DEF LogInv
<1>5. PlaceInv
  <2>1. \A m \in Msg : pc[m] = "none"
    BY DEF Init
  <2> QED
    BY <2>1 DEF PlaceInv, Dismissing
<1> QED
  BY <1>2, <1>3, <1>4, <1>5 DEF Base

LEMMA ServiceBase ==
    ASSUME Base, GroupService
    PROVE  Base'
<1>1. Maps /\ SvcInv /\ LogInv /\ PlaceInv
  BY DEF Base
<1>2. Maps' /\ SvcInv'
  BY <1>1, ServiceFrame DEF Maps
<1>3. pc' = pc /\ next' = next /\ committed' = committed
  BY <1>1, ServiceFrame
<1>4. LogInv'
  BY <1>1, <1>3, LogGrows, MsgRange DEF LogInv
<1>5. PlaceInv'
  <2> SUFFICES ASSUME NEW m \in Msg
               PROVE  /\ m > Len(log') => pc'[m] = "none"
                      /\ Dismissing(m)' => log'[m].kind = "goneTip"
                      /\ m >= next' /\ m <= Len(log') /\ log'[m].kind # "goneTip" => pc'[m] = "none"
                      /\ pc'[m] = "setMax" => log'[m].kind \in LeftKinds
    BY DEF PlaceInv
  <2>1. m \in Nat /\ m > 0 /\ Len(log) \in Nat /\ Len(log') \in Nat /\ Len(log) <= Len(log')
    BY <1>1, LogGrows, MsgRange
  <2>2. CASE m <= Len(log)
    <3>1. log'[m] = log[m]
      BY <1>1, <2>1, <2>2, LogGrows
    <3> QED
      BY <1>1, <1>3, <2>1, <2>2, <3>1 DEF PlaceInv, Dismissing
  <2>3. CASE m > Len(log)
    <3>1. pc[m] = "none"
      BY <1>1, <2>3 DEF PlaceInv
    <3> QED
      BY <1>3, <3>1 DEF Dismissing
  <2> QED
    BY <2>1, <2>2, <2>3
<1> QED
  BY <1>2, <1>4, <1>5 DEF Base

LEMMA ConsumeBase ==
    ASSUME Base, Consume
    PROVE  Base'
<1>1. Maps /\ SvcInv /\ LogInv /\ PlaceInv
  BY DEF Base
<1>2. next \in Msg /\ next \in 1..Len(log)
  BY <1>1, MsgRange DEF Consume, LogInv
<1>3. /\ OnMsg(pc') /\ pc'[next] = "start" /\ \A k \in Msg \ {next} : pc'[k] = pc[k]
      /\ next' = next + 1 /\ ~Running(next)
  BY <1>1, <1>2 DEF Consume, Maps, OnMsg
<1>4. Maps'
  BY <1>1, <1>3 DEF Consume, Maps, pushHist, listHist
<1>5. SvcInv' /\ log' = log
  BY <1>1 DEF Consume, SvcInv, GroupUnchanged, svcVars
<1>6. LogInv'
  BY <1>1, <1>2, <1>3, <1>5, MsgRange DEF LogInv, Consume, GroupUnchanged
<1>7. PlaceInv'
  BY <1>1, <1>2, <1>3, <1>5, MsgRange DEF PlaceInv, Dismissing
<1> QED
  BY <1>4, <1>5, <1>6, <1>7 DEF Base

\* After a crash: the dismissals go on, the other goroutines are gone.
LEMMA CrashEffect ==
    ASSUME Base, Crash
    PROVE  /\ \E c \in committed..next :
                  /\ next' = c /\ committed' = c
                  /\ rejoined' = rejoined \cup { u \in Members : \E m \in c..Len(log) :
                                           log[m].kind \in LeftKinds /\ log[m].user = u }
                  /\ \A m \in Msg : pc'[m] = IF Dismissing(m) THEN pc[m]
                                             ELSE IF m >= c THEN "none"
                                             ELSE IF Running(m) THEN "lost" ELSE pc[m]
           /\ OnMsg(pc') /\ OnMsg(got') /\ OnMsg(list') /\ OnMsg(to') /\ OnMsg(wait')
           /\ OnMsg(hash') /\ OnMsg(val')
           /\ \A m \in Msg : IF pc'[m] \in {"none", "lost"}
                             THEN got'[m] = {} /\ list'[m] = {} /\ to'[m] = {} /\ wait'[m] = {}
                                  /\ hash'[m] = NoHash /\ val'[m] = 0
                             ELSE got'[m] = got[m] /\ list'[m] = list[m] /\ to'[m] = to[m]
                                  /\ wait'[m] = wait[m] /\ hash'[m] = hash[m] /\ val'[m] = val[m]
           /\ local' = NoList
           /\ UNCHANGED <<cfg, groupVars, svcVars, log, latest, faults, pushHist, listHist, leftAt>>
BY DEF Crash, OnMsg

LEMMA CrashBase ==
    ASSUME Base, Crash
    PROVE  Base'
<1>1. Maps /\ SvcInv /\ LogInv /\ PlaceInv
  BY DEF Base
<1>2. Maps'
  BY <1>1, CrashEffect DEF Maps, pushHist, listHist
<1>3. SvcInv' /\ log' = log /\ maxSeq' = maxSeq
  BY <1>1, CrashEffect DEF SvcInv, svcVars, groupVars
<1>4. PICK c \in committed..next :
          /\ next' = c /\ committed' = c
          /\ \A m \in Msg : pc'[m] = IF Dismissing(m) THEN pc[m]
                                     ELSE IF m >= c THEN "none"
                                     ELSE IF Running(m) THEN "lost" ELSE pc[m]
  BY CrashEffect
<1>5. LogInv'
  BY <1>1, <1>3, <1>4, MsgRange DEF LogInv
<1>6. PlaceInv'
  <2> SUFFICES ASSUME NEW m \in Msg
               PROVE  /\ m > Len(log) => pc'[m] = "none"
                      /\ Dismissing(m)' => log[m].kind = "goneTip"
                      /\ m >= c /\ m <= Len(log) /\ log[m].kind # "goneTip" => pc'[m] = "none"
                      /\ pc'[m] = "setMax" => log[m].kind \in LeftKinds
    BY <1>3, <1>4 DEF PlaceInv
  <2>1. m \in Nat /\ c \in Nat /\ Len(log) \in Nat
    BY <1>1, <1>4, MsgRange
  <2>2. /\ m > Len(log) => pc[m] = "none"
        /\ Dismissing(m) => log[m].kind = "goneTip"
        /\ pc[m] = "setMax" => log[m].kind \in LeftKinds
    BY <1>1 DEF PlaceInv
  <2>3. pc'[m] = IF Dismissing(m) THEN pc[m]
                 ELSE IF m >= c THEN "none"
                 ELSE IF Running(m) THEN "lost" ELSE pc[m]
    BY <1>4
  <2> QED
    BY <2>1, <2>2, <2>3 DEF Dismissing, Running, Ended
<1> QED
  BY <1>2, <1>3, <1>5, <1>6 DEF Base

LEMMA GoBase ==
    ASSUME Base, NEW m \in 1..Len(log), Goroutine(m)
    PROVE  Base'
<1>1. Maps /\ SvcInv /\ LogInv /\ PlaceInv /\ m \in Msg
  BY MsgRange DEF Base
<1>2. Maps'
  BY <1>1, GoMaps
<1>3. SvcInv' /\ LogInv' /\ log' = log /\ next' = next
  BY <1>1, GoFrame DEF SvcInv, LogInv
<1>4. /\ \A k \in Msg \ {m} : pc'[k] = pc[k]
      /\ Edge(pc[m], pc'[m], log[m].kind)
  BY <1>1, Moves DEF Maps
<1>5. PlaceInv'
  <2> SUFFICES ASSUME NEW k \in Msg
               PROVE  /\ k > Len(log) => pc'[k] = "none"
                      /\ Dismissing(k)' => log[k].kind = "goneTip"
                      /\ k >= next /\ k <= Len(log) /\ log[k].kind # "goneTip" => pc'[k] = "none"
                      /\ pc'[k] = "setMax" => log[k].kind \in LeftKinds
    BY <1>3 DEF PlaceInv
  <2>1. CASE k # m
    BY <1>1, <1>4, <2>1 DEF PlaceInv, Dismissing
  <2>2. CASE k = m
    <3>1. k <= Len(log) /\ k \in Nat /\ Len(log) \in Nat
      BY <2>2, <1>1, MsgRange
    <3>2. pc[m] # "none" /\ pc'[m] # "none"
      BY <1>4 DEF Edge
    <3>3. Dismissing(m)' => Dismissing(m) \/ log[m].kind = "goneTip"
      BY <1>4 DEF Edge, Dismissing
    <3>4. pc'[m] = "setMax" => log[m].kind \in LeftKinds
      BY <1>4 DEF Edge
    <3> QED
      BY <1>1, <2>2, <3>1, <3>2, <3>3, <3>4 DEF PlaceInv
  <2> QED
    BY <2>1, <2>2
<1> QED
  BY <1>2, <1>3, <1>5 DEF Base

LEMMA OtherBase ==
    ASSUME Base, LockExpires \/ (\E d \in Device : Move(d)) \/ UNCHANGED vars
    PROVE  Base'
<1>1. /\ UNCHANGED <<svcVars, log, next, committed, runVars, maxSeq>>
      /\ UNCHANGED <<pushHist, owed, barred>>
  BY DEF LockExpires, Move, GroupUnchanged, vars, topicVars, groupVars, listHist
<1> QED
  BY <1>1 DEF Base, Maps, SvcInv, LogInv, PlaceInv, Dismissing, svcVars, runVars, pushHist

LEMMA NextBase == Base /\ [Next]_vars => Base'
<1> SUFFICES ASSUME Base, [Next]_vars PROVE Base'
  OBVIOUS
<1>1. CASE GroupService
  BY <1>1, ServiceBase
<1>2. CASE Consume
  BY <1>2, ConsumeBase
<1>3. CASE Crash
  BY <1>3, CrashBase
<1>4. ASSUME NEW m \in 1..Len(log), Goroutine(m)
      PROVE  Base'
  BY <1>4, GoBase
<1>5. CASE LockExpires \/ (\E d \in Device : Move(d)) \/ UNCHANGED vars
  BY <1>5, OtherBase
<1> QED
  BY <1>1, <1>2, <1>3, <1>4, <1>5 DEF Next, Rest

\* The invariant the others start from: the calls of the group service follow
\* their plans, the consumer stays within the topic, and of the messages not
\* consumed only the dismissal that outlived a crash has a goroutine.
THEOREM BaseHolds == Spec => []Base
BY InitBase, NextBase, PTL DEF Spec

-----------------------------------------------------------------------------
(* No one is forgotten.                                                    *)

\* A message of a single chat or of the group, or a place still free in the topic.
Talk(m)   == m <= Len(log) => log[m].kind \in {"single", "chat"}
\* Its places before the gateways are asked, and after the vendor was.
Before    == {"none", "start", "lost", "hash", "hashIds", "hashInfo", "compare", "ids", "store"}
Afterwards == {"again", "defer", "setMax", "latest", "done"}

Served(m) ==
    \/ m \in excused
    \/ list[m] \ {log[m].from} \subseteq reached[m] \cup handed[m]
           \cup (IF log[m].kind = "chat" THEN cfg.muted ELSE {})

\* The users who are still to be asked for, were answered for, or are lost with a gateway.
Asked(m) ==
    /\ pc[m] = "online" => to[m] = list[m]
    /\ pc[m] = "offline" => wait[m] = {}
    /\ cfg.k8s => \A u \in list[m] : HostOf[u] \in wait[m] \/ u \in Answered(m) \/ m \in excused
    /\ ~cfg.k8s => got[m] = {} \/ list[m] \subseteq Answered(m)

ServedAt(m) ==
    /\ Online(m) \subseteq reached[m]
    /\ Talk(m) =>
        /\ pc[m] \in {"none", "start"} => list[m] = {}
        /\ pc[m] \in Before => got[m] = {}
        /\ pc[m] \in {"online", "offline"} => Asked(m)
        /\ pc[m] \in Afterwards => Served(m)

ServedInv == \A m \in Msg : ServedAt(m)

\* Nothing a push depends on has changed but the topic behind it.
LEMMA ServedFrame ==
    ASSUME Base, NEW m \in Msg, ServedAt(m), m <= Len(log),
           pc'[m] = pc[m], list'[m] = list[m], to'[m] = to[m], wait'[m] = wait[m],
           got'[m] = got[m], reached'[m] = reached[m], handed'[m] = handed[m],
           m \in excused' <=> m \in excused, cfg' = cfg, log'[m] = log[m], m <= Len(log')
    PROVE  ServedAt(m)'
<1>1. Online(m)' = Online(m) /\ Answered(m)' = Answered(m)
  BY DEF Online, Answered
<1>2. Talk(m)' => Talk(m)
  BY DEF Talk
<1>3. Served(m) => Served(m)'
  BY DEF Served
<1>4. Asked(m) => Asked(m)'
  BY <1>1 DEF Asked
<1> QED
  BY <1>1, <1>2, <1>3, <1>4 DEF ServedAt

LEMMA ServedLost ==
    ASSUME NEW m \in Msg, pc'[m] \in {"none", "lost"}, list'[m] = {}, got'[m] = {}
    PROVE  ServedAt(m)'
<1>1. Online(m)' = {}
  BY DEF Online
<1> QED
  BY <1>1 DEF ServedAt, Before, Afterwards

LEMMA ServedService ==
    ASSUME Base, ServedInv, GroupService
    PROVE  ServedInv'
<1> SUFFICES ASSUME NEW m \in Msg PROVE ServedAt(m)'
  BY DEF ServedInv
<1>1. /\ UNCHANGED <<cfg, pc, list, to, wait, got, reached, handed, excused>>
      /\ m \in Nat /\ Len(log) \in Nat
  BY ServiceFrame, MsgRange DEF Base
<1>2. CASE m <= Len(log)
  <2>1. log'[m] = log[m] /\ m <= Len(log')
    BY <1>1, <1>2, LogGrows, MsgRange DEF Base
  <2> QED
    BY <1>1, <1>2, <2>1, ServedFrame DEF ServedInv
<1>3. CASE m > Len(log)
  <2>1. pc[m] = "none"
    BY <1>3 DEF Base, PlaceInv
  <2>2. Online(m)' \subseteq reached'[m]
    BY <1>1 DEF ServedInv, ServedAt, Online
  <2>3. list[m] = {} /\ got[m] = {}
    BY <2>1, <1>1, <1>3 DEF ServedInv, ServedAt, Talk, Before
  <2> QED
    BY <1>1, <2>1, <2>2, <2>3 DEF ServedAt, Before, Afterwards
<1> QED
  BY <1>1, <1>2, <1>3

LEMMA ServedConsume ==
    ASSUME Base, ServedInv, Consume
    PROVE  ServedInv'
<1> SUFFICES ASSUME NEW m \in Msg PROVE ServedAt(m)'
  BY DEF ServedInv
<1>1. /\ UNCHANGED <<cfg, log, list, to, wait, got, reached, handed, excused>>
      /\ m \in Nat /\ Len(log) \in Nat
  BY MsgRange DEF Base, Consume, GroupUnchanged, pushHist
<1>2. pc' = [pc EXCEPT ![next] = "start"] /\ next <= Len(log) /\ next \in Nat
  BY MsgRange DEF Base, Consume
<1>3. CASE m # next
  <2>1. pc'[m] = pc[m]
    BY <1>2, <1>3 DEF Base, Maps, OnMsg
  <2>2. CASE m <= Len(log)
    BY <1>1, <2>1, <2>2, ServedFrame DEF ServedInv
  <2>3. CASE m > Len(log)
    BY <1>1, <2>1 DEF ServedInv, ServedAt, Online, Talk, Asked, Answered, Served
  <2> QED
    BY <1>1, <2>2, <2>3
<1>4. CASE m = next
  <2>1. pc'[m] = "start"
    BY <1>2, <1>4 DEF Base, Maps, OnMsg
  <2>2. Online(m)' \subseteq reached'[m]
    BY <1>1 DEF ServedInv, ServedAt, Online
  <2>3. Talk(m)' => list[m] = {} /\ got[m] = {}
    <3>1. Talk(m)' => Talk(m) /\ log[m].kind # "goneTip"
      BY <1>1, <1>2, <1>4 DEF Talk
    <3>2. Talk(m)' => pc[m] = "none"
      BY <1>1, <1>2, <1>4, <3>1 DEF Base, PlaceInv
    <3> QED
      BY <3>1, <3>2 DEF ServedInv, ServedAt, Before
  <2> QED
    BY <1>1, <2>1, <2>2, <2>3 DEF ServedAt, Before, Afterwards
<1> QED
  BY <1>3, <1>4

LEMMA ServedCrash ==
    ASSUME Base, ServedInv, Crash
    PROVE  ServedInv'
<1> SUFFICES ASSUME NEW m \in Msg PROVE ServedAt(m)'
  BY DEF ServedInv
<1>1. UNCHANGED <<cfg, log, reached, handed, excused>>
  BY CrashEffect DEF pushHist
<1>2. CASE pc'[m] \in {"none", "lost"}
  BY <1>2, CrashEffect, ServedLost
<1>3. CASE pc'[m] \notin {"none", "lost"}
  <2>1. /\ list'[m] = list[m] /\ to'[m] = to[m] /\ wait'[m] = wait[m] /\ got'[m] = got[m]
    BY <1>3, CrashEffect
  <2>2. pc'[m] = pc[m]
    BY <1>3, CrashEffect
  <2>3. m <= Len(log)
    BY <1>3, <2>2, MsgRange DEF Base, PlaceInv
  <2> QED
    BY <1>1, <2>1, <2>2, <2>3, ServedFrame DEF ServedInv
<1> QED
  BY <1>2, <1>3

\* The other goroutines of a step.
LEMMA ServedOthers ==
    ASSUME Base, ServedInv, NEW m \in 1..Len(log), Goroutine(m), NEW k \in Msg \ {m},
           k \in excused' <=> k \in excused
    PROVE  ServedAt(k)'
<1>1. m \in Msg /\ Maps /\ k \in Nat /\ Len(log) \in Nat
  BY MsgRange DEF Base
<1>2. /\ cfg' = cfg /\ log' = log /\ pc'[k] = pc[k]
      /\ list'[k] = list[k] /\ to'[k] = to[k] /\ wait'[k] = wait[k] /\ got'[k] = got[k]
      /\ reached'[k] = reached[k] /\ handed'[k] = handed[k]
  BY <1>1, GoFrame, GoMaps, Moves DEF Maps
<1>3. CASE k <= Len(log)
  BY <1>2, <1>3, ServedFrame DEF ServedInv
<1>4. CASE k > Len(log)
  BY <1>2 DEF ServedInv, ServedAt, Online, Talk, Asked, Answered, Served
<1> QED
  BY <1>1, <1>3, <1>4

LEMMA ServedStart ==
    ASSUME Base, NEW m \in Msg, ServedAt(m), NEW U, StartOnline(m, U), pc[m] \in Before,
           UNCHANGED <<cfg, log, got, reached>>
    PROVE  ServedAt(m)'
<1>1. /\ list'[m] = U /\ to'[m] = U /\ wait'[m] = Hosts(U)
      /\ pc'[m] = IF Hosts(U) = {} THEN "offline" ELSE "online"
  BY DEF StartOnline, Base, Maps, OnMsg
<1>2. Online(m)' \subseteq reached'[m]
  BY DEF ServedAt, Online
<1>3. Talk(m)' => got'[m] = {}
  BY DEF Talk, ServedAt
<1>4. cfg'.k8s => \A u \in U : HostOf[u] \in wait'[m]
  BY <1>1 DEF Hosts
<1>5. Talk(m)' => Asked(m)'
  BY <1>1, <1>3, <1>4 DEF Asked
<1> QED
  BY <1>1, <1>2, <1>5 DEF ServedAt, Before, Afterwards

\* A goroutine on the way to its list.
LEMMA ServedReading ==
    ASSUME Base, NEW m \in Msg, ServedAt(m), pc[m] \in Before, pc'[m] \in Before \ {"none", "start"},
           UNCHANGED <<log, got, reached>>
    PROVE  ServedAt(m)'
<1>1. Online(m)' \subseteq reached'[m]
  BY DEF ServedAt, Online
<1>2. Talk(m)' => got'[m] = {}
  BY DEF Talk, ServedAt
<1> QED
  BY <1>1, <1>2 DEF ServedAt, Before, Afterwards

\* A goroutine that has pushed.
LEMMA ServedEnding ==
    ASSUME Base, NEW m \in 1..Len(log), ServedAt(m), pc[m] \in Afterwards \/ Dismissing(m),
           pc'[m] \in Afterwards \/ Dismissing(m)',
           UNCHANGED <<cfg, log, list, got, reached, handed, excused>>
    PROVE  ServedAt(m)'
<1>1. Online(m)' \subseteq reached'[m]
  BY DEF ServedAt, Online
<1>2. Talk(m)' => Talk(m) /\ log[m].kind \in {"single", "chat"} /\ m \in Msg
  BY MsgRange DEF Talk, Base
<1>3. Talk(m)' => ~Dismissing(m)
  BY <1>2 DEF Base, PlaceInv
<1>4. Talk(m)' => Served(m)
  BY <1>2, <1>3 DEF ServedAt
<1>5. Talk(m)' => Served(m)'
  BY <1>4 DEF Served
<1> QED
  BY <1>1, <1>5 DEF ServedAt, Before, Afterwards, Dismissing

LEMMA ServedAnswer ==
    ASSUME Base, NEW m \in 1..Len(log), ServedAt(m), NEW g \in Gateway, Answer(m, g)
    PROVE  ServedAt(m)' /\ \A k \in Msg \ {m} : k \in excused' <=> k \in excused
<1>0. m \in Msg /\ Maps
  BY MsgRange DEF Base
<1>1. /\ UNCHANGED <<cfg, log, list, to, handed>>
      /\ wait'[m] = wait[m] \ {g}
      /\ pc[m] \in {"online", "again"}
      /\ pc'[m] = IF wait[m] # {g} THEN pc[m] ELSE IF pc[m] = "online" THEN "offline" ELSE "defer"
  BY <1>0 DEF Answer, GroupUnchanged, Maps, OnMsg
<1>2. CASE got' = got /\ reached' = reached /\ excused' = IF cfg.k8s THEN excused \cup {m} ELSE excused
  <2>1. Online(m)' \subseteq reached'[m] /\ Answered(m)' = Answered(m)
    BY <1>2 DEF ServedAt, Online, Answered
  <2>2. Talk(m)' => Talk(m)
    BY <1>1 DEF Talk
  <2>3. Served(m) => Served(m)'
    BY <1>1, <1>2 DEF Served
  <2>4. pc[m] = "online" /\ Asked(m) => Asked(m)'
    BY <1>1, <1>2, <2>1 DEF Asked
  <2> QED
    BY <1>1, <1>2, <2>1, <2>2, <2>3, <2>4 DEF ServedAt, Before, Afterwards
<1>3. ASSUME NEW bad, NEW f,
             got' = [got EXCEPT ![m] = IF pc[m] = "online"
                        THEN @ \cup { Result(u, g, bad, f[u]) : u \in ToHost(m, g) } ELSE @],
             reached' = [reached EXCEPT ![m] = @ \cup { u \in ToHost(m, g) : OnPhone(u, g, bad) }],
             excused' = excused
      PROVE  ServedAt(m)'
  <2>1. /\ got'[m] = IF pc[m] = "online"
                     THEN got[m] \cup { Result(u, g, bad, f[u]) : u \in ToHost(m, g) } ELSE got[m]
        /\ reached'[m] = reached[m] \cup { u \in ToHost(m, g) : OnPhone(u, g, bad) }
    BY <1>0, <1>3 DEF Maps, OnMsg
  <2>2. \A u : Result(u, g, bad, f[u]).user = u /\ Result(u, g, bad, f[u]).online = OnPhone(u, g, bad)
    BY DEF Result
  <2>3. Online(m)' \subseteq Online(m) \cup { u \in ToHost(m, g) : OnPhone(u, g, bad) }
    <3> SUFFICES ASSUME NEW r \in got'[m], r.online
                 PROVE  r.user \in Online(m) \cup { u \in ToHost(m, g) : OnPhone(u, g, bad) }
      BY DEF Online
    <3>1. CASE r \in got[m]
      BY <3>1 DEF Online
    <3>2. CASE r \notin got[m]
      <4>1. PICK u \in ToHost(m, g) : r = Result(u, g, bad, f[u])
        BY <2>1, <3>2
      <4> QED
        BY <4>1, <2>2
    <3> QED
      BY <3>1, <3>2
  <2>4. Online(m)' \subseteq reached'[m]
    BY <2>1, <2>3 DEF ServedAt
  <2>5. Talk(m)' => Talk(m)
    BY <1>1 DEF Talk
  <2>6. Served(m) => Served(m)'
    BY <1>1, <1>3, <2>1 DEF Served
  <2>7. ASSUME pc[m] = "online", Asked(m)
        PROVE  Asked(m)'
    <3>1. Answered(m) \subseteq Answered(m)'
      BY <2>1, <2>7 DEF Answered
    <3>2. ToHost(m, g) \subseteq Answered(m)'
      BY <2>1, <2>2, <2>7 DEF Answered
    <3>3. to[m] = list[m]
      BY <2>7 DEF Asked
    <3>4. cfg.k8s => \A u \in list[m] : HostOf[u] = g => u \in Answered(m)'
      BY <3>2, <3>3 DEF ToHost
    <3>5. ~cfg.k8s => list[m] \subseteq Answered(m)'
      BY <3>2, <3>3 DEF ToHost
    <3> QED
      BY <1>1, <1>3, <2>7, <3>1, <3>3, <3>4, <3>5 DEF Asked
  <2> QED
    BY <1>1, <1>3, <2>4, <2>5, <2>6, <2>7 DEF ServedAt, Before, Afterwards
<1>4. \A k \in Msg \ {m} : k \in excused' <=> k \in excused
  BY DEF Answer
<1> DEFINE Bad == SUBSET { d \in UNION { ConnsOf(u, g) : u \in ToHost(m, g) } :
                               ~Skipped(d) /\ ~dev[d].closed }
           F == [ToHost(m, g) -> Phones \cup {"web", "none"}]
           Got(bad, f) == got' = [got EXCEPT ![m] = IF pc[m] = "online"
                           THEN @ \cup { Result(u, g, bad, f[u]) : u \in ToHost(m, g) } ELSE @]
           Reached(bad) == reached' = [reached EXCEPT ![m] =
                                @ \cup { u \in ToHost(m, g) : OnPhone(u, g, bad) }]
<1>5. \/ got' = got /\ reached' = reached /\ excused' = IF cfg.k8s THEN excused \cup {m} ELSE excused
      \/ \E bad \in Bad : (\E f \in F : Got(bad, f)) /\ Reached(bad) /\ excused' = excused
  BY DEF Answer
<1>6. ASSUME NEW bad \in Bad, NEW f \in F, Got(bad, f), Reached(bad), excused' = excused
      PROVE  ServedAt(m)'
  BY <1>3, <1>6
<1> HIDE DEF Bad, F, Got, Reached
<1> QED
  BY <1>2, <1>4, <1>5, <1>6

\* The vendor is handed both lists, or the push is excused.
LEMMA VendorHands ==
    ASSUME Maps, NEW m \in Msg, NEW A, NEW B, Vendor(m, A, B)
    PROVE  /\ m \in excused' \/ (handed'[m] = handed[m] \cup A \cup B /\ excused' = excused)
           /\ \A k \in Msg \ {m} : k \in excused' <=> k \in excused
BY DEF Vendor, Maps, OnMsg

LEMMA ServedOffline ==
    ASSUME Base, NEW m \in 1..Len(log), ServedAt(m), Offline(m)
    PROVE  ServedAt(m)' /\ \A k \in Msg \ {m} : k \in excused' <=> k \in excused
<1>0. m \in Msg /\ Maps /\ OnMsg(pc)
  BY MsgRange DEF Base, Maps
<1>1. /\ UNCHANGED <<cfg, log, list, got, reached>>
      /\ pc[m] = "offline"
  BY DEF Offline, GroupUnchanged
<1>2. pc'[m] \in {"again", "defer", "latest"}
  BY <1>0, <1>1, Moves DEF Edge, Goroutine
<1>3. Online(m)' \subseteq reached'[m] /\ Online(m) \subseteq reached[m]
  BY <1>1 DEF ServedAt, Online
<1>4. SUFFICES (Talk(m)' => Served(m)') /\ \A k \in Msg \ {m} : k \in excused' <=> k \in excused
  BY <1>2, <1>3 DEF ServedAt, Before, Afterwards
<1>5. Talk(m)' => Talk(m) /\ log[m].kind \in {"single", "chat"}
  BY <1>1 DEF Talk
<1>6. Talk(m) => /\ cfg.k8s => m \in excused \/ list[m] \subseteq Answered(m)
                 /\ ~cfg.k8s => got[m] = {} \/ list[m] \subseteq Answered(m)
  BY <1>1 DEF ServedAt, Asked
<1>7. CASE log[m].kind = "single"
  <2>1. CASE got[m] = {}
    BY <1>7, <2>1, <1>0 DEF Offline, Served
  <2>2. CASE got[m] # {}
    <3>1. PICK A, B : Vendor(m, A, B) /\ A = OnIos(m) /\ B = (Answered(m) \ A) \ {log[m].from}
      BY <1>7, <2>2 DEF Offline
    <3>2. Talk(m) => m \in excused \/ list[m] \subseteq Answered(m)
      BY <1>6, <2>2
    <3>3. m \in excused => m \in excused'
      BY <1>0, <3>1, VendorHands
    <3> QED
      BY <1>0, <1>1, <1>5, <3>1, <3>2, <3>3, VendorHands DEF Served
  <2> QED
    BY <2>1, <2>2
<1>8. CASE log[m].kind = "chat"
  <2>1. PICK B : B = NeedOffline(m) \ cfg.muted
    OBVIOUS
  <2>2. cfg.k8s => NeedOffline(m) = Answered(m) \ Online(m)
    BY DEF NeedOffline
  <2>3. ~cfg.k8s => list[m] \ ({log[m].from} \cup Online(m)) \subseteq NeedOffline(m)
    BY DEF NeedOffline, Difference
  <2>4. Talk(m) => m \in excused
                \/ list[m] \ {log[m].from} \subseteq reached[m] \cup B \cup cfg.muted
    BY <1>3, <1>6, <2>1, <2>2, <2>3
  <2>5. CASE B = {}
    <3>1. handed' = handed /\ excused' = excused
      BY <1>8, <2>1, <2>5 DEF Offline
    <3> QED
      BY <1>1, <1>5, <1>8, <2>4, <2>5, <3>1 DEF Served
  <2>6. CASE B # {}
    <3>1. PICK A, C : Vendor(m, A, C) /\ B \subseteq A \cup C
      <4>1. CASE cfg.k8s
        BY <1>8, <2>1, <2>6, <4>1 DEF Offline
      <4>2. CASE ~cfg.k8s
        <5>1. Vendor(m, {log[m].from} \cup Online(m), B)
          BY <1>8, <2>1, <2>6, <4>2 DEF Offline
        <5> QED
          BY <5>1
      <4> QED
        BY <4>1, <4>2
    <3> QED
      BY <1>0, <1>1, <1>5, <1>8, <2>4, <3>1, VendorHands DEF Served
  <2> QED
    BY <2>5, <2>6
<1>9. CASE log[m].kind \notin {"single", "chat"}
  BY <1>5, <1>9 DEF Offline
<1> QED
  BY <1>7, <1>8, <1>9

LEMMA ServedGo ==
    ASSUME Base, ServedInv, NEW m \in 1..Len(log), Goroutine(m)
    PROVE  ServedInv'
<1>0. m \in Msg /\ Maps /\ OnMsg(pc) /\ ServedAt(m)
  BY MsgRange DEF Base, ServedInv, Maps
<1>a. SUFFICES ServedAt(m)' /\ \A k \in Msg \ {m} : k \in excused' <=> k \in excused
  BY <1>0, ServedOthers DEF ServedInv
<1>b. /\ Edge(pc[m], pc'[m], log[m].kind) /\ UNCHANGED <<cfg, log>>
  BY <1>0, Moves, GoFrame
<1> USE DEF pushHist
<1>1. CASE Begin(m)
  <2>1. UNCHANGED <<got, reached, handed, excused>> /\ pc[m] = "start"
    BY <1>1 DEF Begin
  <2>2. CASE StartOnline(m, {log[m].user, log[m].from})
    BY <1>0, <1>b, <2>1, <2>2, ServedStart DEF Before
  <2>3. CASE pc' = [pc EXCEPT ![m] = "hash"]
    <3>1. pc'[m] = "hash"
      BY <1>0, <2>3 DEF OnMsg
    <3> QED
      BY <1>0, <1>b, <2>1, <3>1, ServedReading DEF Before
  <2>4. CASE pc' = [pc EXCEPT ![m] = "done"] /\ list' = list
    <3>1. pc'[m] = "done"
      BY <1>0, <2>4 DEF OnMsg
    <3>2. Talk(m)' => list'[m] = {}
      BY <1>0, <1>b, <2>1, <2>4 DEF ServedAt, Talk
    <3>3. Talk(m)' => Served(m)'
      BY <3>2 DEF Served
    <3>4. Online(m)' \subseteq reached'[m]
      BY <1>0, <2>1 DEF ServedAt, Online
    <3> QED
      BY <2>1, <3>1, <3>3, <3>4 DEF ServedAt, Before
  <2> QED
    BY <1>1, <2>2, <2>3, <2>4 DEF Begin
<1>2. CASE FetchHash(m)
  <2>1. UNCHANGED <<got, reached, handed, excused>> /\ pc[m] = "hash"
    BY <1>2 DEF FetchHash
  <2> QED
    BY <1>0, <1>b, <2>1, ServedReading DEF Before, Edge
<1>3. CASE HashIds(m)
  <2>1. UNCHANGED <<got, reached, handed, excused>> /\ pc[m] = "hashIds"
    BY <1>3 DEF HashIds
  <2> QED
    BY <1>0, <1>b, <2>1, ServedReading DEF Before, Edge
<1>4. CASE HashInfo(m)
  <2>1. UNCHANGED <<got, reached, handed, excused>> /\ pc[m] = "hashInfo"
    BY <1>4 DEF HashInfo
  <2> QED
    BY <1>0, <1>b, <2>1, ServedReading DEF Before, Edge
<1>5. CASE Compare(m)
  <2>1. UNCHANGED <<got, reached, handed, excused>> /\ pc[m] = "compare"
    BY <1>5 DEF Compare
  <2>2. CASE StartOnline(m, Targets(m, local.ids))
    BY <1>0, <1>b, <2>1, <2>2, ServedStart DEF Before
  <2>3. CASE pc' = [pc EXCEPT ![m] = "ids"]
    <3>1. pc'[m] = "ids"
      BY <1>0, <2>3 DEF OnMsg
    <3> QED
      BY <1>0, <1>b, <2>1, <3>1, ServedReading DEF Before
  <2> QED
    BY <1>5, <2>2, <2>3 DEF Compare
<1>6. CASE ReadIds(m)
  <2>1. UNCHANGED <<got, reached, handed, excused>> /\ pc[m] = "ids"
    BY <1>6 DEF ReadIds
  <2> QED
    BY <1>0, <1>b, <2>1, ServedReading DEF Before, Edge
<1>7. CASE StoreIds(m)
  <2>1. UNCHANGED <<got, reached, handed, excused>> /\ pc[m] = "store"
    BY <1>7 DEF StoreIds
  <2> QED
    BY <1>0, <1>b, <1>7, <2>1, ServedStart DEF Before, StoreIds
<1>8. CASE \E g \in Gateway : Answer(m, g)
  BY <1>0, <1>8, ServedAnswer
<1>9. CASE Offline(m)
  BY <1>0, <1>9, ServedOffline
<1>10. CASE Defer(m) \/ SetMax(m) \/ Dismiss(m) \/ SetLatest(m)
  <2>1. UNCHANGED <<got, list, reached, handed, excused>>
    BY <1>10 DEF Defer, SetMax, Dismiss, SetLatest
  <2>2. pc[m] \in {"defer", "setMax", "dismissRows", "dismissIds", "dismissHash", "dismissInfo", "latest"}
    BY <1>10 DEF Defer, SetMax, Dismiss, SetLatest
  <2>3. (pc[m] \in Afterwards \/ Dismissing(m)) /\ (pc'[m] \in Afterwards \/ Dismissing(m)')
    BY <1>b, <2>2 DEF Edge, Afterwards, Dismissing
  <2> QED
    BY <1>0, <1>b, <2>1, <2>3, ServedEnding
<1> QED
  BY <1>1, <1>2, <1>3, <1>4, <1>5, <1>6, <1>7, <1>8, <1>9, <1>10 DEF Goroutine

LEMMA ServedOther ==
    ASSUME Base, ServedInv, LockExpires \/ (\E d \in Device : Move(d)) \/ UNCHANGED vars
    PROVE  ServedInv'
<1>1. UNCHANGED <<cfg, log, runVars, pushHist>>
  BY DEF LockExpires, Move, GroupUnchanged, vars, topicVars
<1> QED
  BY <1>1 DEF ServedInv, ServedAt, Online, Talk, Asked, Answered, Served, runVars, pushHist

LEMMA ServedInit == Init => ServedInv
<1> SUFFICES ASSUME Init, NEW m \in Msg PROVE ServedAt(m)
  BY DEF ServedInv
<1>1. pc[m] = "none" /\ list[m] = {} /\ got[m] = {}
  BY DEF Init
<1> QED
  BY <1>1 DEF ServedAt, Online, Before, Afterwards

LEMMA ServedNext == Base /\ ServedInv /\ [Next]_vars => ServedInv'
<1> SUFFICES ASSUME Base, ServedInv, [Next]_vars PROVE ServedInv'
  OBVIOUS
<1>1. ASSUME NEW m \in 1..Len(log), Goroutine(m)
      PROVE  ServedInv'
  BY <1>1, ServedGo
<1> QED
  BY <1>1, ServedService, ServedConsume, ServedCrash, ServedOther DEF Next, Rest

\* Push2User and Push2SuperGroup: whatever gateways, devices and the vendor do
\* and however often the process restarts, a push that ends has reached each of
\* its receivers, handed it to the vendor or found it muted, but for the
\* failures NoOneForgotten excepts by name.
THEOREM NoOneForgottenHolds == Spec => []NoOneForgotten
<1>1. Base /\ ServedInv => NoOneForgotten
  <2> SUFFICES ASSUME Base, ServedInv, NEW m \in Msg, pc[m] = "done",
                      log[m].kind \in {"single", "chat"}, m \notin excused
               PROVE  list[m] \ {log[m].from} \subseteq reached[m] \cup handed[m]
                          \cup (IF log[m].kind = "chat" THEN cfg.muted ELSE {})
    BY DEF NoOneForgotten
  <2> QED
    BY DEF ServedInv, ServedAt, Served, Talk, Afterwards
<1> QED
  BY <1>1, ServedInit, ServedNext, BaseHolds, PTL DEF Spec

-----------------------------------------------------------------------------
(* The member list.                                                        *)

\* A hash shows the membership of u as it is.
Agrees(h, u) == IF joined[u] # 0 THEN <<u, joined[u]>> \in h ELSE \A t \in Nat : <<u, t>> \notin h
\* It knows no join time that is still to come.
Past(h) == \A u \in User : \A t \in Nat : <<u, t>> \in h => t <= clock

TimeInv == /\ clock \in Nat /\ joined \in [User -> Nat]
           /\ \A u \in User : joined[u] <= clock
           /\ hashE.is = "full" => Past(hashE.value)
           /\ Past(local.hash)
           /\ \A m \in Msg : Past(hash[m])

\* What a push must and must not contain is so, and not about to change.
HistInv == \A m \in Msg :
    /\ \A u \in owed[m] : u \in User /\ joined[u] # 0 /\ u \notin Changing
    /\ \A u \in barred[m] : u \in User /\ joined[u] = 0 /\ u \notin Changing

\* The two entries.
EntryInv ==
    /\ idsE.is = "full" /\ ~IdsBehind => idsE.value = Members
    /\ hashE.is = "full" /\ "hash" \notin spoilt => \A u \in User \ Unhashed : Agrees(hashE.value, u)

\* The list holds who it must and nobody it must not.
Right(m, ids) == owed[m] \subseteq ids /\ ids \cap barred[m] = {}
\* Who is a member as the hash shows it is in the list read after the hash.
Covers(h, ids) == \A u \in User : joined[u] # 0 /\ <<u, joined[u]>> \in h => u \in ids
Named(h, ids)  == \A u \in ids : \E t \in Nat : <<u, t>> \in h

\* A push between its reads.
FetchAt(m) == pc[m] = "hashInfo" /\ m \notin stale =>
    /\ Right(m, list[m])
    /\ m \notin late => list[m] = Members
    /\ hashE = Held(m) => \A u \in User \ Unhashed : u \in list[m] <=> joined[u] # 0
HashAt(m) == pc[m] \in {"compare", "ids"} /\ m \notin stale =>
    /\ \A u \in owed[m] \cup barred[m] : Agrees(hash[m], u)
    /\ m \notin late => \A u \in User : Agrees(hash[m], u)
StoreAt(m) == pc[m] = "store" /\ m \notin stale =>
    /\ Right(m, list[m])
    /\ Covers(hash[m], list[m])
    /\ m \notin late => Named(hash[m], list[m])
\* The list it pushes to.
FreshAt(m) == pc[m] \in {"online", "offline"} /\ log[m].kind # "single" =>
    /\ owed[m] \subseteq list[m]
    /\ list[m] \cap barred[m] \subseteq Targets(m, {})

PushAt(m) == FetchAt(m) /\ HashAt(m) /\ StoreAt(m) /\ FreshAt(m)

LocalInv ==
    "list" \notin spoilt =>
        /\ Covers(local.hash, local.ids)
        /\ "pair" \notin spoilt => Named(local.hash, local.ids)

ListInv == /\ TimeInv /\ HistInv /\ EntryInv /\ LocalInv
           /\ \A m \in Msg : PushAt(m)

Flushing == {"flushHash", "flushIds", "flushInfo"}
Clearing == {"dismissIds", "dismissHash", "dismissInfo"}

\* The windows, by where the group service is.
LEMMA Windows ==
    /\ IdsBehind <=> At \in {"flushHash", "flushIds"} \/ \E m \in Msg : pc[m] = "dismissIds"
    /\ Unhashed = (IF At = "flushHash" THEN {asked.user} ELSE {})
                  \cup (IF \E m \in Msg : pc[m] \in {"dismissIds", "dismissHash"} THEN User ELSE {})
    /\ Changing = (IF At \in Flushing THEN {asked.user} ELSE {})
                  \cup (IF \E m \in Msg : pc[m] \in Clearing THEN User ELSE {})
<1>1. IdsBehind <=> At \in {"flushHash", "flushIds"} \/ \E m \in Msg : pc[m] = "dismissIds"
  BY DEF IdsBehind, At
<1>2. At = "flushHash" <=> svc # <<>> /\ Head(svc) = "flushHash"
  BY DEF At
<1>3. At \in Flushing <=> SvcWindow
  BY DEF At, SvcWindow, Flushing
<1> QED
  BY <1>1, <1>2, <1>3 DEF Unhashed, Changing, DismissWindow, Clearing

LEMMA WindowsNext ==
    /\ IdsBehind' <=> At' \in {"flushHash", "flushIds"} \/ \E m \in Msg : pc'[m] = "dismissIds"
    /\ Unhashed' = (IF At' = "flushHash" THEN {asked'.user} ELSE {})
                  \cup (IF \E m \in Msg : pc'[m] \in {"dismissIds", "dismissHash"} THEN User ELSE {})
    /\ Changing' = (IF At' \in Flushing THEN {asked'.user} ELSE {})
                  \cup (IF \E m \in Msg : pc'[m] \in Clearing THEN User ELSE {})
<1>1. IdsBehind' <=> At' \in {"flushHash", "flushIds"} \/ \E m \in Msg : pc'[m] = "dismissIds"
  BY DEF IdsBehind, At
<1>2. At' = "flushHash" <=> svc' # <<>> /\ Head(svc') = "flushHash"
  BY DEF At
<1>3. At' \in Flushing <=> SvcWindow'
  BY DEF At, SvcWindow, Flushing
<1> QED
  BY <1>1, <1>2, <1>3 DEF Unhashed, Changing, DismissWindow, Clearing

LEMMA SameWindows ==
    ASSUME At' = At \/ (At \notin Flushing /\ At' \notin Flushing),
           At \in Flushing => asked' = asked,
           \A k \in Msg : pc'[k] = pc[k] \/ (pc[k] \notin Clearing /\ pc'[k] \notin Clearing)
    PROVE  /\ IdsBehind' <=> IdsBehind
           /\ Unhashed' = Unhashed
           /\ Changing' = Changing
<1>1. /\ (\E m \in Msg : pc'[m] = "dismissIds") <=> (\E m \in Msg : pc[m] = "dismissIds")
      /\ (\E m \in Msg : pc'[m] \in {"dismissIds", "dismissHash"})
            <=> (\E m \in Msg : pc[m] \in {"dismissIds", "dismissHash"})
      /\ (\E m \in Msg : pc'[m] \in Clearing) <=> (\E m \in Msg : pc[m] \in Clearing)
  BY DEF Clearing
<1>2. CASE At' = At /\ At \in Flushing
  BY <1>1, <1>2, Windows, WindowsNext DEF Flushing
<1>3. CASE At \notin Flushing /\ At' \notin Flushing
  <2>1. /\ At \notin {"flushHash", "flushIds"} /\ At' \notin {"flushHash", "flushIds"}
        /\ At # "flushHash" /\ At' # "flushHash"
    BY <1>3 DEF Flushing
  <2> QED
    BY <1>1, <1>3, <2>1, Windows, WindowsNext
<1> QED
  BY <1>2, <1>3

\* No push whose reads or list could have changed.
LEMMA PushFrame ==
    ASSUME NEW k \in Msg, PushAt(k), joined' = joined,
           owed'[k] = owed[k], barred'[k] = barred[k],
           k \in stale' <=> k \in stale, k \in late' <=> k \in late,
           hashE' = Held(k) => hashE = Held(k) /\ Unhashed \subseteq Unhashed',
           pc'[k] \in {"hashInfo", "compare", "ids", "store"} =>
               pc'[k] = pc[k] /\ list'[k] = list[k] /\ hash'[k] = hash[k],
           pc'[k] \in {"online", "offline"} /\ log'[k].kind # "single" =>
               pc[k] \in {"online", "offline"} /\ list'[k] = list[k] /\ log'[k] = log[k]
    PROVE  PushAt(k)'
<1>0. Members' = Members
  BY DEF Members
<1>1. FetchAt(k)'
  <2> SUFFICES ASSUME pc'[k] = "hashInfo", k \notin stale'
               PROVE  /\ Right(k, list[k])'
                      /\ k \notin late' => list'[k] = Members'
                      /\ hashE' = Held(k) => \A u \in User \ Unhashed' : u \in list'[k] <=> joined'[u] # 0
    BY DEF FetchAt
  <2>1. pc[k] = "hashInfo" /\ list'[k] = list[k] /\ k \notin stale
    OBVIOUS
  <2>2. /\ Right(k, list[k])
        /\ k \notin late => list[k] = Members
        /\ hashE = Held(k) => \A u \in User \ Unhashed : u \in list[k] <=> joined[u] # 0
    BY <2>1 DEF PushAt, FetchAt
  <2> QED
    BY <1>0, <2>1, <2>2 DEF Right
<1>2. HashAt(k)'
  BY DEF PushAt, HashAt, Agrees
<1>3. StoreAt(k)'
  BY DEF PushAt, StoreAt, Right, Covers, Named
<1>4. FreshAt(k)'
  BY DEF PushAt, FreshAt, Targets
<1> QED
  BY <1>1, <1>2, <1>3, <1>4 DEF PushAt

\* The steps that write nothing the list depends on, or only take an entry away.
LEMMA ListFrame ==
    ASSUME Base, ListInv, UNCHANGED <<joined, clock, owed, barred, stale, late, spoilt>>,
           idsE' = idsE \/ idsE' = Absent, hashE' = hashE \/ hashE' = Absent,
           local' = local \/ local' = NoList,
           Changing' \subseteq Changing,
           idsE' = Absent \/ (IdsBehind => IdsBehind'),
           hashE' = Absent \/ Unhashed \subseteq Unhashed',
           \A k \in Msg :
               /\ hash'[k] = hash[k] \/ hash'[k] = NoHash
               /\ pc'[k] \in {"hashInfo", "compare", "ids", "store"} =>
                      pc'[k] = pc[k] /\ list'[k] = list[k] /\ hash'[k] = hash[k]
               /\ pc'[k] \in {"online", "offline"} /\ log'[k].kind # "single" =>
                      pc[k] \in {"online", "offline"} /\ list'[k] = list[k] /\ log'[k] = log[k]
    PROVE  ListInv'
<1>0. Absent.is = "absent" /\ \A k \in Msg : Absent # Held(k)
  BY DEF Absent, Held
<1>1. TimeInv'
  <2>1. Past(NoHash)'
    BY DEF Past, NoHash, ListInv, TimeInv
  <2>2. local'.hash = local.hash \/ local'.hash = NoHash
    BY DEF NoList
  <2>3. hashE'.is = "full" => hashE' = hashE
    BY <1>0
  <2>4. \A h : Past(h)' <=> Past(h)
    BY DEF Past
  <2> QED
    BY <2>1, <2>2, <2>3, <2>4 DEF ListInv, TimeInv
<1>2. HistInv'
  BY DEF ListInv, HistInv
<1>3. EntryInv'
  <2>1. idsE'.is = "full" => idsE' = idsE /\ (IdsBehind => IdsBehind')
    BY <1>0
  <2>2. hashE'.is = "full" => hashE' = hashE /\ Unhashed \subseteq Unhashed'
    BY <1>0
  <2> QED
    BY <2>1, <2>2 DEF ListInv, EntryInv, Agrees, Members
<1>4. LocalInv'
  <2>1. CASE local' = local
    BY <2>1 DEF ListInv, LocalInv, Covers, Named
  <2>2. CASE local' = NoList
    <3>1. local'.ids = {} /\ local'.hash = NoHash
      BY <2>2 DEF NoList
    <3>2. \A u \in User : joined[u] # 0 => <<u, joined[u]>> \notin NoHash
      BY DEF NoHash
    <3> QED
      BY <3>1, <3>2 DEF LocalInv, Covers, Named
  <2> QED
    BY <2>1, <2>2
<1>5. ASSUME NEW k \in Msg
      PROVE  PushAt(k)'
  <2>1. hashE' = Held(k) => hashE = Held(k) /\ Unhashed \subseteq Unhashed'
    BY <1>0
  <2>2. PushAt(k)
    BY DEF ListInv
  <2> QED
    BY <2>1, <2>2, PushFrame
<1> QED
  BY <1>1, <1>2, <1>3, <1>4, <1>5 DEF ListInv

\* The calls of the group service that write no row and flush no entry.
LEMMA ListQuiet ==
    ASSUME Base, ListInv, Serve \/ Send \/ Notify \/ Lift \/ MarkDismissed \/ SetLeaverMax
    PROVE  ListInv'
<1>1. SvcInv /\ GroupService
  BY DEF Base, GroupService
<1>2. UNCHANGED <<pc, hash, list, local>>
  BY <1>1, ServiceFrame
<1>3. UNCHANGED <<joined, clock, hashE, idsE, owed, barred, stale, late, spoilt>>
  BY DEF Serve, Send, Notify, Lift, MarkDismissed, SetLeaverMax, groupVars, listHist
<1>4. At \notin Flushing /\ At' \notin Flushing
  <2>1. CASE Serve
    BY <1>1, <2>1, ServeBegins DEF Flushing
  <2>2. CASE Send \/ Notify \/ Lift \/ MarkDismissed \/ SetLeaverMax
    <3>1. PICK s \in {"send", "notify", "lift", "mark", "readMax", "setMax"} : SvcStep(s)
      BY <2>2 DEF Send, Notify, Lift, MarkDismissed, SetLeaverMax
    <3>2. asked' = asked /\ ask' = ask
      BY <2>2 DEF Send, Notify, Lift, MarkDismissed, SetLeaverMax, RestUnchanged
    <3>3. At = s /\ At' = After(asked.kind, s)
      BY <1>1, <3>1, <3>2, ServiceMoves
    <3> QED
      BY <3>1, <3>3 DEF After, Flushing
  <2> QED
    BY <2>1, <2>2
<1>5. (IdsBehind' <=> IdsBehind) /\ Unhashed' = Unhashed /\ Changing' = Changing
  BY <1>2, <1>4, SameWindows
<1>6. ASSUME NEW k \in Msg, pc'[k] \in {"online", "offline"}
      PROVE  log'[k] = log[k]
  <2>1. k <= Len(log) /\ k \in 1..Len(log)
    BY <1>2, <1>6, MsgRange DEF Base, PlaceInv
  <2> QED
    BY <1>1, <2>1, LogGrows DEF Base
<1> QED
  BY <1>2, <1>3, <1>5, <1>6, ListFrame

LEMMA ListFlush ==
    ASSUME Base, ListInv, Flush
    PROVE  ListInv'
<1>1. SvcInv /\ GroupService
  BY DEF Base, GroupService
<1>2. UNCHANGED <<pc, hash, list, local>>
  BY <1>1, ServiceFrame
<1>3. UNCHANGED <<joined, clock, owed, barred, stale, late, spoilt, log, asked, ask>>
  BY DEF Flush, listHist, RestUnchanged
<1>4. /\ Changing' \subseteq Changing
      /\ idsE' = Absent \/ (IdsBehind => IdsBehind')
      /\ hashE' = Absent \/ Unhashed \subseteq Unhashed'
      /\ (idsE' = idsE \/ idsE' = Absent) /\ (hashE' = hashE \/ hashE' = Absent)
  <2>1. CASE SvcStep("flushHash") /\ hashE' = Absent /\ idsE' = idsE
    <3>1. At = "flushHash" /\ At' = "flushIds"
      BY <1>1, <1>3, <2>1, ServiceMoves DEF After
    <3> QED
      BY <1>2, <1>3, <2>1, <3>1, Windows, WindowsNext DEF Flushing
  <2>2. CASE SvcStep("flushIds") /\ idsE' = Absent /\ hashE' = hashE
    <3>1. At = "flushIds" /\ At' = "flushInfo"
      BY <1>1, <1>3, <2>2, ServiceMoves DEF After
    <3> QED
      BY <1>2, <1>3, <2>2, <3>1, Windows, WindowsNext DEF Flushing
  <2>3. CASE SvcStep("flushInfo") /\ UNCHANGED <<hashE, idsE>>
    <3>1. At = "flushInfo" /\ At' \in {"lift", "notify"}
      BY <1>1, <1>3, <2>3, ServiceMoves DEF After
    <3> QED
      BY <1>2, <1>3, <2>3, <3>1, Windows, WindowsNext DEF Flushing
  <2> QED
    BY <2>1, <2>2, <2>3 DEF Flush
<1> QED
  BY <1>2, <1>3, <1>4, ListFrame

LEMMA ListConsume ==
    ASSUME Base, ListInv, Consume
    PROVE  ListInv'
<1>1. UNCHANGED <<joined, clock, hashE, idsE, owed, barred, stale, late, spoilt, local, hash, list, log,
                  svc, asked>>
  BY DEF Consume, GroupUnchanged, listHist, svcVars
<1>2. next \in Msg /\ OnMsg(pc)
  BY MsgRange DEF Base, LogInv, Consume, Maps
<1>3. pc'[next] = "start" /\ \A k \in Msg \ {next} : pc'[k] = pc[k]
  BY <1>2 DEF Consume, OnMsg
<1>4. pc[next] \notin Clearing
  BY DEF Consume, Running, Ended, Clearing
<1>5. At' = At
  BY <1>1 DEF At
<1>6. \A k \in Msg : pc'[k] = pc[k] \/ (pc[k] \notin Clearing /\ pc'[k] \notin Clearing)
  BY <1>3, <1>4 DEF Clearing
<1>7. (IdsBehind' <=> IdsBehind) /\ Unhashed' = Unhashed /\ Changing' = Changing
  BY <1>1, <1>5, <1>6, SameWindows
<1>8. \A k \in Msg : pc'[k] # "start" => pc'[k] = pc[k]
  BY <1>3
<1> QED
  BY <1>1, <1>7, <1>8, ListFrame

LEMMA ListCrash ==
    ASSUME Base, ListInv, Crash
    PROVE  ListInv'
<1>1. UNCHANGED <<joined, clock, hashE, idsE, owed, barred, stale, late, spoilt, log, svc, asked>>
  BY CrashEffect DEF groupVars, svcVars, listHist
<1>2. local' = NoList
  BY CrashEffect
<1>3. \A k \in Msg : /\ hash'[k] = hash[k] \/ hash'[k] = NoHash
                     /\ pc'[k] \in {"none", "lost"} \/ (pc'[k] = pc[k] /\ (Dismissing(k) \/ ~Running(k)))
  BY CrashEffect
<1>4. \A k \in Msg : pc'[k] \notin {"hashInfo", "compare", "ids", "store", "online", "offline"}
  BY <1>3 DEF Dismissing, Running, Ended
<1>5. \A k \in Msg : pc'[k] = pc[k] \/ (pc[k] \notin Clearing /\ pc'[k] \notin Clearing)
  BY CrashEffect DEF Dismissing, Clearing
<1>6. At' = At
  BY <1>1 DEF At
<1>7. (IdsBehind' <=> IdsBehind) /\ Unhashed' = Unhashed /\ Changing' = Changing
  BY <1>1, <1>5, <1>6, SameWindows
<1> QED
  BY <1>1, <1>2, <1>3, <1>4, <1>7, ListFrame

LEMMA ListOther ==
    ASSUME Base, ListInv, LockExpires \/ (\E d \in Device : Move(d)) \/ UNCHANGED vars
    PROVE  ListInv'
<1>1. /\ UNCHANGED <<joined, clock, idsE, owed, barred, stale, late, spoilt, log, svc, asked, local>>
      /\ UNCHANGED runVars
      /\ hashE' = hashE \/ hashE' = Absent
  BY DEF LockExpires, Move, GroupUnchanged, vars, groupVars, svcVars, topicVars, listHist
<1>2. At' = At /\ UNCHANGED <<pc, hash, list>>
  BY <1>1 DEF At, runVars
<1>3. (IdsBehind' <=> IdsBehind) /\ Unhashed' = Unhashed /\ Changing' = Changing
  BY <1>1, <1>2, SameWindows
<1> QED
  BY <1>1, <1>2, <1>3, ListFrame

\* The steps of a goroutine leave the windows alone, but for the dismissal.
LEMMA GoWindows ==
    ASSUME Base, NEW m \in 1..Len(log), Goroutine(m), ~Dismissing(m)
    PROVE  /\ (IdsBehind' <=> IdsBehind) /\ Unhashed' = Unhashed /\ Changing' = Changing
           /\ m \in Msg
<1>1. m \in Msg /\ OnMsg(pc)
  BY MsgRange DEF Base, Maps
<1>2. (\A k \in Msg \ {m} : pc'[k] = pc[k]) /\ Edge(pc[m], pc'[m], log[m].kind)
  BY <1>1, Moves
<1>3. pc[m] \notin Clearing /\ pc'[m] \notin Clearing
  BY <1>2 DEF Edge, Dismissing, Clearing
<1>4. At' = At /\ asked' = asked
  BY GoFrame DEF At
<1> QED
  BY <1>1, <1>2, <1>3, <1>4, SameWindows

\* A goroutine after its list is made.
LEMMA ListPushing ==
    ASSUME Base, ListInv, NEW m \in 1..Len(log),
           (\E g \in Gateway : Answer(m, g)) \/ Offline(m) \/ Defer(m) \/ SetMax(m) \/ SetLatest(m)
    PROVE  ListInv'
<1>1. Goroutine(m)
  BY DEF Goroutine
<1>2. UNCHANGED <<joined, hashE, idsE, owed, barred, stale, late, spoilt, local, hash, list>>
  BY DEF Answer, Offline, Defer, SetMax, SetLatest, listHist
<1>3. pc[m] \in {"online", "again", "offline", "defer", "setMax", "latest"}
  BY DEF Answer, Offline, Defer, SetMax, SetLatest
<1>4. ~Dismissing(m)
  BY <1>3 DEF Dismissing
<1>5. (IdsBehind' <=> IdsBehind) /\ Unhashed' = Unhashed /\ Changing' = Changing /\ m \in Msg
  BY <1>1, <1>4, GoWindows
<1>6. (\A k \in Msg \ {m} : pc'[k] = pc[k]) /\ Edge(pc[m], pc'[m], log[m].kind)
  BY <1>1, <1>5, Moves DEF Base, Maps
<1>7. clock' = clock /\ log' = log
  BY <1>1, GoFrame
<1>8. /\ pc'[m] \notin {"hashInfo", "compare", "ids", "store"}
      /\ pc'[m] \in {"online", "offline"} => pc[m] \in {"online", "offline"}
  BY <1>3, <1>6 DEF Edge
<1>9. \A k \in Msg :
          /\ pc'[k] \in {"hashInfo", "compare", "ids", "store"} => pc'[k] = pc[k]
          /\ pc'[k] \in {"online", "offline"} => pc[k] \in {"online", "offline"}
  BY <1>6, <1>8
<1> QED
  BY <1>2, <1>5, <1>7, <1>9, ListFrame

\* The dismissal after the rows are gone.
LEMMA ListDismissing ==
    ASSUME Base, ListInv, NEW m \in 1..Len(log), Dismiss(m), pc[m] # "dismissRows"
    PROVE  ListInv'
<1>1. Goroutine(m) /\ m \in Msg /\ OnMsg(pc)
  BY MsgRange DEF Goroutine, Base, Maps
<1>2. UNCHANGED <<joined, owed, barred, stale, late, spoilt, local, hash, list, clock, log, svc, asked>>
  BY <1>1, GoFrame DEF Dismiss
<1>3. \A k \in Msg \ {m} : pc'[k] = pc[k]
  BY <1>1, Moves
<1>4. At' = At
  BY <1>2 DEF At
<1>5. /\ Changing' \subseteq Changing
      /\ idsE' = Absent \/ (IdsBehind => IdsBehind')
      /\ hashE' = Absent \/ Unhashed \subseteq Unhashed'
      /\ idsE' = idsE \/ idsE' = Absent
      /\ hashE' = hashE \/ hashE' = Absent
      /\ pc'[m] \in {"dismissHash", "dismissInfo", "latest"}
  <2>1. CASE pc[m] = "dismissIds" /\ idsE' = Absent /\ hashE' = hashE /\ pc'[m] = "dismissHash"
    <3>1. (\E k \in Msg : pc'[k] \in Clearing) => (\E k \in Msg : pc[k] \in Clearing)
      BY <1>1, <1>3, <2>1 DEF Clearing
    <3>2. (\E k \in Msg : pc'[k] \in {"dismissIds", "dismissHash"})
      BY <1>1, <2>1
    <3> QED
      BY <1>2, <1>4, <2>1, <3>1, <3>2, Windows, WindowsNext
  <2>2. CASE pc[m] = "dismissHash" /\ idsE' = idsE /\ hashE' = Absent /\ pc'[m] = "dismissInfo"
    <3>1. (\E k \in Msg : pc'[k] \in Clearing) => (\E k \in Msg : pc[k] \in Clearing)
      BY <1>1, <1>3, <2>2 DEF Clearing
    <3>2. (\E k \in Msg : pc[k] = "dismissIds") => (\E k \in Msg : pc'[k] = "dismissIds")
      BY <1>1, <1>3, <2>2
    <3> QED
      BY <1>2, <1>4, <2>2, <3>1, <3>2, Windows, WindowsNext
  <2>3. CASE pc[m] = "dismissInfo" /\ idsE' = idsE /\ hashE' = hashE /\ pc'[m] = "latest"
    <3>1. (\E k \in Msg : pc'[k] \in Clearing) => (\E k \in Msg : pc[k] \in Clearing)
      BY <1>1, <1>3, <2>3 DEF Clearing
    <3>2. (\E k \in Msg : pc[k] = "dismissIds") => (\E k \in Msg : pc'[k] = "dismissIds")
      BY <1>1, <1>3, <2>3
    <3>3. (\E k \in Msg : pc[k] \in {"dismissIds", "dismissHash"})
             => (\E k \in Msg : pc'[k] \in {"dismissIds", "dismissHash"})
      BY <1>1, <1>3, <2>3
    <3> QED
      BY <1>2, <1>4, <2>3, <3>1, <3>2, <3>3, Windows, WindowsNext
  <2> QED
    BY <1>1, <2>1, <2>2, <2>3 DEF Dismiss, OnMsg
<1>6. \A k \in Msg : pc'[k] \in {"dismissHash", "dismissInfo", "latest"} \/ pc'[k] = pc[k]
  BY <1>3, <1>5
<1> QED
  BY <1>2, <1>5, <1>6, ListFrame

\* A row is written: the user is about to be unknown to hash and ids.
LEMMA ListWriteRow ==
    ASSUME Base, ListInv, WriteRow
    PROVE  ListInv'
<1>1. SvcInv /\ GroupService
  BY DEF Base, GroupService
<1>2. UNCHANGED <<pc, hash, list, local>>
  BY <1>1, ServiceFrame
<1>3. UNCHANGED <<hashE, idsE, stale, spoilt, log, asked, ask>> /\ late' = late \cup WithHash
  BY DEF WriteRow, RestUnchanged
<1>4. At' = "flushHash" /\ asked.user \in User
  BY <1>1, <1>3, ServiceMoves DEF WriteRow, After, SvcInv
<1>5. PICK x \in User : x = asked.user
  BY <1>4
<1>6. IdsBehind' /\ Unhashed' = Unhashed \cup {x} /\ Changing' = Changing \cup {x}
  <2>1. At \notin Flushing
    BY <1>1, <1>3, ServiceMoves DEF WriteRow, Flushing
  <2> QED
    BY <1>2, <1>3, <1>4, <1>5, <2>1, Windows, WindowsNext DEF Flushing
<1>7. \A m \in Msg : owed'[m] = owed[m] \ {x} /\ barred'[m] = barred[m] \ {x}
  BY <1>5 DEF WriteRow
<1>8. clock \in Nat /\ joined \in [User -> Nat] /\ \A u \in User : joined[u] <= clock
  BY DEF ListInv, TimeInv
<1>9. /\ joined' \in [User -> Nat] /\ clock' \in Nat /\ clock <= clock'
      /\ \A u \in User \ {x} : joined'[u] = joined[u]
      /\ joined'[x] = 0 \/ (joined'[x] = clock + 1 /\ clock' = clock + 1)
  BY <1>5, <1>8 DEF WriteRow
<1>10. \A h : Past(h) => Past(h)'
  BY <1>8, <1>9 DEF Past
<1>11. \A h, ids : Past(h) /\ Covers(h, ids) => Covers(h, ids)'
  <2> SUFFICES ASSUME NEW h, NEW ids, Past(h), Covers(h, ids), NEW u \in User,
                      joined'[u] # 0, <<u, joined'[u]>> \in h
               PROVE  u \in ids
    BY DEF Covers
  <2>1. CASE u # x
    BY <1>9, <2>1 DEF Covers
  <2>2. CASE u = x
    <3>1. joined'[u] = clock + 1 /\ joined'[u] \in Nat
      BY <1>8, <1>9, <2>2
    <3>2. joined'[u] <= clock
      BY <3>1 DEF Past
    <3> QED
      BY <1>8, <3>1, <3>2
  <2> QED
    BY <2>1, <2>2
<1>12. TimeInv'
  <2>1. \A u \in User : joined'[u] <= clock'
    BY <1>8, <1>9
  <2> QED
    BY <1>2, <1>3, <1>9, <1>10, <2>1 DEF ListInv, TimeInv
<1>13. HistInv'
  BY <1>6, <1>7, <1>9 DEF ListInv, HistInv
<1>14. EntryInv'
  BY <1>3, <1>6, <1>9 DEF ListInv, EntryInv, Agrees
<1>15. LocalInv'
  BY <1>2, <1>3, <1>11 DEF ListInv, LocalInv, TimeInv, Named
<1>16. ASSUME NEW k \in Msg
       PROVE  PushAt(k)'
  <2>0. PushAt(k) /\ Past(hash[k])
    BY DEF ListInv, TimeInv
  <2>1. FetchAt(k)'
    <3> SUFFICES ASSUME pc[k] = "hashInfo", k \notin stale
                 PROVE  /\ Right(k, list[k])'
                        /\ k \in late'
                        /\ hashE = Held(k) =>
                               \A u \in User \ Unhashed' : u \in list[k] <=> joined'[u] # 0
      BY <1>2, <1>3 DEF FetchAt
    <3>1. Right(k, list[k])'
      BY <1>2, <1>7, <2>0 DEF PushAt, FetchAt, Right
    <3>2. k \in late'
      BY <1>3 DEF WithHash
    <3>3. hashE = Held(k) => \A u \in User \ Unhashed' : u \in list[k] <=> joined'[u] # 0
      BY <1>6, <1>9, <2>0 DEF PushAt, FetchAt
    <3> QED
      BY <3>1, <3>2, <3>3
  <2>2. HashAt(k)'
    <3> SUFFICES ASSUME pc[k] \in {"compare", "ids"}, k \notin stale
                 PROVE  k \in late' /\ \A u \in owed'[k] \cup barred'[k] : Agrees(hash[k], u)'
      BY <1>2, <1>3 DEF HashAt
    <3>1. k \in late'
      BY <1>3 DEF WithHash
    <3>2. ASSUME NEW u \in owed'[k] \cup barred'[k]
          PROVE  Agrees(hash[k], u)'
      <4>1. u \in owed[k] \cup barred[k] /\ u # x /\ u \in User
        BY <1>7 DEF ListInv, HistInv
      <4> QED
        BY <1>2, <1>9, <2>0, <4>1 DEF PushAt, HashAt, Agrees
    <3> QED
      BY <3>1, <3>2
  <2>3. StoreAt(k)'
    BY <1>2, <1>3, <1>7, <1>11, <2>0 DEF PushAt, StoreAt, Right, Named
  <2>4. FreshAt(k)'
    BY <1>2, <1>3, <1>7, <2>0 DEF PushAt, FreshAt, Targets
  <2> QED
    BY <2>1, <2>2, <2>3, <2>4 DEF PushAt
<1> QED
  BY <1>12, <1>13, <1>14, <1>15, <1>16 DEF ListInv

LEMMA ListDismissRows ==
    ASSUME Base, ListInv, NEW m \in 1..Len(log), Dismiss(m), pc[m] = "dismissRows"
    PROVE  ListInv'
<1>1. Goroutine(m) /\ m \in Msg /\ OnMsg(pc)
  BY MsgRange DEF Goroutine, Base, Maps
<1>2. UNCHANGED <<idsE, hashE, stale, spoilt, local, hash, list, clock, log, svc, asked>>
  BY <1>1, GoFrame DEF Dismiss
<1>3. /\ joined' = [u \in User |-> 0] /\ late' = late \cup WithHash
      /\ owed' = [k \in Msg |-> {}] /\ barred' = [k \in Msg |-> {}]
  BY DEF Dismiss
<1>4. pc'[m] = "dismissIds" /\ \A k \in Msg \ {m} : pc'[k] = pc[k]
  BY <1>1 DEF Dismiss, OnMsg
<1>5. IdsBehind' /\ User \subseteq Unhashed'
  BY <1>1, <1>4, WindowsNext
<1>6. \A h : Past(h)' <=> Past(h)
  BY <1>2 DEF Past
<1>7. TimeInv'
  BY <1>2, <1>3, <1>6 DEF ListInv, TimeInv
<1>8. HistInv'
  BY <1>3 DEF HistInv
<1>9. EntryInv'
  BY <1>5 DEF EntryInv
<1>10. LocalInv'
  BY <1>2, <1>3 DEF ListInv, LocalInv, Covers, Named
<1>11. ASSUME NEW k \in Msg
       PROVE  PushAt(k)'
  <2>0. PushAt(k) /\ owed'[k] = {} /\ barred'[k] = {}
    BY <1>3 DEF ListInv
  <2>1. CASE k = m
    BY <1>4, <2>1 DEF PushAt, FetchAt, HashAt, StoreAt, FreshAt
  <2>2. CASE k # m
    <3>1. pc'[k] = pc[k]
      BY <1>4, <2>2
    <3>2. pc[k] \in {"hashInfo", "compare", "ids"} => k \in late'
      BY <1>3 DEF WithHash
    <3>3. FetchAt(k)'
      BY <1>5, <2>0, <3>1, <3>2 DEF FetchAt, Right
    <3>4. HashAt(k)'
      BY <2>0, <3>1, <3>2 DEF HashAt
    <3>5. StoreAt(k)'
      <4> SUFFICES ASSUME pc[k] = "store", k \notin stale, k \notin late
                   PROVE  Named(hash[k], list[k])'
        BY <1>2, <1>3, <2>0, <3>1 DEF StoreAt, Right, Covers
      <4> QED
        BY <1>2, <2>0 DEF PushAt, StoreAt, Named
    <3>6. FreshAt(k)'
      BY <2>0 DEF FreshAt
    <3> QED
      BY <3>3, <3>4, <3>5, <3>6 DEF PushAt
  <2> QED
    BY <2>1, <2>2
<1> QED
  BY <1>7, <1>8, <1>9, <1>10, <1>11 DEF ListInv

\* The other pushes when a goroutine reads.
LEMMA ListOthers ==
    ASSUME Base, ListInv, NEW m \in 1..Len(log), Goroutine(m), ~Dismissing(m), joined' = joined,
           NEW k \in Msg, k # m, owed'[k] = owed[k], barred'[k] = barred[k],
           k \in stale' <=> k \in stale, k \in late' <=> k \in late,
           hashE' = Held(k) => hashE = Held(k)
    PROVE  PushAt(k)'
<1>1. m \in Msg /\ Unhashed' = Unhashed
  BY GoWindows
<1>2. Maps
  BY DEF Base
<1>3. pc'[k] = pc[k] /\ list'[k] = list[k] /\ hash'[k] = hash[k]
  BY <1>1, <1>2, Moves, GoMaps DEF Maps
<1>4. log' = log
  BY GoFrame
<1>5. PushAt(k)
  BY DEF ListInv
<1> QED
  BY <1>1, <1>3, <1>4, <1>5, PushFrame

LEMMA MembersFacts ==
    ASSUME ListInv
    PROVE  /\ \A u \in User : u \in Members <=> joined[u] # 0
           /\ Members \subseteq User
           /\ \A m \in Msg : Right(m, Members)
<1>1. (\A u \in User : u \in Members <=> joined[u] # 0) /\ Members \subseteq User
  BY DEF Members
<1> QED
  BY <1>1 DEF ListInv, HistInv, Right

LEMMA ListBegin ==
    ASSUME Base, ListInv, NEW m \in 1..Len(log), Begin(m)
    PROVE  ListInv'
<1>1. Goroutine(m) /\ pc[m] = "start" /\ ~Dismissing(m)
  BY DEF Goroutine, Begin, Dismissing
<1>2. UNCHANGED <<joined, hashE, idsE, local, hash, stale, late, spoilt, clock, log>>
  BY <1>1, GoFrame DEF Begin
<1>3. (IdsBehind' <=> IdsBehind) /\ Unhashed' = Unhashed /\ Changing' = Changing /\ m \in Msg
  BY <1>1, GoWindows
<1>4. Maps /\ OnMsg(pc)
  BY DEF Base, Maps
<1>5. \A k \in Msg \ {m} : owed'[k] = owed[k] /\ barred'[k] = barred[k]
  BY <1>3, <1>4 DEF Begin, Maps, OnMsg
<1>6. \/ owed'[m] = owed[m] /\ barred'[m] = barred[m]
      \/ owed'[m] = Members \ Changing /\ barred'[m] = User \ (Members \cup Changing)
  BY <1>3, <1>4 DEF Begin, Maps, OnMsg
<1>7. TimeInv'
  <2>1. \A h : Past(h)' <=> Past(h)
    BY <1>2 DEF Past
  <2> QED
    BY <1>2, <2>1 DEF ListInv, TimeInv
<1>8. HistInv'
  <2> SUFFICES ASSUME NEW k \in Msg
               PROVE  /\ \A u \in owed'[k] : u \in User /\ joined[u] # 0 /\ u \notin Changing
                      /\ \A u \in barred'[k] : u \in User /\ joined[u] = 0 /\ u \notin Changing
    BY <1>2, <1>3 DEF HistInv
  <2>1. CASE owed'[k] = owed[k] /\ barred'[k] = barred[k]
    BY <2>1 DEF ListInv, HistInv
  <2>2. CASE owed'[k] = Members \ Changing /\ barred'[k] = User \ (Members \cup Changing)
    BY <2>2, MembersFacts
  <2> QED
    BY <1>5, <1>6, <2>1, <2>2
<1>9. EntryInv'
  BY <1>2, <1>3 DEF ListInv, EntryInv, Agrees, Members
<1>10. LocalInv'
  BY <1>2 DEF ListInv, LocalInv, Covers, Named
<1>11. PushAt(m)'
  <2>1. /\ pc'[m] \notin {"hashInfo", "compare", "ids", "store"}
        /\ pc'[m] \in {"online", "offline"} => log[m].kind = "single"
    <3>1. Edge(pc[m], pc'[m], log[m].kind)
      BY <1>1, <1>3, <1>4, Moves
    <3> QED
      BY <1>1, <3>1 DEF Edge
  <2> QED
    BY <1>2, <2>1 DEF PushAt, FetchAt, HashAt, StoreAt, FreshAt
<1>12. \A k \in Msg : PushAt(k)'
  BY <1>1, <1>2, <1>5, <1>11, ListOthers
<1> QED
  BY <1>7, <1>8, <1>9, <1>10, <1>12 DEF ListInv

\* A step that reads or stores: the history and the rows are as before.
LEMMA ReadFrame ==
    ASSUME Base, ListInv, NEW m \in 1..Len(log), Goroutine(m), ~Dismissing(m), joined' = joined,
           \A k \in Msg : owed'[k] \subseteq owed[k] /\ barred'[k] \subseteq barred[k]
    PROVE  /\ HistInv'
           /\ clock' = clock /\ clock \in Nat /\ joined' \in [User -> Nat] /\ log' = log
           /\ \A u \in User : joined'[u] <= clock'
           /\ \A h : Past(h)' <=> Past(h)
           /\ \A h, u : Agrees(h, u)' <=> Agrees(h, u)
           /\ Members' = Members
           /\ \A k \in Msg \ {m} : hash'[k] = hash[k]
           /\ (IdsBehind' <=> IdsBehind) /\ Unhashed' = Unhashed /\ m \in Msg
<1>1. (IdsBehind' <=> IdsBehind) /\ Unhashed' = Unhashed /\ Changing' = Changing /\ m \in Msg
  BY GoWindows
<1>2. clock' = clock /\ log' = log
  BY GoFrame
<1>3. HistInv'
  BY <1>1 DEF ListInv, HistInv
<1>4. clock \in Nat /\ joined \in [User -> Nat] /\ \A u \in User : joined[u] <= clock
  BY DEF ListInv, TimeInv
<1>5. \A h : Past(h)' <=> Past(h)
  BY <1>2 DEF Past
<1>6. \A h, u : Agrees(h, u)' <=> Agrees(h, u)
  BY DEF Agrees
<1>7. Members' = Members
  BY DEF Members
<1>8. \A k \in Msg \ {m} : hash'[k] = hash[k]
  BY <1>1, GoMaps DEF Base
<1> QED
  BY <1>1, <1>2, <1>3, <1>4, <1>5, <1>6, <1>7, <1>8

LEMMA ListFetchHash ==
    ASSUME Base, ListInv, NEW m \in 1..Len(log), FetchHash(m)
    PROVE  ListInv'
<1>1. Goroutine(m) /\ pc[m] = "hash" /\ ~Dismissing(m)
  BY DEF Goroutine, FetchHash, Dismissing
<1>2. UNCHANGED <<joined, idsE, local, list, owed, barred, spoilt>>
  BY DEF FetchHash
<1>3. /\ HistInv'
      /\ clock' = clock /\ clock \in Nat /\ joined' \in [User -> Nat] /\ log' = log
      /\ \A u \in User : joined'[u] <= clock'
      /\ \A h : Past(h)' <=> Past(h)
      /\ \A h, u : Agrees(h, u)' <=> Agrees(h, u)
      /\ Members' = Members
      /\ \A k \in Msg \ {m} : hash'[k] = hash[k]
      /\ (IdsBehind' <=> IdsBehind) /\ Unhashed' = Unhashed /\ m \in Msg
  BY <1>1, <1>2, ReadFrame
<1>4. Maps
  BY DEF Base
<1>5. LocalInv'
  BY <1>2 DEF ListInv, LocalInv, Covers, Named
<1>6. CASE hashE.is = "full"
  <2>1. /\ hashE' = hashE /\ hash'[m] = hashE.value /\ pc'[m] = "compare"
        /\ stale' = Mark(stale, m, "hash" \in spoilt) /\ late' = Mark(late, m, Unhashed # {})
    BY <1>3, <1>4, <1>6 DEF FetchHash, Maps, OnMsg
  <2>2. TimeInv'
    BY <1>2, <1>3, <1>6, <2>1 DEF ListInv, TimeInv
  <2>3. EntryInv'
    BY <1>2, <1>3, <2>1 DEF ListInv, EntryInv
  <2>4. HashAt(m)'
    <3> SUFFICES ASSUME m \notin stale'
                 PROVE  /\ \A u \in owed[m] \cup barred[m] : Agrees(hashE.value, u)
                        /\ m \notin late' => \A u \in User : Agrees(hashE.value, u)
      BY <1>2, <1>3, <2>1 DEF HashAt
    <3>1. "hash" \notin spoilt
      BY <2>1 DEF Mark
    <3>2. \A u \in User \ Unhashed : Agrees(hashE.value, u)
      BY <1>6, <3>1 DEF ListInv, EntryInv
    <3>3. Unhashed \subseteq Changing
      BY Windows DEF Flushing, Clearing
    <3>4. \A u \in owed[m] \cup barred[m] : u \in User /\ u \notin Unhashed
      BY <1>3, <3>3 DEF ListInv, HistInv
    <3>5. m \notin late' => Unhashed = {}
      BY <2>1 DEF Mark
    <3> QED
      BY <3>2, <3>4, <3>5
  <2>5. PushAt(m)'
    BY <2>1, <2>4 DEF PushAt, FetchAt, StoreAt, FreshAt
  <2>6. \A k \in Msg : k # m => (k \in stale' <=> k \in stale) /\ (k \in late' <=> k \in late)
    BY <2>1 DEF Mark
  <2>7. \A k \in Msg : PushAt(k)'
    BY <1>1, <1>2, <2>1, <2>5, <2>6, ListOthers
  <2> QED
    BY <1>3, <1>5, <2>2, <2>3, <2>7 DEF ListInv
<1>7. CASE hashE.is # "full"
  <2>1. /\ hashE' = Held(m) /\ hash' = hash /\ pc'[m] = "hashIds"
        /\ stale' = stale \ {m} /\ late' = late \ {m}
    BY <1>3, <1>4, <1>7 DEF FetchHash, Maps, OnMsg
  <2>2. hashE'.is = "held" /\ \A k \in Msg : hashE' = Held(k) => k = m
    BY <2>1 DEF Held
  <2>3. TimeInv'
    BY <1>2, <1>3, <2>1, <2>2 DEF ListInv, TimeInv
  <2>4. EntryInv'
    BY <1>2, <1>3, <2>2 DEF ListInv, EntryInv
  <2>5. PushAt(m)'
    BY <2>1 DEF PushAt, FetchAt, HashAt, StoreAt, FreshAt
  <2>6. \A k \in Msg : k # m => (k \in stale' <=> k \in stale) /\ (k \in late' <=> k \in late)
    BY <2>1
  <2>7. \A k \in Msg : PushAt(k)'
    BY <1>1, <1>2, <2>2, <2>5, <2>6, ListOthers
  <2> QED
    BY <1>3, <1>5, <2>3, <2>4, <2>7 DEF ListInv
<1> QED
  BY <1>6, <1>7

\* What a read of the ids returns, and the entry it leaves.
LEMMA IdsRead ==
    ASSUME ListInv, NEW m \in Msg, FillIds(m), joined' = joined, IdsBehind' <=> IdsBehind
    PROVE  /\ m \notin stale' => FetchIds = Members
           /\ idsE'.is = "full" /\ ~IdsBehind' => idsE'.value = Members'
           /\ \A k \in Msg : k # m => (k \in stale' <=> k \in stale)
<1>1. idsE' = Full(FetchIds) /\ stale' = Mark(stale, m, IdsBehind /\ idsE.is = "full")
  BY DEF FillIds
<1>2. idsE'.value = FetchIds
  BY <1>1 DEF Full
<1>3. ~(IdsBehind /\ idsE.is = "full") => FetchIds = Members
  BY DEF FetchIds, ListInv, EntryInv
<1>4. Members' = Members
  BY DEF Members
<1> QED
  BY <1>1, <1>2, <1>3, <1>4 DEF Mark

LEMMA ListHashIds ==
    ASSUME Base, ListInv, NEW m \in 1..Len(log), HashIds(m)
    PROVE  ListInv'
<1>1. Goroutine(m) /\ pc[m] = "hashIds" /\ ~Dismissing(m)
  BY DEF Goroutine, HashIds, Dismissing
<1>2. UNCHANGED <<joined, hashE, local, hash, owed, barred, spoilt, late>> /\ FillIds(m)
  BY DEF HashIds
<1>3. /\ HistInv'
      /\ clock' = clock /\ clock \in Nat /\ joined' \in [User -> Nat] /\ log' = log
      /\ \A u \in User : joined'[u] <= clock'
      /\ \A h : Past(h)' <=> Past(h)
      /\ \A h, u : Agrees(h, u)' <=> Agrees(h, u)
      /\ Members' = Members
      /\ \A k \in Msg \ {m} : hash'[k] = hash[k]
      /\ (IdsBehind' <=> IdsBehind) /\ Unhashed' = Unhashed /\ m \in Msg
  BY <1>1, <1>2, ReadFrame
<1>4. Maps
  BY DEF Base
<1>5. /\ m \notin stale' => FetchIds = Members
      /\ idsE'.is = "full" /\ ~IdsBehind' => idsE'.value = Members'
      /\ \A k \in Msg : k # m => (k \in stale' <=> k \in stale)
  BY <1>2, <1>3, IdsRead
<1>6. pc'[m] = "hashInfo" /\ list'[m] = FetchIds
  BY <1>3, <1>4 DEF HashIds, FillIds, Maps, OnMsg
<1>7. TimeInv'
  BY <1>2, <1>3 DEF ListInv, TimeInv
<1>8. EntryInv'
  BY <1>2, <1>3, <1>5 DEF ListInv, EntryInv
<1>9. LocalInv'
  BY <1>2 DEF ListInv, LocalInv, Covers, Named
<1>10. FetchAt(m)'
  <2> SUFFICES ASSUME m \notin stale'
               PROVE  /\ Right(m, Members)
                      /\ \A u \in User \ Unhashed : u \in Members <=> joined[u] # 0
    BY <1>2, <1>3, <1>5, <1>6 DEF FetchAt, Right
  <2> QED
    BY <1>3, MembersFacts
<1>11. PushAt(m)'
  BY <1>6, <1>10 DEF PushAt, HashAt, StoreAt, FreshAt
<1>12. \A k \in Msg : PushAt(k)'
  BY <1>1, <1>2, <1>5, <1>11, ListOthers
<1> QED
  BY <1>3, <1>7, <1>8, <1>9, <1>12 DEF ListInv

LEMMA ListHashInfo ==
    ASSUME Base, ListInv, NEW m \in 1..Len(log), HashInfo(m)
    PROVE  ListInv'
<1>1. Goroutine(m) /\ pc[m] = "hashInfo" /\ ~Dismissing(m)
  BY DEF Goroutine, HashInfo, Dismissing
<1>2. UNCHANGED <<joined, idsE, local, list, owed, barred, stale, late>>
  BY DEF HashInfo
<1>3. /\ HistInv'
      /\ clock' = clock /\ clock \in Nat /\ joined' \in [User -> Nat] /\ log' = log
      /\ \A u \in User : joined'[u] <= clock'
      /\ \A h : Past(h)' <=> Past(h)
      /\ \A h, u : Agrees(h, u)' <=> Agrees(h, u)
      /\ Members' = Members
      /\ \A k \in Msg \ {m} : hash'[k] = hash[k]
      /\ (IdsBehind' <=> IdsBehind) /\ Unhashed' = Unhashed /\ m \in Msg
  BY <1>1, <1>2, ReadFrame
<1>4. Maps
  BY DEF Base
<1>5. PICK row \in [User -> 0..clock] :
          /\ \A u \in User : row[u] \in Infos(u)
          /\ hash' = [hash EXCEPT ![m] = HashOf(list[m], row)]
  BY DEF HashInfo
<1>6. PICK h : h = HashOf(list[m], row)
  OBVIOUS
<1>7. /\ hash'[m] = h /\ pc'[m] = "compare"
      /\ hashE' = IF hashE = Held(m) THEN Full(h) ELSE hashE
      /\ spoilt' = IF hashE = Held(m) THEN Mark(spoilt, "hash", m \in stale) ELSE spoilt
  BY <1>3, <1>4, <1>5, <1>6 DEF HashInfo, Maps, OnMsg
<1>8. Past(h)
  BY <1>3, <1>5, <1>6 DEF HashOf, Past
<1>9. \A u \in User : joined[u] # 0 => row[u] = joined[u]
  BY <1>5 DEF Infos
\* The hash of a list shows a user as it is if the list does.
<1>10. ASSUME NEW u \in User, u \in list[m] <=> joined[u] # 0
       PROVE  Agrees(h, u)
  <2>1. CASE joined[u] # 0
    <3>1. u \in list[m] /\ row[u] = joined[u]
      BY <1>9, <1>10, <2>1
    <3> QED
      BY <1>6, <2>1, <3>1 DEF HashOf, Agrees
  <2>2. CASE joined[u] = 0
    <3>1. u \notin list[m]
      BY <1>10, <2>2
    <3>2. \A t \in Nat : <<u, t>> \notin h
      BY <1>6, <3>1 DEF HashOf
    <3> QED
      BY <2>2, <3>2 DEF Agrees
  <2> QED
    BY <2>1, <2>2
<1>11. Full(h).is = "full" /\ Full(h).value = h
  BY DEF Full
<1>12. FetchAt(m)
  BY <1>3 DEF ListInv, PushAt
<1>13. TimeInv'
  <2>1. hashE'.is = "full" => Past(hashE'.value)
    BY <1>7, <1>8, <1>11 DEF ListInv, TimeInv
  <2>2. \A k \in Msg : Past(hash'[k])
    BY <1>3, <1>7, <1>8 DEF ListInv, TimeInv
  <2> QED
    BY <1>2, <1>3, <2>1, <2>2 DEF ListInv, TimeInv
<1>14. EntryInv'
  <2>1. CASE hashE = Held(m)
    <3>1. "hash" \notin spoilt' => m \notin stale
      BY <1>7, <2>1 DEF Mark
    <3>2. m \notin stale => \A u \in User \ Unhashed : Agrees(h, u)
      BY <1>1, <1>10, <1>12, <2>1 DEF FetchAt
    <3>3. hashE'.value = h
      BY <1>7, <1>11, <2>1
    <3> QED
      BY <1>2, <1>3, <3>1, <3>2, <3>3 DEF ListInv, EntryInv
  <2>2. CASE hashE # Held(m)
    BY <1>2, <1>3, <1>7, <2>2 DEF ListInv, EntryInv
  <2> QED
    BY <2>1, <2>2
<1>15. LocalInv'
  <2>1. ("list" \in spoilt' <=> "list" \in spoilt) /\ ("pair" \in spoilt' <=> "pair" \in spoilt)
    BY <1>7 DEF Mark
  <2> QED
    BY <1>2, <2>1 DEF ListInv, LocalInv, Covers, Named
<1>16. HashAt(m)'
  <2> SUFFICES ASSUME m \notin stale
               PROVE  /\ \A u \in owed[m] \cup barred[m] : Agrees(h, u)
                      /\ m \notin late => \A u \in User : Agrees(h, u)
    BY <1>2, <1>3, <1>7 DEF HashAt
  <2>1. \A u \in owed[m] \cup barred[m] : u \in User /\ (u \in list[m] <=> joined[u] # 0)
    BY <1>1, <1>3, <1>12 DEF FetchAt, Right, ListInv, HistInv
  <2>2. m \notin late => \A u \in User : u \in list[m] <=> joined[u] # 0
    BY <1>1, <1>12, MembersFacts DEF FetchAt
  <2> QED
    BY <1>10, <2>1, <2>2
<1>17. PushAt(m)'
  BY <1>7, <1>16 DEF PushAt, FetchAt, StoreAt, FreshAt
<1>18. \A k \in Msg : hashE' = Held(k) => hashE = Held(k)
  BY <1>7 DEF Full, Held
<1>19. \A k \in Msg : PushAt(k)'
  BY <1>1, <1>2, <1>17, <1>18, ListOthers
<1> QED
  BY <1>3, <1>13, <1>14, <1>15, <1>19 DEF ListInv

\* The push goes to the list with the leaver.
LEMMA FreshStart ==
    ASSUME Maps, NEW m \in Msg, NEW ids, StartOnline(m, Targets(m, ids)), log' = log,
           owed'[m] \subseteq ids, ids \cap barred'[m] = {}
    PROVE  PushAt(m)'
<1>1. list'[m] = Targets(m, ids) /\ pc'[m] \in {"online", "offline"}
  BY DEF StartOnline, Maps, OnMsg
<1>2. owed'[m] \subseteq list'[m] /\ list'[m] \cap barred'[m] \subseteq Targets(m, {})'
  BY <1>1 DEF Targets
<1> QED
  BY <1>1, <1>2 DEF PushAt, FetchAt, HashAt, StoreAt, FreshAt

LEMMA ListCompare ==
    ASSUME Base, ListInv, NEW m \in 1..Len(log), Compare(m)
    PROVE  ListInv'
<1>1. Goroutine(m) /\ pc[m] = "compare" /\ ~Dismissing(m)
  BY DEF Goroutine, Compare, Dismissing
<1>a. Maps /\ m \in Msg
  BY MsgRange DEF Base
<1>b. UNCHANGED <<hashE, idsE, local, hash, stale, late, spoilt>>
  BY DEF Compare
<1>c. \A k \in Msg : k # m => owed'[k] = owed[k] /\ barred'[k] = barred[k]
  BY <1>a DEF Compare, Excuse, Maps, OnMsg
<1>d. owed'[m] \in {owed[m], {}} /\ barred'[m] \in {barred[m], {}}
  BY <1>a DEF Compare, Excuse, Maps, OnMsg
<1>2. joined' = joined /\ \A k \in Msg : owed'[k] \subseteq owed[k] /\ barred'[k] \subseteq barred[k]
  BY <1>a, <1>c, <1>d DEF Compare
<1>3. /\ HistInv'
      /\ clock' = clock /\ clock \in Nat /\ joined' \in [User -> Nat] /\ log' = log
      /\ \A u \in User : joined'[u] <= clock'
      /\ \A h : Past(h)' <=> Past(h)
      /\ \A h, u : Agrees(h, u)' <=> Agrees(h, u)
      /\ Members' = Members
      /\ \A k \in Msg \ {m} : hash'[k] = hash[k]
      /\ (IdsBehind' <=> IdsBehind) /\ Unhashed' = Unhashed /\ m \in Msg
  BY <1>1, <1>2, ReadFrame
<1>5. TimeInv'
  BY <1>b, <1>3 DEF ListInv, TimeInv
<1>6. EntryInv'
  BY <1>b, <1>3 DEF ListInv, EntryInv
<1>7. LocalInv'
  BY <1>2, <1>b DEF ListInv, LocalInv, Covers, Named
<1>8. PushAt(m)'
  <2>1. CASE UseLocal(m) /\ StartOnline(m, Targets(m, local.ids))
             /\ Excuse(m, m \in stale \/ "list" \in spoilt,
                          m \in stale \/ "list" \in spoilt \/ "pair" \in spoilt)
    <3>1. /\ owed'[m] = IF m \in stale \/ "list" \in spoilt THEN {} ELSE owed[m]
          /\ barred'[m] = IF m \in stale \/ "list" \in spoilt \/ "pair" \in spoilt THEN {} ELSE barred[m]
      BY <1>a, <2>1 DEF Excuse, Maps, OnMsg
    <3>2. HashAt(m) /\ local.hash = hash[m]
      BY <1>a, <2>1 DEF ListInv, PushAt, UseLocal
    <3>3. owed'[m] \subseteq local.ids
      <4> SUFFICES ASSUME NEW u \in owed[m], m \notin stale, "list" \notin spoilt
                   PROVE  u \in local.ids
        BY <3>1
      <4>1. u \in User /\ joined[u] # 0
        BY <1>a DEF ListInv, HistInv
      <4>2. <<u, joined[u]>> \in local.hash
        BY <1>1, <3>2, <4>1 DEF HashAt, Agrees
      <4> QED
        BY <4>1, <4>2 DEF ListInv, LocalInv, Covers
    <3>4. local.ids \cap barred'[m] = {}
      <4> SUFFICES ASSUME NEW u \in barred[m], u \in local.ids, m \notin stale, "list" \notin spoilt,
                          "pair" \notin spoilt
                   PROVE  FALSE
        BY <3>1
      <4>1. u \in User /\ joined[u] = 0
        BY <1>a DEF ListInv, HistInv
      <4>2. \A t \in Nat : <<u, t>> \notin local.hash
        BY <1>1, <3>2, <4>1 DEF HashAt, Agrees
      <4> QED
        BY <4>2 DEF ListInv, LocalInv, Named
    <3> QED
      BY <1>3, <1>a, <2>1, <3>3, <3>4, FreshStart
  <2>2. CASE pc' = [pc EXCEPT ![m] = "ids"] /\ UNCHANGED <<owed, barred>>
    <3>1. pc'[m] = "ids"
      BY <1>a, <2>2 DEF Maps, OnMsg
    <3>2. HashAt(m)
      BY <1>a DEF ListInv, PushAt
    <3>3. HashAt(m)'
      BY <1>1, <1>3, <1>b, <2>2, <3>2 DEF HashAt
    <3> QED
      BY <3>1, <3>3 DEF PushAt, FetchAt, StoreAt, FreshAt
  <2> QED
    BY <2>1, <2>2 DEF Compare
<1>9. \A k \in Msg : PushAt(k)'
  BY <1>1, <1>2, <1>b, <1>c, <1>8, ListOthers
<1> QED
  BY <1>3, <1>5, <1>6, <1>7, <1>9 DEF ListInv

LEMMA ListReadIds ==
    ASSUME Base, ListInv, NEW m \in 1..Len(log), ReadIds(m)
    PROVE  ListInv'
<1>1. Goroutine(m) /\ pc[m] = "ids" /\ ~Dismissing(m)
  BY DEF Goroutine, ReadIds, Dismissing
<1>2. UNCHANGED <<joined, hashE, local, hash, owed, barred, spoilt>> /\ FillIds(m)
  BY DEF ReadIds
<1>3. /\ HistInv'
      /\ clock' = clock /\ clock \in Nat /\ joined' \in [User -> Nat] /\ log' = log
      /\ \A u \in User : joined'[u] <= clock'
      /\ \A h : Past(h)' <=> Past(h)
      /\ \A h, u : Agrees(h, u)' <=> Agrees(h, u)
      /\ Members' = Members
      /\ \A k \in Msg \ {m} : hash'[k] = hash[k]
      /\ (IdsBehind' <=> IdsBehind) /\ Unhashed' = Unhashed /\ m \in Msg
  BY <1>1, <1>2, ReadFrame
<1>4. Maps
  BY DEF Base
<1>5. /\ m \notin stale' => FetchIds = Members
      /\ idsE'.is = "full" /\ ~IdsBehind' => idsE'.value = Members'
      /\ \A k \in Msg : k # m => (k \in stale' <=> k \in stale)
  BY <1>2, <1>3, IdsRead
<1>6. /\ pc'[m] = "store" /\ list'[m] = FetchIds
      /\ late' = IF m \in stale THEN late \cup {m} ELSE late
  BY <1>3, <1>4 DEF ReadIds, FillIds, Maps, OnMsg
<1>7. TimeInv'
  BY <1>2, <1>3 DEF ListInv, TimeInv
<1>8. EntryInv'
  BY <1>2, <1>3, <1>5 DEF ListInv, EntryInv
<1>9. LocalInv'
  BY <1>2 DEF ListInv, LocalInv, Covers, Named
<1>10. StoreAt(m)'
  <2> SUFFICES ASSUME m \notin stale'
               PROVE  /\ Right(m, Members)
                      /\ Covers(hash[m], Members)
                      /\ m \notin late' => Named(hash[m], Members)
    BY <1>2, <1>3, <1>5, <1>6 DEF StoreAt, Right, Covers, Named
  <2>1. Right(m, Members)
    BY <1>3, MembersFacts
  <2>2. Covers(hash[m], Members)
    BY MembersFacts DEF Covers
  <2>3. ASSUME m \notin late', NEW u \in Members
        PROVE  \E t \in Nat : <<u, t>> \in hash[m]
    <3>1. m \notin late /\ m \notin stale
      BY <1>6, <2>3
    <3>2. Agrees(hash[m], u) /\ joined[u] # 0 /\ u \in User
      BY <1>1, <1>3, <2>3, <3>1, MembersFacts DEF ListInv, PushAt, HashAt
    <3>3. joined[u] \in Nat
      BY <3>2 DEF ListInv, TimeInv
    <3> QED
      BY <3>2, <3>3 DEF Agrees
  <2> QED
    BY <2>1, <2>2, <2>3 DEF Named
<1>11. PushAt(m)'
  BY <1>6, <1>10 DEF PushAt, FetchAt, HashAt, FreshAt
<1>12. \A k \in Msg : k # m => (k \in late' <=> k \in late)
  BY <1>6
<1>13. \A k \in Msg : PushAt(k)'
  BY <1>1, <1>2, <1>5, <1>11, <1>12, ListOthers
<1> QED
  BY <1>3, <1>7, <1>8, <1>9, <1>13 DEF ListInv

LEMMA ListStoreIds ==
    ASSUME Base, ListInv, NEW m \in 1..Len(log), StoreIds(m)
    PROVE  ListInv'
<1>1. Goroutine(m) /\ pc[m] = "store" /\ ~Dismissing(m)
  BY DEF Goroutine, StoreIds, Dismissing
<1>a. Maps /\ m \in Msg
  BY MsgRange DEF Base
<1>b. /\ UNCHANGED <<hashE, idsE, hash, stale, late>>
      /\ local'.hash = hash[m] /\ local'.ids = list[m]
      /\ spoilt' = Mark(Mark(spoilt, "list", m \in stale), "pair", m \in late)
  BY DEF StoreIds
<1>c. \A k \in Msg : k # m => owed'[k] = owed[k] /\ barred'[k] = barred[k]
  BY <1>a DEF StoreIds, Excuse, Maps, OnMsg
<1>d. /\ owed'[m] = IF m \in stale THEN {} ELSE owed[m]
      /\ barred'[m] = IF m \in stale THEN {} ELSE barred[m]
  BY <1>a DEF StoreIds, Excuse, Maps, OnMsg
<1>2. joined' = joined /\ \A k \in Msg : owed'[k] \subseteq owed[k] /\ barred'[k] \subseteq barred[k]
  BY <1>a, <1>c, <1>d DEF StoreIds
<1>3. /\ HistInv'
      /\ clock' = clock /\ clock \in Nat /\ joined' \in [User -> Nat] /\ log' = log
      /\ \A u \in User : joined'[u] <= clock'
      /\ \A h : Past(h)' <=> Past(h)
      /\ \A h, u : Agrees(h, u)' <=> Agrees(h, u)
      /\ Members' = Members
      /\ \A k \in Msg \ {m} : hash'[k] = hash[k]
      /\ (IdsBehind' <=> IdsBehind) /\ Unhashed' = Unhashed /\ m \in Msg
  BY <1>1, <1>2, ReadFrame
<1>4. StoreAt(m)
  BY <1>a DEF ListInv, PushAt
<1>5. TimeInv'
  BY <1>a, <1>b, <1>3 DEF ListInv, TimeInv
<1>6. EntryInv'
  <2>1. "hash" \in spoilt' <=> "hash" \in spoilt
    BY <1>b DEF Mark
  <2> QED
    BY <1>b, <1>3, <2>1 DEF ListInv, EntryInv
<1>7. LocalInv'
  <2>1. ("list" \notin spoilt' => m \notin stale) /\ ("pair" \notin spoilt' => m \notin late)
    BY <1>b DEF Mark
  <2> QED
    BY <1>1, <1>2, <1>4, <1>b, <2>1 DEF LocalInv, StoreAt, Covers, Named
<1>8. PushAt(m)'
  <2>1. owed'[m] \subseteq list[m] /\ list[m] \cap barred'[m] = {}
    BY <1>1, <1>4, <1>d DEF StoreAt, Right
  <2> QED
    BY <1>3, <1>a, <2>1, FreshStart DEF StoreIds
<1>9. \A k \in Msg : PushAt(k)'
  BY <1>1, <1>2, <1>b, <1>c, <1>8, ListOthers
<1> QED
  BY <1>3, <1>5, <1>6, <1>7, <1>9 DEF ListInv

LEMMA ListInit == Init => ListInv
<1> SUFFICES ASSUME Init PROVE ListInv
  OBVIOUS
<1>0. PICK s \in Scenario : joined = [u \in User |-> IF u \in s.member THEN 1 ELSE 0]
  BY DEF Init
<1>1. /\ clock = 1 /\ hashE = Absent /\ idsE = Absent /\ local = NoList
      /\ \A m \in Msg : pc[m] = "none" /\ hash[m] = NoHash /\ owed[m] = {} /\ barred[m] = {}
  BY DEF Init
<1>2. Absent.is = "absent" /\ local.hash = NoHash /\ local.ids = {}
  BY <1>1 DEF Absent, NoList
<1>3. Past(NoHash)
  BY <1>1 DEF Past, NoHash
<1>4. TimeInv
  BY <1>0, <1>1, <1>2, <1>3 DEF TimeInv
<1>5. HistInv
  BY <1>1 DEF HistInv
<1>6. EntryInv
  BY <1>1, <1>2 DEF EntryInv
<1>7. LocalInv
  BY <1>2 DEF LocalInv, Covers, Named, NoHash
<1>8. \A m \in Msg : PushAt(m)
  BY <1>1 DEF PushAt, FetchAt, HashAt, StoreAt, FreshAt
<1> QED
  BY <1>4, <1>5, <1>6, <1>7, <1>8 DEF ListInv

LEMMA ListNext == Base /\ ListInv /\ [Next]_vars => ListInv'
<1> SUFFICES ASSUME Base, ListInv, [Next]_vars PROVE ListInv'
  OBVIOUS
<1>1. CASE GroupService
  BY <1>1, ListQuiet, ListFlush, ListWriteRow DEF GroupService
<1>2. ASSUME NEW m \in 1..Len(log), Goroutine(m)
      PROVE  ListInv'
  BY <1>2, ListBegin, ListFetchHash, ListHashIds, ListHashInfo, ListCompare, ListReadIds,
      ListStoreIds, ListPushing, ListDismissRows, ListDismissing DEF Goroutine
<1> QED
  BY <1>1, <1>2, ListConsume, ListCrash, ListOther DEF Next, Rest

\* GroupLocalCache over GROUP_MEMBERS_HASH and GROUP_MEMBER_IDS: whoever joins
\* and leaves, in whatever order pushes read the two entries, compare and store,
\* and wherever the process restarts, a push misses no one who has been a member
\* since before it began and goes to no one who has been outside since then, but
\* for the two kinds of reads ListFresh excepts by name.
THEOREM ListFreshHolds == Spec => []ListFresh
<1>1. ListInv => ListFresh
  BY DEF ListInv, PushAt, FreshAt, ListFresh
<1> QED
  BY <1>1, ListInit, ListNext, BaseHolds, PTL DEF Spec

-----------------------------------------------------------------------------
(* The limit of a leaver.                                                  *)

Left(m, u) == m \in 1..Len(log) /\ log[m].kind \in LeftKinds /\ log[m].user = u

\* u's row is deleted and the group service has still to set its limit.
PastDelete(u) == /\ At \in {"flushHash", "flushIds", "flushInfo", "notify", "readMax", "setMax"}
                 /\ asked.kind \in {"quit", "kick"} /\ asked.user = u
\* u's row is created and its limit not yet lifted.
BeforeLift(u) == /\ At \in {"flushHash", "flushIds", "flushInfo", "lift"}
                 /\ asked.kind = "join" /\ asked.user = u

\* The rows as the call under way left them; only a dismissal can have taken them since.
RowInv == /\ \A u \in User : PastDelete(u) => joined[u] = 0
          /\ \A u \in User : BeforeLift(u) => joined[u] # 0 \/ dismissed
          /\ At = "delete" => joined[asked.user] # 0 \/ dismissed
\* The notifications of a dismissal follow it.
GoneInv == /\ dismissed \in BOOLEAN
           /\ At = "notify" /\ asked.kind = "dismiss" => dismissed
           /\ \A m \in 1..Len(log) : log[m].kind \in {"goneMsg", "goneTip"} => dismissed
SeqInv == /\ joined \in [User -> Nat] /\ clock \in Nat
          /\ leftAt \in [User -> Int] /\ convMax = [u \in User |-> convMax[u]]
          /\ \A u \in User : leftAt[u] <= maxSeq

\* A member whose limit was lifted: all the pushes of its leavings have ended.
MemberAt(u) == u \in Members /\ ~BeforeLift(u) =>
    convMax[u] = 0 /\ \A m \in Msg : Left(m, u) => Ended(m)

\* One who left: whoever sets its limit sets it in the range.
GoneAt(u) == u \notin Members /\ leftAt[u] # -1 /\ ~dismissed =>
    /\ PastDelete(u) \/ convMax[u] \in leftAt[u]..maxSeq
    /\ PastDelete(u) /\ At = "setMax" => svcMax \in leftAt[u]..maxSeq
    /\ \A m \in Msg : Left(m, u) /\ pc[m] = "setMax" => val[m] \in leftAt[u]..maxSeq

LeaverInv == /\ SeqInv /\ GoneInv /\ RowInv
             /\ \A u \in User \ rejoined : MemberAt(u) /\ GoneAt(u)

LEMMA LeaverInit == Init => LeaverInv
<1> SUFFICES ASSUME Init PROVE LeaverInv
  OBVIOUS
<1>1. PICK s \in Scenario : joined = [u \in User |-> IF u \in s.member THEN 1 ELSE 0]
  BY DEF Init
<1>2. /\ svc = <<>> /\ log = <<>> /\ Len(log) = 0 /\ dismissed = FALSE /\ clock = 1 /\ maxSeq = 1
      /\ leftAt = [u \in User |-> -1] /\ convMax = [u \in User |-> 0]
  BY DEF Init
<1>3. At = "idle"
  BY <1>2 DEF At
<1>4. SeqInv
  BY <1>1, <1>2 DEF SeqInv
<1>a. \A m \in 1..Len(log) : FALSE
  BY <1>2
<1>b. GoneInv
  BY <1>2, <1>3, <1>a DEF GoneInv
<1>c. RowInv
  BY <1>2, <1>3 DEF RowInv, PastDelete, BeforeLift
<1>6. \A u \in User : MemberAt(u) /\ GoneAt(u)
  BY <1>2 DEF MemberAt, GoneAt, Left
<1> QED
  BY <1>4, <1>b, <1>c, <1>6 DEF LeaverInv

\* A step that writes neither the rows nor the limits.
LEMMA LeaverFrame ==
    ASSUME Base, LeaverInv, UNCHANGED <<joined, convMax, leftAt, pc, val>>,
           rejoined \subseteq rejoined', dismissed => dismissed',
           maxSeq' \in Nat, maxSeq <= maxSeq', Len(log') \in Nat, Len(log) <= Len(log'),
           \A m \in 1..Len(log) : log'[m] = log[m],
           \A m \in (Len(log) + 1)..Len(log') :
               log'[m].kind \in LeftKinds => joined[log'[m].user] = 0,
           \A u \in User : (PastDelete(u)' <=> PastDelete(u)) /\ (BeforeLift(u)' <=> BeforeLift(u)),
           \A u \in User : At' = "setMax" /\ PastDelete(u) =>
               svcMax' \in leftAt[u]..maxSeq' \/ (At = "setMax" /\ svcMax' = svcMax)
    PROVE  \A u \in User \ rejoined' : MemberAt(u)' /\ GoneAt(u)'
<1> SUFFICES ASSUME NEW u \in User \ rejoined' PROVE MemberAt(u)' /\ GoneAt(u)'
  OBVIOUS
<1>1. u \in User \ rejoined /\ MemberAt(u) /\ GoneAt(u) /\ maxSeq \in Nat /\ leftAt[u] \in Int
  BY DEF LeaverInv, SeqInv, Base, LogInv
<1>2. Members' = Members /\ LogInv /\ PlaceInv
  BY DEF Members, Base
<1>4. ASSUME NEW m \in Msg, Left(m, u)'
      PROVE  Left(m, u) \/ (joined[u] = 0 /\ pc[m] = "none")
  <2>1. m \in Nat /\ Len(log) \in Nat /\ m \in 1..Len(log') /\ m > 0
    BY <1>2, <1>4, MsgRange DEF Left
  <2>2. CASE m <= Len(log)
    BY <1>4, <2>1, <2>2 DEF Left
  <2>3. CASE m > Len(log)
    <3>1. m \in (Len(log) + 1)..Len(log')
      BY <2>1, <2>3
    <3>2. joined[u] = 0
      BY <3>1, <1>4 DEF Left
    <3> QED
      BY <3>2, <2>3, <1>2 DEF PlaceInv
  <2> QED
    BY <2>1, <2>2, <2>3
<1>5. MemberAt(u)'
  BY <1>1, <1>2, <1>4 DEF MemberAt, Members, Ended
<1>6. leftAt[u]..maxSeq \subseteq leftAt[u]..maxSeq'
  BY <1>1 DEF Base, LogInv
<1>7. GoneAt(u)'
  BY <1>1, <1>2, <1>4, <1>6 DEF GoneAt
<1> QED
  BY <1>5, <1>7

\* The same of the group service: what is left is where the call stands.
LEMMA LeaverStep ==
    ASSUME Base, LeaverInv, GroupService, UNCHANGED <<joined, convMax, leftAt, clock, rejoined>>,
           dismissed' \in BOOLEAN, dismissed => dismissed',
           \A u \in User : (PastDelete(u)' <=> PastDelete(u)) /\ (BeforeLift(u)' <=> BeforeLift(u)),
           At' = "delete" => joined[asked'.user] # 0,
           At' = "notify" /\ asked'.kind = "dismiss" => dismissed',
           At' # "setMax" \/ svcMax' = maxSeq
    PROVE  LeaverInv'
<1>1. SvcInv /\ LogInv /\ SeqInv /\ GoneInv /\ RowInv
  BY DEF Base, LeaverInv
<1>2. pc' = pc /\ val' = val
  BY <1>1, ServiceFrame
<1>3. /\ Len(log) \in Nat /\ Len(log') \in Nat /\ Len(log) <= Len(log')
      /\ maxSeq \in Nat /\ maxSeq' \in Nat /\ maxSeq <= maxSeq'
      /\ \A m \in 1..Len(log) : log'[m] = log[m]
  BY <1>1, LogGrows, MsgRange DEF LogInv
<1>4. \A m \in (Len(log) + 1)..Len(log') :
          /\ log'[m].kind \in LeftKinds => joined[log'[m].user] = 0
          /\ log'[m].kind \in {"goneMsg", "goneTip"} => dismissed
  <2> SUFFICES ASSUME NEW m \in (Len(log) + 1)..Len(log')
               PROVE  /\ log'[m].kind \in LeftKinds => joined[log'[m].user] = 0
                      /\ log'[m].kind \in {"goneMsg", "goneTip"} => dismissed
    OBVIOUS
  <2>1. /\ log'[m].user = asked.user /\ (At = "notify" \/ log'[m].kind \in {"single", "chat"})
        /\ log'[m].kind \in {"goneMsg", "goneTip"} => asked.kind = "dismiss"
        /\ log'[m].kind \in LeftKinds => asked.kind \in {"quit", "kick"}
    BY <1>1, LogGrows
  <2>2. ASSUME log'[m].kind \in LeftKinds
        PROVE  joined[log'[m].user] = 0
    <3>1. PastDelete(asked.user) /\ asked.user \in User
      BY <1>1, <2>1, <2>2 DEF PastDelete, SvcInv, LeftKinds
    <3> QED
      BY <3>1, <2>1, <1>1 DEF RowInv
  <2>3. ASSUME log'[m].kind \in {"goneMsg", "goneTip"}
        PROVE  dismissed
    BY <1>1, <2>1, <2>3 DEF GoneInv
  <2> QED
    BY <2>2, <2>3
<1>5. SeqInv'
  BY <1>1, <1>3 DEF SeqInv
<1>6. RowInv'
  BY <1>1 DEF RowInv
<1>7. \A m \in 1..Len(log') : log'[m].kind \in {"goneMsg", "goneTip"} => dismissed
  <2>1. \A m \in 1..Len(log') : m \in 1..Len(log) \/ m \in (Len(log) + 1)..Len(log')
    BY <1>3
  <2> QED
    BY <2>1, <1>1, <1>3, <1>4 DEF GoneInv
<1>8. GoneInv'
  BY <1>7 DEF GoneInv
<1>9. \A u \in User : At' = "setMax" /\ PastDelete(u) =>
          svcMax' \in leftAt[u]..maxSeq' \/ (At = "setMax" /\ svcMax' = svcMax)
  BY <1>1, <1>3 DEF SeqInv
<1>10. \A u \in User \ rejoined' : MemberAt(u)' /\ GoneAt(u)'
  BY <1>2, <1>3, <1>4, <1>9, LeaverFrame
<1> QED
  BY <1>5, <1>6, <1>8, <1>10 DEF LeaverInv

LEMMA LeaverQuiet ==
    ASSUME Base, LeaverInv, Serve \/ Send \/ Notify \/ Flush \/ MarkDismissed
    PROVE  LeaverInv'
<1>1. SvcInv /\ GroupService /\ dismissed \in BOOLEAN
  BY DEF Base, GroupService, LeaverInv, GoneInv
<1>2. UNCHANGED <<joined, convMax, leftAt, clock, rejoined>>
  BY DEF Serve, Send, Notify, Flush, MarkDismissed, groupVars, leaveHist
<1>3. CASE Serve
  <2>1. dismissed' = dismissed
    BY <1>3 DEF Serve, groupVars
  <2>2. /\ At = "idle" /\ At' \in {"idle", "send", "delete", "create", "mark"}
        /\ At' = "delete" => joined[asked'.user] # 0
    BY <1>1, <1>3, ServeBegins DEF Members
  <2>3. \A u \in User : (PastDelete(u)' <=> PastDelete(u)) /\ (BeforeLift(u)' <=> BeforeLift(u))
    BY <2>2 DEF PastDelete, BeforeLift
  <2> QED
    BY <1>1, <1>2, <2>1, <2>2, <2>3, LeaverStep
<1>4. CASE Send
  <2>1. dismissed' = dismissed
    BY <1>4 DEF Send
  <2>2. At = "send" /\ At' = "idle"
    BY <1>1, <1>4, ServiceMoves DEF Send, RestUnchanged, After
  <2>3. \A u \in User : (PastDelete(u)' <=> PastDelete(u)) /\ (BeforeLift(u)' <=> BeforeLift(u))
    BY <2>2 DEF PastDelete, BeforeLift
  <2> QED
    BY <1>1, <1>2, <2>1, <2>2, <2>3, LeaverStep
<1>5. CASE Notify
  <2>1. dismissed' = dismissed /\ asked' = asked
    BY <1>5 DEF Notify, RestUnchanged
  <2>2. /\ At = "notify" /\ asked.kind \in {"quit", "kick", "dismiss"}
        /\ At' = IF asked.kind = "dismiss" THEN "idle" ELSE "readMax"
    BY <1>1, <1>5, ServiceMoves DEF Notify, RestUnchanged, After
  <2>3. \A u \in User : (PastDelete(u)' <=> PastDelete(u)) /\ (BeforeLift(u)' <=> BeforeLift(u))
    BY <2>1, <2>2 DEF PastDelete, BeforeLift
  <2>4. At' \notin {"delete", "notify", "setMax"}
    BY <2>2
  <2> QED
    BY <1>1, <1>2, <2>1, <2>3, <2>4, LeaverStep
<1>6. CASE Flush
  <2>1. dismissed' = dismissed /\ asked' = asked
    BY <1>6 DEF Flush, RestUnchanged
  <2>2. PICK s \in {"flushHash", "flushIds", "flushInfo"} : SvcStep(s)
    BY <1>6 DEF Flush
  <2>3. At = s /\ At' = After(asked.kind, s) /\ asked.kind \in {"quit", "kick", "join"}
    BY <1>1, <1>6, <2>2, ServiceMoves DEF Flush, RestUnchanged
  <2>4. /\ At \in {"flushHash", "flushIds", "flushInfo"}
        /\ At' \in {"flushIds", "flushInfo"} \cup (IF asked.kind = "join" THEN {"lift"} ELSE {"notify"})
    BY <2>2, <2>3 DEF After
  <2>5. \A u \in User : (PastDelete(u)' <=> PastDelete(u)) /\ (BeforeLift(u)' <=> BeforeLift(u))
    BY <2>1, <2>3, <2>4 DEF PastDelete, BeforeLift
  <2>6. At' \notin {"delete", "setMax"} /\ asked'.kind # "dismiss"
    BY <2>1, <2>3, <2>4
  <2> QED
    BY <1>1, <1>2, <2>1, <2>5, <2>6, LeaverStep
<1>7. CASE MarkDismissed
  <2>1. dismissed' = TRUE /\ asked' = asked
    BY <1>7 DEF MarkDismissed, RestUnchanged
  <2>2. At = "mark" /\ asked.kind = "dismiss" /\ At' = "notify"
    BY <1>1, <1>7, ServiceMoves DEF MarkDismissed, RestUnchanged, After
  <2>3. \A u \in User : (PastDelete(u)' <=> PastDelete(u)) /\ (BeforeLift(u)' <=> BeforeLift(u))
    BY <2>1, <2>2 DEF PastDelete, BeforeLift
  <2> QED
    BY <1>1, <1>2, <2>1, <2>2, <2>3, LeaverStep
<1> QED
  BY <1>3, <1>4, <1>5, <1>6, <1>7

\* The group service sets the limit to the MAX_SEQ it read after the deletion.
LEMMA LeaverSet ==
    ASSUME Base, LeaverInv, SetLeaverMax
    PROVE  LeaverInv'
<1>1. SvcInv /\ LogInv /\ GroupService /\ SeqInv /\ GoneInv /\ RowInv /\ asked.user \in User
  BY DEF Base, GroupService, LeaverInv, SvcInv
<1>2. /\ UNCHANGED <<joined, leftAt, clock, rejoined, dismissed, maxSeq, log, asked, ask>>
      /\ UNCHANGED <<pc, val>>
  BY DEF SetLeaverMax, RestUnchanged, leaveHist, runVars
<1>3. CASE SvcStep("readMax") /\ svcMax' = maxSeq /\ convMax' = convMax
  <2>1. At = "readMax" /\ At' = "setMax"
    BY <1>1, <1>2, <1>3, ServiceMoves DEF After
  <2>2. \A u \in User : (PastDelete(u)' <=> PastDelete(u)) /\ (BeforeLift(u)' <=> BeforeLift(u))
    BY <1>2, <2>1 DEF PastDelete, BeforeLift
  <2>3. dismissed \in BOOLEAN
    BY <1>1 DEF GoneInv
  <2> QED
    BY <1>1, <1>2, <1>3, <2>1, <2>2, <2>3, LeaverStep
<1>4. CASE /\ SvcStep("setMax") /\ svcMax' = svcMax
           /\ convMax' = [convMax EXCEPT ![asked.user] = svcMax]
  <2>1. At = "setMax" /\ At' = "idle" /\ asked.kind \in {"quit", "kick"}
    BY <1>1, <1>2, <1>4, ServiceMoves DEF After
  <2>2. PastDelete(asked.user) /\ joined[asked.user] = 0
    BY <1>1, <2>1 DEF PastDelete, RowInv
  <2>3. \A u \in User : ~PastDelete(u)' /\ ~BeforeLift(u)' /\ ~BeforeLift(u)
    BY <2>1 DEF PastDelete, BeforeLift
  <2>4. convMax'[asked.user] = svcMax /\ \A u \in User \ {asked.user} : convMax'[u] = convMax[u]
    BY <1>1, <1>4 DEF SeqInv
  <2>5. SeqInv'
    BY <1>1, <1>2, <1>4 DEF SeqInv
  <2>6. GoneInv' /\ RowInv'
    BY <1>1, <1>2, <2>1, <2>3 DEF GoneInv, RowInv
  <2>7. ASSUME NEW u \in User \ rejoined'
        PROVE  MemberAt(u)' /\ GoneAt(u)'
    <3>1. MemberAt(u) /\ GoneAt(u) /\ Members' = Members
      BY <1>2, <2>7 DEF LeaverInv, Members
    <3>2. \A m \in Msg : Left(m, u)' <=> Left(m, u)
      BY <1>2 DEF Left
    <3>3. CASE u = asked.user
      BY <1>2, <2>1, <2>2, <2>3, <2>4, <3>1, <3>2, <3>3 DEF MemberAt, GoneAt, Members
    <3>4. CASE u # asked.user
      <4>1. ~PastDelete(u)
        BY <3>4 DEF PastDelete
      <4> QED
        BY <1>2, <2>3, <2>4, <3>1, <3>2, <3>4, <4>1 DEF MemberAt, GoneAt, Ended
    <3> QED
      BY <3>3, <3>4
  <2> QED
    BY <2>5, <2>6, <2>7 DEF LeaverInv
<1> QED
  BY <1>3, <1>4 DEF SetLeaverMax

\* The limit of one who is back is lifted; if a push of its leaving is still to end, it
\* is one of the exceptions.
LEMMA LeaverLift ==
    ASSUME Base, LeaverInv, Lift
    PROVE  LeaverInv'
<1>1. SvcInv /\ LogInv /\ SeqInv /\ GoneInv /\ RowInv /\ asked.user \in User
  BY DEF Base, LeaverInv, SvcInv
<1>2. /\ UNCHANGED <<joined, leftAt, clock, dismissed, maxSeq, log, asked, ask>>
      /\ UNCHANGED <<pc, val>>
  BY DEF Lift, RestUnchanged, runVars
<1>3. At = "lift" /\ At' = "idle" /\ asked.kind = "join"
  BY <1>1, <1>2, ServiceMoves DEF Lift, After
<1>4. BeforeLift(asked.user) /\ (joined[asked.user] # 0 \/ dismissed)
  BY <1>1, <1>3 DEF BeforeLift, RowInv
<1>5. \A u \in User : ~PastDelete(u)' /\ ~BeforeLift(u)' /\ ~PastDelete(u)
  BY <1>3 DEF PastDelete, BeforeLift
<1>6. convMax'[asked.user] = 0 /\ \A u \in User \ {asked.user} : convMax'[u] = convMax[u]
  BY <1>1 DEF SeqInv, Lift
<1>7. SeqInv'
  BY <1>1, <1>2 DEF SeqInv, Lift
<1>8. GoneInv' /\ RowInv'
  BY <1>1, <1>2, <1>3, <1>5 DEF GoneInv, RowInv
<1>9. rejoined \subseteq rejoined' /\
      (asked.user \notin rejoined' =>
          \A m \in 1..Len(log) : log[m].kind \in LeftKinds /\ log[m].user = asked.user => Ended(m))
  BY DEF Lift
<1>10. ASSUME NEW u \in User \ rejoined'
       PROVE  MemberAt(u)' /\ GoneAt(u)'
  <2>1. MemberAt(u) /\ GoneAt(u) /\ Members' = Members
    BY <1>2, <1>9, <1>10 DEF LeaverInv, Members
  <2>2. \A m \in Msg : (Left(m, u)' <=> Left(m, u)) /\ (Ended(m)' <=> Ended(m))
    BY <1>2 DEF Left, Ended
  <2>3. CASE u = asked.user
    <3>1. \A m \in Msg : Left(m, u) => Ended(m)
      BY <1>9, <1>10, <2>3 DEF Left
    <3>2. MemberAt(u)'
      BY <1>6, <2>2, <2>3, <3>1 DEF MemberAt
    <3>3. u \in Members \/ dismissed
      BY <1>4, <2>3 DEF Members
    <3>4. GoneAt(u)'
      BY <1>2, <2>1, <3>3 DEF GoneAt
    <3> QED
      BY <3>2, <3>4
  <2>4. CASE u # asked.user
    <3>1. ~BeforeLift(u)
      BY <2>4 DEF BeforeLift
    <3> QED
      BY <1>2, <1>5, <1>6, <2>1, <2>2, <2>4, <3>1 DEF MemberAt, GoneAt
  <2> QED
    BY <2>3, <2>4
<1> QED
  BY <1>7, <1>8, <1>10 DEF LeaverInv

\* A member's row is deleted: no push of an earlier leaving is about to set its limit.
LEMMA LeaverDelete ==
    ASSUME Base, LeaverInv, WriteRow, SvcStep("delete"),
           joined' = [joined EXCEPT ![asked.user] = 0],
           leftAt' = [leftAt EXCEPT ![asked.user] = maxSeq], clock' = clock
    PROVE  LeaverInv'
<1>1. SvcInv /\ LogInv /\ SeqInv /\ GoneInv /\ RowInv /\ asked.user \in User /\ maxSeq \in Nat
  BY DEF Base, LeaverInv, SvcInv, LogInv
<1>2. /\ UNCHANGED <<dismissed, maxSeq, convMax, svcMax, log, rejoined, asked, ask>>
      /\ UNCHANGED <<pc, val>>
  BY DEF WriteRow, RestUnchanged, runVars
<1>3. At = "delete" /\ At' = "flushHash" /\ asked.kind \in {"quit", "kick"}
  BY <1>1, <1>2, ServiceMoves DEF After
<1>4. joined[asked.user] # 0 \/ dismissed
  BY <1>1, <1>3 DEF RowInv
<1>5. PastDelete(asked.user)' /\ \A u \in User \ {asked.user} : ~PastDelete(u)'
  BY <1>2, <1>3 DEF PastDelete
<1>6. \A u \in User : ~BeforeLift(u)' /\ ~BeforeLift(u) /\ ~PastDelete(u)
  BY <1>2, <1>3 DEF PastDelete, BeforeLift
<1>7. /\ joined' \in [User -> Nat] /\ joined'[asked.user] = 0
      /\ leftAt' \in [User -> Int] /\ leftAt'[asked.user] = maxSeq
      /\ \A u \in User \ {asked.user} : joined'[u] = joined[u] /\ leftAt'[u] = leftAt[u]
  BY <1>1 DEF SeqInv
<1>8. SeqInv'
  <2>1. \A u \in User : leftAt'[u] <= maxSeq
    BY <1>1, <1>7 DEF SeqInv
  <2> QED
    BY <2>1, <1>1, <1>2, <1>7 DEF SeqInv
<1>9. GoneInv'
  BY <1>1, <1>2, <1>3 DEF GoneInv
<1>10. RowInv'
  BY <1>3, <1>5, <1>6, <1>7 DEF RowInv
<1>11. ASSUME NEW u \in User \ rejoined'
       PROVE  MemberAt(u)' /\ GoneAt(u)'
  <2>1. MemberAt(u) /\ GoneAt(u)
    BY <1>2, <1>11 DEF LeaverInv
  <2>2. \A m \in Msg : (Left(m, u)' <=> Left(m, u)) /\ (Ended(m)' <=> Ended(m))
    BY <1>2 DEF Left, Ended
  <2>3. CASE u = asked.user
    <3>1. u \notin Members'
      BY <1>7, <2>3 DEF Members
    <3>2. ASSUME ~dismissed, NEW m \in Msg, Left(m, u)
          PROVE  pc[m] # "setMax"
      <4>1. u \in Members
        BY <1>4, <2>3, <3>2 DEF Members
      <4>2. Ended(m)
        BY <4>1, <1>6, <2>1, <3>2 DEF MemberAt
      <4> QED
        BY <4>2 DEF Ended
    <3>3. MemberAt(u)'
      BY <3>1 DEF MemberAt
    <3>4. PastDelete(u)' /\ At' # "setMax" /\ dismissed' = dismissed /\ pc' = pc
      BY <1>2, <1>3, <1>5, <2>3
    <3>5. ASSUME ~dismissed
          PROVE  \A m \in Msg : ~(Left(m, u)' /\ pc'[m] = "setMax")
      BY <2>2, <3>2, <3>4, <3>5
    <3>6. GoneAt(u)'
      BY <3>4, <3>5 DEF GoneAt
    <3> QED
      BY <3>3, <3>6
  <2>4. CASE u # asked.user
    <3>1. u \in Members' <=> u \in Members
      BY <1>7, <2>4 DEF Members
    <3> QED
      BY <1>2, <1>5, <1>6, <1>7, <2>1, <2>2, <2>4, <3>1 DEF MemberAt, GoneAt
  <2> QED
    BY <2>3, <2>4
<1> QED
  BY <1>8, <1>9, <1>10, <1>11 DEF LeaverInv

LEMMA LeaverCreate ==
    ASSUME Base, LeaverInv, WriteRow, SvcStep("create"),
           joined' = [joined EXCEPT ![asked.user] = clock + 1],
           clock' = clock + 1, leftAt' = leftAt
    PROVE  LeaverInv'
<1>1. SvcInv /\ LogInv /\ SeqInv /\ GoneInv /\ RowInv /\ asked.user \in User /\ maxSeq \in Nat
  BY DEF Base, LeaverInv, SvcInv, LogInv
<1>2. /\ UNCHANGED <<dismissed, maxSeq, convMax, svcMax, log, rejoined, asked, ask>>
      /\ UNCHANGED <<pc, val>>
  BY DEF WriteRow, RestUnchanged, runVars
<1>3. At = "create" /\ At' = "flushHash" /\ asked.kind = "join"
  BY <1>1, <1>2, ServiceMoves DEF After
<1>4. BeforeLift(asked.user)' /\ \A u \in User \ {asked.user} : ~BeforeLift(u)'
  BY <1>2, <1>3 DEF BeforeLift
<1>5. \A u \in User : ~PastDelete(u)' /\ ~BeforeLift(u) /\ ~PastDelete(u)
  BY <1>2, <1>3 DEF PastDelete, BeforeLift
<1>6. /\ joined' \in [User -> Nat] /\ joined'[asked.user] # 0 /\ clock' \in Nat
      /\ \A u \in User \ {asked.user} : joined'[u] = joined[u]
  BY <1>1 DEF SeqInv
<1>7. SeqInv'
  BY <1>1, <1>2, <1>6 DEF SeqInv
<1>8. GoneInv'
  BY <1>1, <1>2, <1>3 DEF GoneInv
<1>9. RowInv'
  BY <1>3, <1>4, <1>5, <1>6 DEF RowInv
<1>10. ASSUME NEW u \in User \ rejoined'
       PROVE  MemberAt(u)' /\ GoneAt(u)'
  <2>1. MemberAt(u) /\ GoneAt(u)
    BY <1>2, <1>10 DEF LeaverInv
  <2>2. \A m \in Msg : (Left(m, u)' <=> Left(m, u)) /\ (Ended(m)' <=> Ended(m))
    BY <1>2 DEF Left, Ended
  <2>3. CASE u = asked.user
    <3>1. u \in Members'
      BY <1>6, <2>3 DEF Members
    <3>2. BeforeLift(u)'
      BY <1>2, <1>3, <2>3 DEF BeforeLift
    <3> QED
      BY <3>1, <3>2 DEF MemberAt, GoneAt
  <2>4. CASE u # asked.user
    <3>1. u \in Members' <=> u \in Members
      BY <1>6, <2>4 DEF Members
    <3> QED
      BY <1>2, <1>4, <1>5, <2>1, <2>2, <2>4, <3>1 DEF MemberAt, GoneAt
  <2> QED
    BY <2>3, <2>4
<1> QED
  BY <1>7, <1>8, <1>9, <1>10 DEF LeaverInv

\* Steps that write none of what LeaverInv speaks of but the places of the goroutines.
LEMMA LeaverPlaces ==
    ASSUME Base, LeaverInv,
           UNCHANGED <<convMax, leftAt, clock, dismissed, maxSeq, svc, asked, svcMax, log>>,
           joined' = joined, rejoined \subseteq rejoined',
           \A m \in Msg, u \in User \ rejoined' : u \in Members /\ Left(m, u) /\ Ended(m) => Ended(m)',
           \A m \in Msg, u \in User : Left(m, u) /\ pc'[m] = "setMax" =>
               (pc[m] = "setMax" /\ val'[m] = val[m]) \/ val'[m] = maxSeq
    PROVE  LeaverInv'
<1>1. At' = At /\ SeqInv /\ GoneInv /\ RowInv /\ maxSeq \in Nat
  BY DEF At, LeaverInv, Base, LogInv
<1>2. \A u \in User : /\ PastDelete(u)' <=> PastDelete(u)
                      /\ BeforeLift(u)' <=> BeforeLift(u)
                      /\ \A m \in Msg : Left(m, u)' <=> Left(m, u)
  BY <1>1 DEF PastDelete, BeforeLift, Left
<1>3. SeqInv'
  BY <1>1 DEF SeqInv
<1>4. GoneInv'
  BY <1>1 DEF GoneInv
<1>5. RowInv'
  BY <1>1, <1>2 DEF RowInv
<1>6. ASSUME NEW u \in User \ rejoined'
      PROVE  MemberAt(u)' /\ GoneAt(u)'
  <2>1. MemberAt(u) /\ GoneAt(u) /\ Members' = Members
    BY <1>6 DEF LeaverInv, Members
  <2>2. MemberAt(u)'
    BY <1>2, <1>6, <2>1 DEF MemberAt
  <2>3. maxSeq \in leftAt[u]..maxSeq
    BY <1>1 DEF SeqInv
  <2>4. ASSUME u \notin Members, leftAt[u] # -1, ~dismissed
        PROVE  /\ PastDelete(u) \/ convMax[u] \in leftAt[u]..maxSeq
               /\ PastDelete(u) /\ At = "setMax" => svcMax \in leftAt[u]..maxSeq
               /\ \A m \in Msg : Left(m, u) /\ pc'[m] = "setMax" => val'[m] \in leftAt[u]..maxSeq
    BY <2>1, <2>3, <2>4 DEF GoneAt
  <2>5. GoneAt(u)'
    BY <1>1, <1>2, <2>1, <2>4 DEF GoneAt
  <2> QED
    BY <2>2, <2>5
<1> QED
  BY <1>3, <1>4, <1>5, <1>6 DEF LeaverInv

\* A message of a leaving that is consumed had no goroutine and had not ended.
LEMMA LeaverConsume ==
    ASSUME Base, LeaverInv, Consume
    PROVE  LeaverInv'
<1>1. Maps /\ SvcInv /\ LogInv /\ PlaceInv
  BY DEF Base
<1>2. next \in Msg /\ next \in 1..Len(log) /\ next >= next /\ next <= Len(log)
  BY <1>1, MsgRange DEF Consume, LogInv
<1>3. pc'[next] = "start" /\ \A k \in Msg \ {next} : pc'[k] = pc[k]
  BY <1>1, <1>2 DEF Consume, Maps, OnMsg
<1>4. /\ UNCHANGED <<joined, convMax, leftAt, clock, dismissed, maxSeq, svc, asked, svcMax, log>>
      /\ rejoined' = rejoined /\ val' = val
  BY DEF Consume, GroupUnchanged, svcVars, leaveHist
<1>5. log[next].kind \in LeftKinds => ~Ended(next)
  <2>1. log[next].kind # "goneTip" => pc[next] = "none"
    BY <1>1, <1>2 DEF PlaceInv
  <2> QED
    BY <2>1 DEF LeftKinds, Ended
<1>6. \A m \in Msg, u \in User \ rejoined' : u \in Members /\ Left(m, u) /\ Ended(m) => Ended(m)'
  BY <1>3, <1>5 DEF Left, Ended
<1>7. \A m \in Msg, u \in User : Left(m, u) /\ pc'[m] = "setMax" =>
          (pc[m] = "setMax" /\ val'[m] = val[m]) \/ val'[m] = maxSeq
  BY <1>3, <1>4
<1> QED
  BY <1>4, <1>6, <1>7, LeaverPlaces

\* A restart ends the pushes it does not repeat; the members whose leavings it repeats
\* are the exceptions.
LEMMA LeaverCrash ==
    ASSUME Base, LeaverInv, Crash
    PROVE  LeaverInv'
<1>1. LogInv
  BY DEF Base
<1>2. PICK c \in committed..next :
          /\ rejoined' = rejoined \cup { u \in Members : \E m \in c..Len(log) :
                                           log[m].kind \in LeftKinds /\ log[m].user = u }
          /\ \A m \in Msg : pc'[m] = IF Dismissing(m) THEN pc[m]
                                     ELSE IF m >= c THEN "none"
                                     ELSE IF Running(m) THEN "lost" ELSE pc[m]
  BY CrashEffect
<1>3. UNCHANGED <<joined, convMax, leftAt, clock, dismissed, maxSeq, svc, asked, svcMax, log>>
  BY CrashEffect DEF groupVars, svcVars
<1>4. c \in Int /\ Len(log) \in Nat
  BY <1>1, <1>2, MsgRange
<1>5. ASSUME NEW m \in Msg, NEW u \in User \ rejoined', u \in Members, Left(m, u), Ended(m)
      PROVE  Ended(m)'
  <2>1. m \in Nat /\ m <= Len(log)
    BY <1>1, <1>5, MsgRange DEF Left
  <2>2. ~(m >= c)
    <3> SUFFICES ASSUME m >= c PROVE FALSE
      OBVIOUS
    <3>1. m \in c..Len(log)
      BY <1>4, <2>1
    <3> QED
      BY <3>1, <1>2, <1>5 DEF Left
  <2>3. ~Dismissing(m) /\ ~Running(m)
    BY <1>5 DEF Dismissing, Running, Ended
  <2> QED
    BY <1>2, <1>5, <2>2, <2>3 DEF Ended
<1>6. \A m \in Msg : pc'[m] # "setMax"
  BY <1>2 DEF Dismissing, Running, Ended
<1> QED
  BY <1>2, <1>3, <1>5, <1>6, LeaverPlaces

LEMMA LeaverOther ==
    ASSUME Base, LeaverInv, LockExpires \/ (\E d \in Device : Move(d)) \/ UNCHANGED vars
    PROVE  LeaverInv'
<1>1. /\ UNCHANGED <<joined, convMax, leftAt, clock, dismissed, maxSeq, svc, asked, svcMax, log>>
      /\ UNCHANGED <<rejoined, pc, val>>
  BY DEF LockExpires, Move, GroupUnchanged, vars, topicVars, groupVars, svcVars, runVars, leaveHist
<1>2. \A m \in Msg : Ended(m)' <=> Ended(m)
  BY <1>1 DEF Ended
<1> QED
  BY <1>1, <1>2, LeaverPlaces

\* The push service sets the limit to the MAX_SEQ it read; of a member whose limit was
\* lifted no such write is left.
LEMMA LeaverSetMax ==
    ASSUME Base, LeaverInv, NEW m \in 1..Len(log), SetMax(m)
    PROVE  LeaverInv'
<1>1. Maps /\ LogInv /\ PlaceInv /\ SeqInv /\ GoneInv /\ RowInv /\ m \in Msg
  BY MsgRange DEF Base, LeaverInv
<1>a. log[m] \in [kind : Kinds, from : User, user : User, seq : Int]
  <2>1. PICK E : E = [kind : Kinds, from : User, user : User, seq : Int]
    OBVIOUS
  <2>2. log \in Seq(E)
    BY <1>1, <2>1 DEF LogInv
  <2>3. log[m] \in E
    BY <2>2
  <2> QED
    BY <2>1, <2>3
<1>b. log[m].user \in User
  BY <1>a
<1>2. PICK v \in User : v = log[m].user
  BY <1>b
<1>3. pc[m] = "setMax" /\ Left(m, v)
  BY <1>1, <1>2 DEF SetMax, PlaceInv, Left
<1>4. UNCHANGED <<joined, leftAt, clock, dismissed, maxSeq, svc, asked, svcMax, log, rejoined, val>>
  BY DEF SetMax, GroupUnchanged, svcVars, leaveHist
<1>5. pc'[m] = "latest" /\ \A k \in Msg \ {m} : pc'[k] = pc[k]
  BY <1>1 DEF SetMax, Maps, OnMsg
<1>6. /\ convMax' = [convMax EXCEPT ![v] = val[m]]
      /\ convMax'[v] = val[m] /\ \A u \in User \ {v} : convMax'[u] = convMax[u]
  BY <1>1, <1>2 DEF SetMax, LeaverMax, SeqInv
<1>7. At' = At
  BY <1>4 DEF At
<1>8. \A u \in User : /\ PastDelete(u)' <=> PastDelete(u)
                      /\ BeforeLift(u)' <=> BeforeLift(u)
                      /\ \A k \in Msg : Left(k, u)' <=> Left(k, u)
  BY <1>4, <1>7 DEF PastDelete, BeforeLift, Left
<1>9. SeqInv'
  BY <1>1, <1>4, <1>6 DEF SeqInv
<1>10. GoneInv'
  BY <1>1, <1>4, <1>7 DEF GoneInv
<1>11. RowInv'
  BY <1>1, <1>4, <1>7, <1>8 DEF RowInv
<1>12. ASSUME NEW u \in User \ rejoined'
       PROVE  MemberAt(u)' /\ GoneAt(u)'
  <2>1. MemberAt(u) /\ GoneAt(u) /\ Members' = Members
    BY <1>4, <1>12 DEF LeaverInv, Members
  <2>2. \A k \in Msg : (Ended(k) => Ended(k)') /\ (pc'[k] = "setMax" => pc[k] = "setMax")
    BY <1>3, <1>5 DEF Ended
  <2>3. CASE u = v
    <3>1. ~Ended(m)
      BY <1>3 DEF Ended
    <3>2. ~(u \in Members /\ ~BeforeLift(u))
      BY <1>1, <1>3, <2>1, <2>3, <3>1 DEF MemberAt
    <3>3. MemberAt(u)'
      BY <1>8, <2>1, <3>2 DEF MemberAt
    <3>4. u \notin Members /\ leftAt[u] # -1 /\ ~dismissed => convMax'[u] \in leftAt[u]..maxSeq
      BY <1>1, <1>3, <1>6, <2>1, <2>3 DEF GoneAt
    <3>5. GoneAt(u)'
      BY <1>4, <1>7, <1>8, <2>1, <2>2, <3>4 DEF GoneAt
    <3> QED
      BY <3>3, <3>5
  <2>4. CASE u # v
    <3>1. convMax'[u] = convMax[u]
      BY <1>6, <2>4
    <3>2. MemberAt(u)'
      BY <1>8, <2>1, <2>2, <3>1 DEF MemberAt
    <3>3. GoneAt(u)'
      BY <1>4, <1>7, <1>8, <2>1, <2>2, <3>1 DEF GoneAt
    <3> QED
      BY <3>2, <3>3
  <2> QED
    BY <2>3, <2>4
<1> QED
  BY <1>9, <1>10, <1>11, <1>12 DEF LeaverInv

\* The rows go with a dismissed group only.
LEMMA LeaverRows ==
    ASSUME Base, LeaverInv, NEW m \in 1..Len(log), Dismiss(m), pc[m] = "dismissRows"
    PROVE  LeaverInv'
<1>1. LogInv /\ PlaceInv /\ SeqInv /\ GoneInv /\ RowInv /\ m \in Msg
  BY MsgRange DEF Base, LeaverInv
<1>2. /\ UNCHANGED <<leftAt, clock, dismissed, maxSeq, svc, asked, svcMax, log, rejoined, convMax>>
      /\ joined' = [u \in User |-> 0]
  BY DEF Dismiss, GroupUnchanged, svcVars, leaveHist
<1>3. dismissed
  BY <1>1 DEF PlaceInv, Dismissing, GoneInv
<1>4. At' = At
  BY <1>2 DEF At
<1>5. SeqInv'
  BY <1>1, <1>2 DEF SeqInv
<1>6. GoneInv'
  BY <1>1, <1>2, <1>4 DEF GoneInv
<1>7. RowInv'
  BY <1>2, <1>3 DEF RowInv
<1>8. Members' = {}
  BY <1>2 DEF Members
<1>9. \A u \in User : MemberAt(u)' /\ GoneAt(u)'
  BY <1>2, <1>3, <1>8 DEF MemberAt, GoneAt
<1> QED
  BY <1>5, <1>6, <1>7, <1>9 DEF LeaverInv

\* The other steps of a goroutine.
LEMMA LeaverGo ==
    ASSUME Base, LeaverInv, NEW m \in 1..Len(log), Goroutine(m),
           ~SetMax(m), pc[m] # "dismissRows"
    PROVE  LeaverInv'
<1>1. Maps /\ LogInv /\ m \in Msg
  BY MsgRange DEF Base
<1>2. UNCHANGED <<leftAt, clock, dismissed, maxSeq, svc, asked, svcMax, log, rejoined>>
  BY GoFrame
<1>3. joined' = joined /\ convMax' = convMax
  <2>1. CASE Begin(m) \/ FetchHash(m) \/ HashIds(m)
    BY <2>1 DEF Begin, FetchHash, HashIds
  <2>2. CASE HashInfo(m) \/ Compare(m) \/ ReadIds(m) \/ StoreIds(m)
    BY <2>2 DEF HashInfo, Compare, ReadIds, StoreIds
  <2>3. CASE (\E g \in Gateway : Answer(m, g)) \/ Offline(m)
    BY <2>3 DEF Answer, Offline
  <2>4. CASE Defer(m) \/ Dismiss(m) \/ SetLatest(m)
    BY <2>4 DEF Defer, Dismiss, SetLatest
  <2> QED
    BY <2>1, <2>2, <2>3, <2>4 DEF Goroutine
<1>4. /\ \A k \in Msg \ {m} : pc'[k] = pc[k] /\ val'[k] = val[k]
      /\ Edge(pc[m], pc'[m], log[m].kind)
  BY <1>1, Moves, GoMaps DEF Maps
<1>5. pc'[m] = "setMax" => val'[m] = maxSeq
  <2> SUFFICES ASSUME pc'[m] = "setMax" PROVE val'[m] = maxSeq
    OBVIOUS
  <2>1. pc[m] = "defer"
    BY <1>4 DEF Edge
  <2>2. Defer(m)
    BY <2>1 DEF Goroutine, Begin, FetchHash, HashIds, HashInfo, Compare, ReadIds, StoreIds, Answer,
        Offline, SetMax, Dismiss, SetLatest
  <2> QED
    BY <2>2, <1>1 DEF Defer, Maps, OnMsg
<1>6. ~Ended(m)
  BY <1>4 DEF Edge, Ended
<1>7. \A k \in Msg : Ended(k) => Ended(k)'
  BY <1>4, <1>6 DEF Ended
<1>8. \A k \in Msg : pc'[k] = "setMax" =>
          (pc[k] = "setMax" /\ val'[k] = val[k]) \/ val'[k] = maxSeq
  BY <1>4, <1>5
<1> QED
  BY <1>2, <1>3, <1>7, <1>8, LeaverPlaces

LEMMA LeaverNext == Base /\ LeaverInv /\ [Next]_vars => LeaverInv'
<1> SUFFICES ASSUME Base, LeaverInv, [Next]_vars PROVE LeaverInv'
  OBVIOUS
<1>1. CASE WriteRow
  BY <1>1, LeaverDelete, LeaverCreate DEF WriteRow
<1>2. CASE GroupService
  BY <1>1, <1>2, LeaverQuiet, LeaverLift, LeaverSet DEF GroupService
<1>3. ASSUME NEW m \in 1..Len(log), Goroutine(m)
      PROVE  LeaverInv'
  <2>1. CASE SetMax(m)
    BY <2>1, LeaverSetMax
  <2>2. CASE pc[m] = "dismissRows"
    <3>1. Dismiss(m)
      BY <1>3, <2>2 DEF Goroutine, Begin, FetchHash, HashIds, HashInfo, Compare, ReadIds, StoreIds,
          Answer, Offline, Defer, SetMax, SetLatest
    <3> QED
      BY <2>2, <3>1, LeaverRows
  <2>3. CASE ~SetMax(m) /\ pc[m] # "dismissRows"
    BY <1>3, <2>3, LeaverGo
  <2> QED
    BY <2>1, <2>2, <2>3
<1> QED
  BY <1>2, <1>3, LeaverConsume, LeaverCrash, LeaverOther DEF Next, Rest

\* DeleteMemberAndSetConversationSeq, run by the group service and again by the push
\* service: whatever messages are numbered between the deletion and either write, in
\* whatever order the two writes and the return of the member come, and wherever the push
\* service restarts, at rest one who left reads up to a seq between MAX_SEQ at its
\* leaving and MAX_SEQ now, and a member reads everything, but for the exceptions
\* LeaverBounded names.
THEOREM LeaverBoundedHolds == Spec => []LeaverBounded
<1>1. LeaverInv => LeaverBounded
  <2> SUFFICES ASSUME LeaverInv, Settled PROVE LeaverBounded
    BY DEF LeaverBounded
  <2>1. At = "idle"
    BY DEF Settled, At
  <2>2. \A u \in User : ~PastDelete(u) /\ ~BeforeLift(u)
    BY <2>1 DEF PastDelete, BeforeLift
  <2> QED
    BY <2>2 DEF LeaverInv, MemberAt, GoneAt, LeaverBounded
<1> QED
  BY <1>1, LeaverInit, LeaverNext, BaseHolds, PTL DEF Spec
=============================================================================
