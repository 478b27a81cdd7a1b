---------------------------- MODULE GroupProofs ------------------------------
(***************************************************************************)
(* Proofs about Group, for any number of users, goroutines, requests and   *)
(* messages and any members to start from.                                 *)
(***************************************************************************)
EXTENDS Group, FiniteSetTheorems, WellFoundedInduction, TLAPS

-----------------------------------------------------------------------------
(* Commands, and the order in which a call issues them.                     *)

StoredKeys == {MaxKey} \cup { Request(u) : u \in User } \cup { Conv(u) : u \in User }
                  \cup { Read(u) : u \in User }
Writes == {"create", "delete", "deleteAll", "demote", "promote", "setRole", "setMuted",
           "setStatus", "setVerify", "delRequest", "addRequest", "handle", "conv", "convMax",
           "userMin", "hasRead", "queue"}
FlushOf(k) == <<"flush", k>>
Reads    == CacheKeys \cup StoredKeys
Commands == Reads \cup {Decide} \cup { Write(w) : w \in Writes } \cup { FlushOf(k) : k \in CacheKeys }
IsWrite(x) == x[1] = "write"
IsFlush(x) == x[1] = "flush"

Has(t, x) == \E i \in DOMAIN t : t[i] = x

\* The keys whose value a write of request o changes (deleteAll apart, which
\* finds its keys when it runs).
Touches(o, x) ==
    IF x = Write("create") THEN {Ids, Member(o.user)}
    ELSE IF x = Write("delete") THEN {Ids, Member(o.user), Owners}
    ELSE IF x = Write("demote") THEN {Member(o.by), Owners}
    ELSE IF x \in {Write("promote"), Write("setRole")} THEN {Member(o.user), Owners}
    ELSE IF x = Write("setMuted") THEN {Member(o.user)}
    ELSE IF x \in {Write("setStatus"), Write("setVerify")} THEN {Info}
    ELSE {}

\* Command x between the write of k's row and the deletion of its entry.
Passes(o, k, x) ==
    \/ ~IsWrite(x)
    \/ x = Write("deleteAll")
    \/ x = Write("promote") /\ k \in {Member(o.by), Owners}

\* A call of request o that has still to do t has written k and not yet deleted its entry.
Owes(o, t, k) ==
    \E j \in DOMAIN t : t[j] = FlushOf(k) /\ \A h \in 1 .. j - 1 : Passes(o, k, t[h])

\* After every write the entries of what it changed are deleted.
Kept(o, t) ==
    \A i \in DOMAIN t : \A k \in Touches(o, t[i]) :
        \E j \in DOMAIN t : i < j /\ t[j] = FlushOf(k) /\ \A h \in i + 1 .. j - 1 : Passes(o, k, t[h])

\* What a call reads once it has begun to write; none of these values ends it.
Late(o) ==
    IF o.kind \in JoinKinds \cup LeaveKinds THEN {Conv(o.user), Read(o.user), MaxKey}
    ELSE IF o.kind = "dismiss" THEN {Ids} ELSE {}
LateReads(o, t) ==
    \A i, j \in DOMAIN t :
        i < j /\ (IsWrite(t[j]) \/ IsFlush(t[j])) /\ ~IsWrite(t[i]) /\ ~IsFlush(t[i]) => t[i] \in Late(o)
DecideLast(t) == \A i \in DOMAIN t : t[i] = Decide => i = Len(t)

\* The writes of joining and leaving, in their order.
Marked(t, x, Y) == \A i, j \in DOMAIN t : t[i] = x /\ t[j] \in Y => i <= j
JoinMarks == {Write("create"), Write("conv"), Write("userMin"), Write("addRequest")}
LeaveMarks == {Write("delete"), Write("convMax")}
Ordered(t) == Marked(t, Write("create"), JoinMarks) /\ Marked(t, Write("delete"), LeaveMarks)
Complete(o, t) ==
    /\ Has(t, Write("create")) => /\ Has(t, Write("conv")) /\ ~Has(t, Write("addRequest"))
                                  /\ o.kind # "approve" => Has(t, Write("userMin"))
    /\ Has(t, Write("delete")) => Has(t, Write("convMax"))
OfKind(o, t) ==
    /\ Has(t, Write("create")) \/ Has(t, Write("conv")) => o.kind \in JoinKinds
    /\ Has(t, Write("delete")) \/ Has(t, Write("convMax")) => o.kind \in LeaveKinds
    /\ Has(t, Write("userMin")) => o.kind \in {"join", "invite"}
    /\ Has(t, Write("demote")) \/ Has(t, Write("promote")) => o.kind = "transfer"
    /\ Has(t, Write("setRole")) => o.kind = "setRole"
    /\ o.kind = "send" => \A i \in DOMAIN t : ~IsFlush(t[i]) /\ (IsWrite(t[i]) => t[i] = Write("queue"))

Plan(o, t) == /\ t \in Seq(Commands) /\ Kept(o, t) /\ LateReads(o, t) /\ DecideLast(t)
              /\ Ordered(t) /\ Complete(o, t) /\ OfKind(o, t)

\* The keys a call has read when it comes to a command: <<command, key>>.
Needs(o) ==
    { <<Write("convMax"), MaxKey>>, <<Write("deleteAll"), Ids>>, <<Write("userMin"), MaxKey>>,
      <<Write("demote"), Member(o.user)>> }
    \cup (IF o.kind \in {"join", "invite"} THEN {<<Decide, MaxKey>>} ELSE {})
    \cup (IF o.kind \in {"approve", "transfer"} THEN {<<Decide, Member(o.user)>>} ELSE {})
    \cup (IF o.kind = "send" THEN {<<Member(o.by), Info>>, <<Decide, Member(o.by)>>,
                                   <<Write("queue"), Member(o.by)>>} ELSE {})
ReadBefore(t, g, x, k) ==
    \A j \in DOMAIN t : t[j] = x => k \in DOMAIN g \/ \E i \in 1 .. j - 1 : t[i] = k
NeedsMet(o, t, g) == \A n \in Needs(o) : ReadBefore(t, g, n[1], n[2])

\* A row of a member, and the values of keys.
Row == [role : Roles, muted : BOOLEAN] \cup {NoRow}
ValueOf(k) ==
    IF k \in {Ids, Owners} THEN SUBSET User
    ELSE IF k = MaxKey THEN Nat \ {0}
    ELSE Row
Typed == {Ids, Owners, MaxKey} \cup { Member(u) : u \in User }
GotOK(o, g) == /\ \A k \in DOMAIN g \cap Typed : g[k] \in ValueOf(k)
               /\ o.kind = "transfer" /\ Member(o.user) \in DOMAIN g => g[Member(o.user)] # NoRow

-----------------------------------------------------------------------------
(* The inductive invariant.                                                 *)

CallOK(c) ==
    \/ /\ op[c] = NoRequest /\ todo[c] = <<>> /\ got[c] = Nothing /\ val[c] = NoFetch
    \/ /\ IsRequest(op[c]) /\ todo[c] # <<>>
       /\ Plan(op[c], todo[c]) /\ NeedsMet(op[c], todo[c], got[c]) /\ GotOK(op[c], got[c])

RowsOK ==
    /\ \A o \in ask : IsRequest(o)
    /\ member \in [User -> Row]
    /\ DOMAIN op = Call /\ DOMAIN todo = Call /\ DOMAIN got = Call /\ DOMAIN val = Call
    /\ DOMAIN entry = CacheKeys
    /\ maxSeq \in Nat \ {0}

\* A fetch: its call is about to read the key; the holder of an entry's lock fetches it.
FetchOK ==
    /\ \A c \in Call : val[c] # NoFetch => /\ Next1(c, CacheKeys)
                                           /\ val[c] = Held(c) \/ val[c].is = "full"
    /\ \A c \in Call : val[c].is = "full" /\ Head(todo[c]) \in Typed =>
           val[c].value \in ValueOf(Head(todo[c]))
    /\ \A k \in CacheKeys :
          \/ entry[k] = Absent
          \/ \E c \in Call : entry[k] = Held(c) /\ val[c] # NoFetch /\ Head(todo[c]) = k
          \/ Cached(k) /\ (k \in Typed => entry[k].value \in ValueOf(k))

CallInv == RowsOK /\ FetchOK /\ \A c \in Call : CallOK(c)

\* The entry of k, or the fetch that holds its lock, has another value than the rows.
Stale(k) ==
    \/ Cached(k) /\ entry[k].value # DbValue(k)
    \/ \E c \in Call : entry[k] = Held(c) /\ val[c].is = "full" /\ val[c].value # DbValue(k)
Excused(k) == k \in abandoned \/ \E c \in Call : Owes(op[c], todo[c], k)
FreshInv == \A k \in CacheKeys : Stale(k) => Excused(k)

\* No call but sends runs beside a send that was barred, so what it reads is what the rows say.
BarredOK(c) ==
    /\ c \in Call /\ op[c].kind = "send" /\ Silenced(op[c].by)
    /\ \A d \in Call : op[d].kind \in {"none", "send"}
    /\ abandoned = {} =>
          /\ Info \in DOMAIN got[c] => got[c][Info] = info
          /\ Member(op[c].by) \notin DOMAIN got[c]
          /\ \A k \in CacheKeys : val[c].is = "full" /\ Head(todo[c]) = k => val[c].value = DbValue(k)
BarredInv == \A c \in barred : BarredOK(c)

Serves(c, u, K) == op[c].kind \in K /\ op[c].user = u
\* A call that has let u in, or found u in the group, and will open the conversation; one
\* that has removed u and will close it.
Opening(c, u) == /\ Serves(c, u, JoinKinds)
                 /\ Has(todo[c], Write("conv")) /\ ~Has(todo[c], Write("create"))
Closing(c, u) == /\ Serves(c, u, LeaveKinds)
                 /\ Has(todo[c], Write("convMax")) /\ ~Has(todo[c], Write("delete"))
\* The entry of u, or the fetch that holds its lock, has a row.
Ghost(u) ==
    \/ Cached(Member(u)) /\ entry[Member(u)].value # NoRow
    \/ \E c \in Call : entry[Member(u)] = Held(c) /\ val[c].is = "full" /\ val[c].value # NoRow

\* The writes of a call about a user, and the first of an answer to a request.
AdmitWrites == {"create", "conv", "hasRead", "userMin", "delRequest", "addRequest"}
WritesFor(o) == IF o.kind \in {"join", "invite"} THEN AdmitWrites
                ELSE IF o.kind = "approve" THEN {"handle", "create", "conv"}
                ELSE IF o.kind \in LeaveKinds THEN {"delete", "convMax"}
                ELSE Writes
Shape(o, t) == /\ \A w \in Writes : Has(t, Write(w)) => w \in WritesFor(o)
               /\ o.kind = "approve" => \A i \in DOMAIN t : t[i] = Write("handle") => i = 1

\* Opening, and nothing before the conversation can end the call.
WillOpen(c, u) == /\ Opening(c, u)
                  /\ ~Has(todo[c], Write("handle")) /\ ~Has(todo[c], Write("addRequest"))

WindowOf(u) ==
    /\ ~(Running(u, JoinKinds) /\ Running(u, LeaveKinds))
    /\ member[u] # NoRow /\ convMax[u] # 0 => \E c \in Call : WillOpen(c, u)
    /\ member[u] = NoRow /\ convMax[u] = 0 => \E c \in Call : Closing(c, u)
    /\ \A c \in Call : Opening(c, u) => member[u] # NoRow
    /\ \A c \in Call : Closing(c, u) => member[u] = NoRow
    /\ member[u] = NoRow /\ Ghost(u) =>
           \E c \in Call : Serves(c, u, LeaveKinds) /\ Owes(op[c], todo[c], Member(u))
    /\ \A c \in Call : Serves(c, u, JoinKinds) =>
           /\ Member(u) \in DOMAIN got[c] /\ got[c][Member(u)] # NoRow => member[u] # NoRow
           /\ val[c].is = "full" /\ Head(todo[c]) = Member(u) /\ val[c].value # NoRow => member[u] # NoRow
WindowInv == /\ DOMAIN convMax = User
             /\ \A c \in Call : Shape(op[c], todo[c])
             /\ \A u \in User \ torn : WindowOf(u)

\* A call that will set u's lower limit.
Hiding(c, u) == /\ Serves(c, u, {"join", "invite"}) /\ Has(todo[c], Write("userMin"))
                /\ ~Has(todo[c], Write("create")) /\ ~Has(todo[c], Write("addRequest"))
HistoryInv ==
    /\ asked \in [User -> Int] /\ userMin \in [User -> Nat] /\ began \in [Call -> Nat]
    /\ \A c \in Call : began[c] <= maxSeq
    /\ \A u \in User : asked[u] <= maxSeq
    /\ \A c \in Call : Serves(c, op[c].user, JoinKinds) =>
           /\ asked[op[c].user] <= began[c]
           /\ MaxKey \in DOMAIN got[c] => began[c] <= got[c][MaxKey]
    /\ \A u \in User \ torn : userMin[u] > asked[u] \/ \E c \in Call : Hiding(c, u)

-----------------------------------------------------------------------------
(* Keys and commands are told apart by their first component.               *)

LEMMA Tags ==
    /\ Info[1] = "info" /\ Ids[1] = "ids" /\ Owners[1] = "owners" /\ MaxKey[1] = "max"
    /\ Begin[1] = "begin" /\ Decide[1] = "decide"
    /\ \A u : Member(u)[1] = "member" /\ Member(u)[2] = u
    /\ \A u : Request(u)[1] = "request" /\ Request(u)[2] = u
    /\ \A u : Conv(u)[1] = "conv" /\ Conv(u)[2] = u
    /\ \A u : Read(u)[1] = "hasRead" /\ Read(u)[2] = u
    /\ \A w : Write(w)[1] = "write" /\ Write(w)[2] = w
    /\ \A k : FlushOf(k)[1] = "flush" /\ FlushOf(k)[2] = k
BY DEF Info, Ids, Owners, MaxKey, Begin, Decide, Member, Request, Conv, Read, Write, FlushOf

LEMMA ReadTags ==
    ASSUME NEW x \in Reads \cup {Decide}
    PROVE  ~IsWrite(x) /\ ~IsFlush(x)
BY Tags DEF Reads, CacheKeys, StoredKeys, IsWrite, IsFlush

LEMMA CommandKinds ==
    ASSUME NEW x \in Commands
    PROVE  \/ x \in Reads \cup {Decide}
           \/ \E w \in Writes : x = Write(w)
           \/ \E k \in CacheKeys : x = FlushOf(k)
BY DEF Commands

\* The records that stand in an entry or in a fetch.
LEMMA EntryFacts ==
    /\ Absent.is = "absent" /\ NoFetch = Absent
    /\ \A c : Held(c).is = "held" /\ Held(c).by = c
    /\ \A v : Full(v).is = "full" /\ Full(v).value = v
BY DEF Absent, NoFetch, Held, Full

-----------------------------------------------------------------------------
(* Plans.                                                                   *)

LEMMA TailFacts ==
    ASSUME NEW S, NEW t \in Seq(S), t # <<>>
    PROVE  /\ Len(t) \in Nat \ {0} /\ DOMAIN t = 1 .. Len(t)
           /\ Head(t) = t[1] /\ t[1] \in S
           /\ Tail(t) \in Seq(S) /\ Len(Tail(t)) = Len(t) - 1 /\ DOMAIN Tail(t) = 1 .. Len(t) - 1
           /\ \A i \in 1 .. Len(t) - 1 : Tail(t)[i] = t[i + 1]
OBVIOUS

LEMMA ConcatFacts ==
    ASSUME NEW S, NEW s \in Seq(S), NEW t \in Seq(S)
    PROVE  /\ s \o t \in Seq(S) /\ Len(s \o t) = Len(s) + Len(t)
           /\ Len(s) \in Nat /\ Len(t) \in Nat
           /\ DOMAIN s = 1 .. Len(s) /\ DOMAIN t = 1 .. Len(t)
           /\ DOMAIN (s \o t) = 1 .. Len(s) + Len(t)
           /\ \A i \in 1 .. Len(s) : (s \o t)[i] = s[i]
           /\ \A i \in 1 .. Len(t) : (s \o t)[Len(s) + i] = t[i]
OBVIOUS

LEMMA TailHas ==
    ASSUME NEW S, NEW t \in Seq(S), t # <<>>, NEW x
    PROVE  /\ Has(t, x) => x = Head(t) \/ Has(Tail(t), x)
           /\ Has(Tail(t), x) => Has(t, x)
           /\ Has(t, Head(t))
<1>1. PICK n \in Nat \ {0} : n = Len(t)
  OBVIOUS
<1>2. PICK r : r = Tail(t)
  OBVIOUS
<1>3. /\ DOMAIN t = 1 .. n /\ Head(t) = t[1]
      /\ DOMAIN r = 1 .. n - 1
      /\ \A i \in 1 .. n - 1 : r[i] = t[i + 1]
  BY <1>1, <1>2, TailFacts
<1>4. ASSUME NEW i \in DOMAIN t, t[i] = x, i # 1 PROVE Has(r, x)
  <2>1. i - 1 \in DOMAIN r /\ r[i - 1] = t[i]
    BY <1>3, <1>4
  <2> QED BY <1>4, <2>1 DEF Has
<1>5. ASSUME NEW i \in DOMAIN r, r[i] = x PROVE Has(t, x)
  <2>1. i + 1 \in DOMAIN t /\ t[i + 1] = r[i]
    BY <1>3
  <2> QED BY <1>5, <2>1 DEF Has
<1>6. 1 \in DOMAIN t
  BY <1>3
<1> QED BY <1>2, <1>3, <1>4, <1>5, <1>6 DEF Has

LEMMA TailOwes ==
    ASSUME NEW S, NEW t \in Seq(S), t # <<>>, NEW o, NEW k
    PROVE  /\ Owes(o, t, k) /\ Head(t) # FlushOf(k) => Owes(o, Tail(t), k)
           /\ Passes(o, k, Head(t)) /\ Owes(o, Tail(t), k) => Owes(o, t, k)
           /\ Owes(o, t, k) => Has(t, FlushOf(k)) /\ (Head(t) = FlushOf(k) \/ Passes(o, k, Head(t)))
<1>1. PICK n \in Nat \ {0} : n = Len(t)
  OBVIOUS
<1>2. PICK r : r = Tail(t)
  OBVIOUS
<1>3. /\ DOMAIN t = 1 .. n /\ Head(t) = t[1]
      /\ DOMAIN r = 1 .. n - 1
      /\ \A i \in 1 .. n - 1 : r[i] = t[i + 1]
  BY <1>1, <1>2, TailFacts
<1>4. ASSUME Owes(o, t, k) PROVE Has(t, FlushOf(k)) /\ (Head(t) = FlushOf(k) \/ Passes(o, k, Head(t)))
  <2>1. PICK j \in DOMAIN t : t[j] = FlushOf(k) /\ \A h \in 1 .. j - 1 : Passes(o, k, t[h])
    BY <1>4 DEF Owes
  <2>2. j = 1 \/ 1 \in 1 .. j - 1
    BY <1>3
  <2> QED BY <1>3, <2>1, <2>2 DEF Has
<1>5. ASSUME Owes(o, t, k), Head(t) # FlushOf(k) PROVE Owes(o, r, k)
  <2>1. PICK j \in DOMAIN t : t[j] = FlushOf(k) /\ \A h \in 1 .. j - 1 : Passes(o, k, t[h])
    BY <1>5 DEF Owes
  <2>2. j - 1 \in DOMAIN r /\ r[j - 1] = FlushOf(k)
    BY <1>3, <1>5, <2>1
  <2>3. ASSUME NEW h \in 1 .. (j - 1) - 1 PROVE Passes(o, k, r[h])
    <3>1. h + 1 \in 1 .. j - 1 /\ r[h] = t[h + 1]
      BY <1>3
    <3> QED BY <2>1, <3>1
  <2> QED BY <2>2, <2>3 DEF Owes
<1>6. ASSUME Passes(o, k, Head(t)), Owes(o, r, k) PROVE Owes(o, t, k)
  <2>1. PICK j \in DOMAIN r : r[j] = FlushOf(k) /\ \A h \in 1 .. j - 1 : Passes(o, k, r[h])
    BY <1>6 DEF Owes
  <2>2. j + 1 \in DOMAIN t /\ t[j + 1] = FlushOf(k)
    BY <1>3, <2>1
  <2>3. ASSUME NEW h \in 1 .. (j + 1) - 1 PROVE Passes(o, k, t[h])
    <3>1. CASE h = 1
      BY <1>3, <1>6, <3>1
    <3>2. CASE h # 1
      <4>1. h - 1 \in 1 .. j - 1 /\ r[h - 1] = t[h]
        BY <1>3, <3>2
      <4> QED BY <2>1, <4>1
    <3> QED BY <3>1, <3>2
  <2> QED BY <2>2, <2>3 DEF Owes
<1> QED BY <1>2, <1>4, <1>5, <1>6

\* A call that has issued a command goes on with a plan.
LEMMA PlanTail ==
    ASSUME NEW o, NEW t, Plan(o, t), t # <<>>
    PROVE  Plan(o, Tail(t))
<1>0. t \in Seq(Commands)
  BY DEF Plan
<1>1. PICK n \in Nat \ {0} : n = Len(t)
  BY <1>0
<1>2. PICK r : r = Tail(t)
  OBVIOUS
<1>3. /\ DOMAIN t = 1 .. n /\ Head(t) = t[1]
      /\ DOMAIN r = 1 .. n - 1 /\ r \in Seq(Commands) /\ Len(r) = n - 1
      /\ \A i \in 1 .. n - 1 : r[i] = t[i + 1]
  BY <1>0, <1>1, <1>2, TailFacts
<1>4. Kept(o, r)
  <2> SUFFICES ASSUME NEW i \in DOMAIN r, NEW k \in Touches(o, r[i])
               PROVE  \E j \in DOMAIN r : /\ i < j /\ r[j] = FlushOf(k)
                                          /\ \A h \in i + 1 .. j - 1 : Passes(o, k, r[h])
    BY DEF Kept
  <2>1. i + 1 \in DOMAIN t /\ k \in Touches(o, t[i + 1])
    BY <1>3
  <2>2. PICK j \in DOMAIN t : /\ i + 1 < j /\ t[j] = FlushOf(k)
                              /\ \A h \in (i + 1) + 1 .. j - 1 : Passes(o, k, t[h])
    BY <2>1 DEF Plan, Kept
  <2>3. j - 1 \in DOMAIN r /\ i < j - 1 /\ r[j - 1] = FlushOf(k)
    BY <1>3, <2>2
  <2>4. ASSUME NEW h \in i + 1 .. (j - 1) - 1 PROVE Passes(o, k, r[h])
    <3>1. h + 1 \in (i + 1) + 1 .. j - 1 /\ r[h] = t[h + 1]
      BY <1>3
    <3> QED BY <2>2, <3>1
  <2> QED BY <2>3, <2>4
<1>5. LateReads(o, r)
  <2> SUFFICES ASSUME NEW i \in DOMAIN r, NEW j \in DOMAIN r, i < j, IsWrite(r[j]) \/ IsFlush(r[j]),
                      ~IsWrite(r[i]), ~IsFlush(r[i])
               PROVE  r[i] \in Late(o)
    BY DEF LateReads
  <2>1. i + 1 \in DOMAIN t /\ j + 1 \in DOMAIN t /\ r[i] = t[i + 1] /\ r[j] = t[j + 1] /\ i + 1 < j + 1
    BY <1>3
  <2> QED BY <2>1 DEF Plan, LateReads
<1>6. DecideLast(r)
  <2> SUFFICES ASSUME NEW i \in DOMAIN r, r[i] = Decide PROVE i = n - 1
    BY <1>3 DEF DecideLast
  <2>1. i + 1 \in DOMAIN t /\ t[i + 1] = Decide
    BY <1>3
  <2>2. i + 1 = n
    BY <1>1, <2>1 DEF Plan, DecideLast
  <2> QED BY <1>3, <2>2
<1>7. ASSUME NEW x, NEW Y, Marked(t, x, Y) PROVE Marked(r, x, Y)
  <2> SUFFICES ASSUME NEW i \in DOMAIN r, NEW j \in DOMAIN r, r[i] = x, r[j] \in Y PROVE i <= j
    BY DEF Marked
  <2>1. i + 1 \in DOMAIN t /\ j + 1 \in DOMAIN t /\ t[i + 1] = x /\ t[j + 1] \in Y
    BY <1>3
  <2>2. i + 1 <= j + 1
    BY <1>7, <2>1 DEF Marked
  <2> QED BY <1>3, <2>2
<1>8. Ordered(r)
  BY <1>7 DEF Plan, Ordered
\* What a marked command precedes is still there when it is.
<1>9. ASSUME NEW x, NEW Y, NEW y \in Y, Marked(t, x, Y), Has(t, y), Has(r, x) PROVE Has(r, y)
  <2>1. PICK i \in DOMAIN r : r[i] = x
    BY <1>9 DEF Has
  <2>2. PICK j \in DOMAIN t : t[j] = y
    BY <1>9 DEF Has
  <2>3. i + 1 \in DOMAIN t /\ t[i + 1] = x
    BY <1>3, <2>1
  <2>4. i + 1 <= j
    BY <1>9, <2>2, <2>3 DEF Marked
  <2>5. j - 1 \in DOMAIN r /\ r[j - 1] = y
    BY <1>3, <2>2, <2>4
  <2> QED BY <2>5 DEF Has
<1>10. \A x : Has(r, x) => Has(t, x)
  BY <1>0, <1>2, TailHas
<1>11. Complete(o, r)
  BY <1>9, <1>10 DEF Plan, Complete, Ordered, JoinMarks, LeaveMarks
<1>12. OfKind(o, r)
  <2>1. \A i \in DOMAIN r : i + 1 \in DOMAIN t /\ r[i] = t[i + 1]
    BY <1>3
  <2> QED BY <1>10, <2>1 DEF Plan, OfKind
<1> QED BY <1>2, <1>3, <1>4, <1>5, <1>6, <1>8, <1>11, <1>12 DEF Plan

\* Reading a key, or issuing another command, keeps what was read before what.
LEMMA NeedsTail ==
    ASSUME NEW o, NEW t \in Seq(Commands), t # <<>>, NEW g, NEW f, NeedsMet(o, t, g),
           DOMAIN g \subseteq DOMAIN f, Head(t) \in Reads => Head(t) \in DOMAIN f
    PROVE  NeedsMet(o, Tail(t), f)
<1>1. PICK n \in Nat \ {0} : n = Len(t)
  OBVIOUS
<1>2. PICK r : r = Tail(t)
  OBVIOUS
<1>3. /\ DOMAIN t = 1 .. n /\ Head(t) = t[1]
      /\ DOMAIN r = 1 .. n - 1
      /\ \A i \in 1 .. n - 1 : r[i] = t[i + 1]
  BY <1>1, <1>2, TailFacts
<1> SUFFICES ASSUME NEW a \in Needs(o), NEW j \in DOMAIN r, r[j] = a[1], a[2] \notin DOMAIN f
             PROVE  \E i \in 1 .. j - 1 : r[i] = a[2]
  BY <1>2 DEF NeedsMet, ReadBefore
<1>4. j + 1 \in DOMAIN t /\ t[j + 1] = a[1]
  BY <1>3
<1>5. a[2] \notin DOMAIN g
  OBVIOUS
<1>6. PICK i \in 1 .. (j + 1) - 1 : t[i] = a[2]
  BY <1>4, <1>5 DEF NeedsMet, ReadBefore
<1>7. a[2] \in {MaxKey, Ids, Info} \cup {Member(o.user), Member(o.by)}
  BY DEF Needs
<1>8. i # 1
  <2>1. CASE a[2] \in Reads
    BY <1>3, <1>6, <2>1
  <2>2. CASE a[2] \notin Reads
    <3>1. t[i] \in Commands
      BY <1>3, <1>6
    <3>2. t[i] \in Reads
      BY <1>6, <1>7, <3>1, CommandKinds, Tags
    <3> QED BY <1>6, <2>2, <3>2
  <2> QED BY <2>1, <2>2
<1>9. i - 1 \in 1 .. j - 1 /\ r[i - 1] = a[2]
  BY <1>3, <1>6, <1>8
<1> QED BY <1>9

-----------------------------------------------------------------------------
(* The commands after the checks.                                           *)

AllLate(o, t) == \A i \in DOMAIN t : ~IsWrite(t[i]) /\ ~IsFlush(t[i]) => t[i] \in Late(o)
Steady(o, t) == t \in Seq(Commands) /\ Kept(o, t) /\ AllLate(o, t)

LEMMA SteadyConcat ==
    ASSUME NEW o, NEW s, NEW t, Steady(o, s), Steady(o, t)
    PROVE  Steady(o, s \o t)
<1>1. s \in Seq(Commands) /\ t \in Seq(Commands)
  BY DEF Steady
<1>2. PICK m \in Nat, n \in Nat : m = Len(s) /\ n = Len(t)
  BY <1>1
<1>3. PICK r : r = s \o t
  OBVIOUS
<1>4. /\ r \in Seq(Commands) /\ DOMAIN s = 1 .. m /\ DOMAIN t = 1 .. n /\ DOMAIN r = 1 .. m + n
      /\ \A i \in 1 .. m : r[i] = s[i]
      /\ \A i \in 1 .. n : r[m + i] = t[i]
  BY <1>1, <1>2, <1>3, ConcatFacts
<1>5. Kept(o, r)
  <2> SUFFICES ASSUME NEW i \in DOMAIN r, NEW k \in Touches(o, r[i])
               PROVE  \E j \in DOMAIN r : /\ i < j /\ r[j] = FlushOf(k)
                                          /\ \A h \in i + 1 .. j - 1 : Passes(o, k, r[h])
    BY DEF Kept
  <2>1. CASE i <= m
    <3>1. i \in DOMAIN s /\ r[i] = s[i]
      BY <1>4, <2>1
    <3>2. PICK j \in DOMAIN s : /\ i < j /\ s[j] = FlushOf(k)
                                /\ \A h \in i + 1 .. j - 1 : Passes(o, k, s[h])
      BY <3>1 DEF Steady, Kept
    <3>3. j \in DOMAIN r /\ r[j] = s[j]
      BY <1>4
    <3>4. \A h \in i + 1 .. j - 1 : r[h] = s[h]
      BY <1>4
    <3> QED BY <3>2, <3>3, <3>4
  <2>2. CASE i > m
    <3>1. PICK a \in 1 .. n : i = m + a
      <4>1. i - m \in 1 .. n /\ i = m + (i - m)
        BY <1>4, <2>2
      <4> QED BY <4>1
    <3>2. a \in DOMAIN t /\ r[i] = t[a]
      BY <1>4, <3>1
    <3>3. PICK j \in DOMAIN t : /\ a < j /\ t[j] = FlushOf(k)
                                /\ \A h \in a + 1 .. j - 1 : Passes(o, k, t[h])
      BY <3>2 DEF Steady, Kept
    <3>4. m + j \in DOMAIN r /\ r[m + j] = t[j] /\ i < m + j
      BY <1>4, <3>1, <3>3
    <3>5. ASSUME NEW h \in i + 1 .. (m + j) - 1 PROVE Passes(o, k, r[h])
      <4>1. h - m \in a + 1 .. j - 1 /\ h - m \in 1 .. n /\ h = m + (h - m)
        BY <1>4, <3>1
      <4>2. r[h] = t[h - m]
        BY <1>4, <4>1
      <4> QED BY <3>3, <4>1, <4>2
    <3> QED BY <3>3, <3>4, <3>5
  <2> QED BY <1>4, <2>1, <2>2
<1>6. AllLate(o, r)
  <2> SUFFICES ASSUME NEW i \in DOMAIN r, ~IsWrite(r[i]), ~IsFlush(r[i]) PROVE r[i] \in Late(o)
    BY DEF AllLate
  <2>1. CASE i <= m
    BY <1>4, <2>1 DEF Steady, AllLate
  <2>2. CASE i > m
    <3>1. i - m \in DOMAIN t /\ r[i] = t[i - m]
      <4>1. i - m \in 1 .. n /\ i = m + (i - m)
        BY <1>4, <2>2
      <4> QED BY <1>4, <4>1
    <3> QED BY <3>1 DEF Steady, AllLate
  <2> QED BY <1>4, <2>1, <2>2
<1> QED BY <1>3, <1>4, <1>5, <1>6 DEF Steady

LEMMA SteadyLate ==
    ASSUME NEW o, NEW t, Steady(o, t)
    PROVE  LateReads(o, t) /\ DecideLast(t)
<1>1. LateReads(o, t)
  BY DEF Steady, AllLate, LateReads
<1>2. ~IsWrite(Decide) /\ ~IsFlush(Decide) /\ Decide \notin Late(o)
  BY Tags, ReadTags DEF Late
<1>3. DecideLast(t)
  BY <1>2 DEF Steady, AllLate, DecideLast
<1> QED BY <1>1, <1>3

\* Only writes change rows.
LEMMA QuietCommands ==
    ASSUME NEW o, NEW x, x \notin { Write(w) : w \in {"create", "delete", "demote", "promote", "setRole",
                                                    "setMuted", "setStatus", "setVerify"} }
    PROVE  Touches(o, x) = {}
BY DEF Touches

LEMMA FlushFacts ==
    ASSUME NEW q \in Seq(CacheKeys)
    PROVE  /\ Flush(q) \in Seq(Commands) /\ Len(Flush(q)) = Len(q) /\ DOMAIN Flush(q) = 1 .. Len(q)
           /\ \A i \in 1 .. Len(q) : Flush(q)[i] = FlushOf(q[i])
<1>1. DOMAIN q = 1 .. Len(q) /\ Len(q) \in Nat
  OBVIOUS
<1>2. Flush(q) = [i \in 1 .. Len(q) |-> FlushOf(q[i])]
  BY <1>1 DEF Flush, FlushOf
<1>3. \A i \in 1 .. Len(q) : FlushOf(q[i]) \in Commands
  BY DEF Commands
<1> QED BY <1>1, <1>2, <1>3

LEMMA BlockFacts ==
    ASSUME NEW w \in Writes, NEW q \in Seq(CacheKeys), NEW b, b = <<Write(w)>> \o Flush(q)
    PROVE  /\ b \in Seq(Commands) /\ Len(b) = Len(q) + 1 /\ DOMAIN b = 1 .. Len(q) + 1
           /\ Len(q) \in Nat /\ b[1] = Write(w)
           /\ \A i \in 1 .. Len(q) : b[1 + i] = FlushOf(q[i])
<1>1. <<Write(w)>> \in Seq(Commands) /\ Len(<<Write(w)>>) = 1 /\ <<Write(w)>>[1] = Write(w)
  BY DEF Commands
<1>2. PICK f \in Seq(Commands) : f = Flush(q)
  BY FlushFacts
<1>3. Len(f) = Len(q) /\ Len(q) \in Nat /\ \A i \in 1 .. Len(q) : f[i] = FlushOf(q[i])
  BY <1>2, FlushFacts
<1>4. b = <<Write(w)>> \o f
  BY <1>2
<1>5. PICK s \in Seq(Commands) : s = <<Write(w)>>
  BY <1>1
<1>6. Len(s) = 1 /\ s[1] = Write(w) /\ b = s \o f
  BY <1>1, <1>4, <1>5
<1>7. /\ s \o f \in Seq(Commands) /\ Len(s \o f) = Len(s) + Len(f) /\ DOMAIN (s \o f) = 1 .. Len(s) + Len(f)
      /\ \A i \in 1 .. Len(s) : (s \o f)[i] = s[i]
      /\ \A i \in 1 .. Len(f) : (s \o f)[Len(s) + i] = f[i]
  BY ConcatFacts
<1>8. PICK n \in Nat : n = Len(q)
  BY <1>3
<1>9. /\ b \in Seq(Commands) /\ Len(b) = 1 + n /\ DOMAIN b = 1 .. 1 + n
      /\ \A i \in 1 .. 1 : b[i] = s[i]
      /\ \A i \in 1 .. n : b[1 + i] = f[i]
  BY <1>3, <1>6, <1>7, <1>8
<1> QED BY <1>3, <1>6, <1>8, <1>9

LEMMA BlockShape ==
    \A w \in Writes : \A q \in Seq(CacheKeys) : \E b : \E n \in Nat :
        /\ b = <<Write(w)>> \o Flush(q) /\ n = Len(q)
        /\ b \in Seq(Commands) /\ DOMAIN b = 1 .. n + 1 /\ b[1] = Write(w)
        /\ \A i \in 1 .. n : b[1 + i] = FlushOf(q[i])
<1> TAKE w \in Writes
<1> TAKE q \in Seq(CacheKeys)
<1>1. PICK b : b = <<Write(w)>> \o Flush(q)
  OBVIOUS
<1>2. /\ b \in Seq(Commands) /\ DOMAIN b = 1 .. Len(q) + 1 /\ b[1] = Write(w) /\ Len(q) \in Nat
      /\ \A i \in 1 .. Len(q) : b[1 + i] = FlushOf(q[i])
  BY <1>1, BlockFacts
<1> QED BY <1>1, <1>2

\* A write followed by the deletion of the entries it concerns.
LEMMA BlockSteady ==
    ASSUME NEW o, NEW w \in Writes, NEW q \in Seq(CacheKeys),
           \A k \in Touches(o, Write(w)) : \E i \in 1 .. Len(q) : q[i] = k
    PROVE  Steady(o, <<Write(w)>> \o Flush(q))
<1>3. PICK b : \E n \in Nat :
        /\ b = <<Write(w)>> \o Flush(q) /\ n = Len(q)
        /\ b \in Seq(Commands) /\ DOMAIN b = 1 .. n + 1 /\ b[1] = Write(w)
        /\ \A i \in 1 .. n : b[1 + i] = FlushOf(q[i])
  BY BlockShape, Zenon
<1>1. b = <<Write(w)>> \o Flush(q)
  BY <1>3
<1>2. PICK n \in Nat :
        /\ n = Len(q)
        /\ b \in Seq(Commands) /\ DOMAIN b = 1 .. n + 1 /\ b[1] = Write(w)
        /\ \A i \in 1 .. n : b[1 + i] = FlushOf(q[i])
  BY <1>3
<1>4. \A i \in DOMAIN b : i # 1 => IsFlush(b[i]) /\ ~IsWrite(b[i]) /\ \E k : b[i] = FlushOf(k)
  <2> SUFFICES ASSUME NEW i \in DOMAIN b, i # 1
               PROVE  IsFlush(b[i]) /\ ~IsWrite(b[i]) /\ \E k : b[i] = FlushOf(k)
    OBVIOUS
  <2>1. i - 1 \in 1 .. n /\ i = 1 + (i - 1)
    BY <1>2
  <2>2. b[i] = FlushOf(q[i - 1])
    BY <1>2, <2>1
  <2> QED BY <2>2, Tags DEF IsFlush, IsWrite
<1>5. Kept(o, b)
  <2> SUFFICES ASSUME NEW i \in DOMAIN b, NEW k \in Touches(o, b[i])
               PROVE  \E j \in DOMAIN b : /\ i < j /\ b[j] = FlushOf(k)
                                          /\ \A h \in i + 1 .. j - 1 : Passes(o, k, b[h])
    BY DEF Kept
  <2>1. i = 1
    <3>1. ASSUME i # 1 PROVE FALSE
      <4>1. PICK x : b[i] = FlushOf(x)
        BY <1>4, <3>1
      <4>2. Touches(o, FlushOf(x)) = {}
        BY QuietCommands, Tags
      <4> QED BY <4>1, <4>2
    <3> QED BY <3>1
  <2>2. PICK a \in 1 .. n : q[a] = k
    BY <1>2, <2>1
  <2>3. 1 + a \in DOMAIN b /\ 1 < 1 + a /\ b[1 + a] = FlushOf(k)
    BY <1>2, <2>2
  <2>4. ASSUME NEW h \in 1 + 1 .. (1 + a) - 1 PROVE Passes(o, k, b[h])
    <3>1. h \in DOMAIN b /\ h # 1
      BY <1>2
    <3> QED BY <1>4, <3>1 DEF Passes
  <2> QED BY <2>1, <2>3, <2>4
<1>6. AllLate(o, b)
  BY <1>2, <1>4, Tags DEF AllLate, IsWrite
<1> QED BY <1>1, <1>2, <1>5, <1>6 DEF Steady

LEMMA SteadyTwo ==
    ASSUME NEW o, NEW x \in Commands, NEW y \in Commands, Touches(o, x) = {}, Touches(o, y) = {},
           IsWrite(x) \/ x \in Late(o), IsWrite(y) \/ y \in Late(o)
    PROVE  Steady(o, <<x, y>>) /\ Steady(o, <<x>>) /\ Steady(o, <<>>)
<1>1. Steady(o, <<x, y>>)
  BY DEF Steady, Kept, AllLate
<1>2. Steady(o, <<x>>)
  BY DEF Steady, Kept, AllLate
<1>3. Steady(o, <<>>)
  BY DEF Steady, Kept, AllLate
<1> QED BY <1>1, <1>2, <1>3

-----------------------------------------------------------------------------
(* Where the marked writes are.                                             *)

LEMMA HasConcat ==
    ASSUME NEW s \in Seq(Commands), NEW t \in Seq(Commands), NEW x
    PROVE  Has(s \o t, x) <=> Has(s, x) \/ Has(t, x)
<1>1. PICK m \in Nat, n \in Nat : m = Len(s) /\ n = Len(t)
  OBVIOUS
<1>2. PICK r : r = s \o t
  OBVIOUS
<1>3. /\ DOMAIN s = 1 .. m /\ DOMAIN t = 1 .. n /\ DOMAIN r = 1 .. m + n
      /\ \A i \in 1 .. m : r[i] = s[i]
      /\ \A i \in 1 .. n : r[m + i] = t[i]
  BY <1>1, <1>2, ConcatFacts
<1>4. ASSUME Has(s, x) PROVE Has(r, x)
  BY <1>3, <1>4 DEF Has
<1>5. ASSUME Has(t, x) PROVE Has(r, x)
  <2>1. PICK i \in DOMAIN t : t[i] = x
    BY <1>5 DEF Has
  <2>2. m + i \in DOMAIN r /\ r[m + i] = x
    BY <1>3, <2>1
  <2> QED BY <2>2 DEF Has
<1>6. ASSUME Has(r, x) PROVE Has(s, x) \/ Has(t, x)
  <2>1. PICK i \in DOMAIN r : r[i] = x
    BY <1>6 DEF Has
  <2>2. CASE i <= m
    BY <1>3, <2>1, <2>2 DEF Has
  <2>3. CASE i > m
    <3>1. i - m \in 1 .. n /\ i = m + (i - m)
      BY <1>3, <2>3
    <3>2. t[i - m] = x
      BY <1>3, <2>1, <3>1
    <3> QED BY <1>3, <3>1, <3>2 DEF Has
  <2> QED BY <1>3, <2>2, <2>3
<1> QED BY <1>2, <1>4, <1>5, <1>6

LEMMA HasShort ==
    /\ \A x : ~Has(<<>>, x)
    /\ \A a, x : Has(<<a>>, x) <=> x = a
    /\ \A a, b, x : Has(<<a, b>>, x) <=> x = a \/ x = b
<1>1. \A a, b, x : Has(<<a, b>>, x) <=> x = a \/ x = b
  BY DEF Has
<1>2. \A a, x : Has(<<a>>, x) <=> x = a
  BY DEF Has
<1>3. \A x : ~Has(<<>>, x)
  BY DEF Has
<1> QED BY <1>1, <1>2, <1>3

LEMMA MarkedConcat ==
    ASSUME NEW s \in Seq(Commands), NEW t \in Seq(Commands), NEW x, NEW Y,
           Marked(s, x, Y), Marked(t, x, Y), ~Has(t, x) \/ \A y \in Y : ~Has(s, y)
    PROVE  Marked(s \o t, x, Y)
<1>1. PICK m \in Nat, n \in Nat : m = Len(s) /\ n = Len(t)
  OBVIOUS
<1>2. PICK r : r = s \o t
  OBVIOUS
<1>3. /\ DOMAIN s = 1 .. m /\ DOMAIN t = 1 .. n /\ DOMAIN r = 1 .. m + n
      /\ \A i \in 1 .. m : r[i] = s[i]
      /\ \A i \in 1 .. n : r[m + i] = t[i]
  BY <1>1, <1>2, ConcatFacts
<1>4. \A i \in DOMAIN r : i > m => i - m \in DOMAIN t /\ r[i] = t[i - m]
  <2> SUFFICES ASSUME NEW i \in DOMAIN r, i > m PROVE i - m \in DOMAIN t /\ r[i] = t[i - m]
    OBVIOUS
  <2>1. i - m \in 1 .. n /\ i = m + (i - m)
    BY <1>3
  <2> QED BY <1>3, <2>1
<1>5. \A i \in DOMAIN r : i <= m => i \in DOMAIN s /\ r[i] = s[i]
  BY <1>3
<1> SUFFICES ASSUME NEW i \in DOMAIN r, NEW j \in DOMAIN r, r[i] = x, r[j] \in Y PROVE i <= j
  BY <1>2 DEF Marked
<1>6. CASE i <= m /\ j <= m
  BY <1>5, <1>6 DEF Marked
<1>7. CASE i <= m /\ j > m
  BY <1>3, <1>7
<1>8. CASE i > m /\ j <= m
  BY <1>4, <1>5, <1>8 DEF Has
<1>9. CASE i > m /\ j > m
  <2>1. i - m <= j - m
    BY <1>4, <1>9 DEF Marked
  <2> QED BY <1>3, <2>1
<1> QED BY <1>3, <1>6, <1>7, <1>8, <1>9

LEMMA BlockMarks ==
    ASSUME NEW w \in Writes, NEW q \in Seq(CacheKeys)
    PROVE  /\ \A v \in Writes : Has(<<Write(w)>> \o Flush(q), Write(v)) <=> v = w
           /\ \A x : Has(<<Write(w)>> \o Flush(q), x) => IsWrite(x) \/ IsFlush(x)
           /\ Ordered(<<Write(w)>> \o Flush(q))
<1>3. PICK b : \E n \in Nat :
        /\ b = <<Write(w)>> \o Flush(q) /\ n = Len(q)
        /\ b \in Seq(Commands) /\ DOMAIN b = 1 .. n + 1 /\ b[1] = Write(w)
        /\ \A i \in 1 .. n : b[1 + i] = FlushOf(q[i])
  BY BlockShape, Zenon
<1>1. b = <<Write(w)>> \o Flush(q)
  BY <1>3
<1>2. PICK n \in Nat :
        /\ n = Len(q)
        /\ b \in Seq(Commands) /\ DOMAIN b = 1 .. n + 1 /\ b[1] = Write(w)
        /\ \A i \in 1 .. n : b[1 + i] = FlushOf(q[i])
  BY <1>3
<1>4. \A i \in DOMAIN b : i # 1 => b[i][1] = "flush"
  <2> SUFFICES ASSUME NEW i \in DOMAIN b, i # 1 PROVE b[i][1] = "flush"
    OBVIOUS
  <2>1. i - 1 \in 1 .. n /\ i = 1 + (i - 1)
    BY <1>2
  <2>2. b[i] = FlushOf(q[i - 1])
    BY <1>2, <2>1
  <2> QED BY <2>2, Tags
<1>5. 1 \in DOMAIN b
  BY <1>2
<1>6. \A v : (\E i \in DOMAIN b : b[i] = Write(v)) => v = w
  BY <1>2, <1>4, Tags
<1>7. \A v \in Writes : Has(b, Write(v)) <=> v = w
  BY <1>2, <1>5, <1>6 DEF Has
<1>8. \A i \in DOMAIN b : \A v : b[i] = Write(v) => i = 1
  BY <1>4, Tags
<1>9. Ordered(b)
  BY <1>2, <1>8 DEF Ordered, Marked
<1>10. \A x : Has(b, x) => IsWrite(x) \/ IsFlush(x)
  BY <1>2, <1>4, Tags DEF Has, IsWrite, IsFlush
<1> QED BY <1>1, <1>7, <1>9, <1>10

-----------------------------------------------------------------------------
(* The plan after the checks, kind by kind.                                 *)

LEMMA CommandFacts ==
    /\ \A w \in Writes : Write(w) \in Commands /\ IsWrite(Write(w))
    /\ \A u \in User : Conv(u) \in Commands /\ Read(u) \in Commands /\ Member(u) \in CacheKeys
    /\ MaxKey \in Commands /\ Info \in CacheKeys /\ Ids \in CacheKeys /\ Owners \in CacheKeys
    /\ CacheKeys \subseteq Reads /\ Reads \subseteq Commands /\ StoredKeys \subseteq Reads
    /\ Decide \in Commands
BY Tags DEF Commands, Reads, StoredKeys, CacheKeys, IsWrite

LEMMA DecideNew ==
    /\ Decide # Begin /\ Decide # Info /\ Decide # Owners /\ Decide # Ids
    /\ \A u : Decide # Member(u) /\ Decide # Request(u)
    /\ Decide[1] # "member"
BY Tags

LEMMA SteadyPlan ==
    ASSUME NEW o, NEW t, Steady(o, t), Ordered(t), Complete(o, t), OfKind(o, t)
    PROVE  Plan(o, t)
BY SteadyLate DEF Plan, Steady

LEMMA JoinPieces ==
    ASSUME NEW o, IsRequest(o), o.kind \in JoinKinds
    PROVE  /\ Steady(o, <<Write("create")>> \o Flush(<<Ids, Member(o.user), Owners>>))
           /\ Steady(o, <<Write("create")>> \o Flush(<<Member(o.user), Ids>>))
           /\ Steady(o, <<Conv(o.user), Write("conv")>>)
           /\ Steady(o, <<Read(o.user), Write("hasRead")>>)
           /\ Steady(o, <<Write("delRequest"), Write("addRequest")>>)
           /\ Steady(o, <<Write("userMin")>>) /\ Steady(o, <<Write("handle")>>) /\ Steady(o, <<>>)
<1>1. o.user \in User
  BY DEF IsRequest
<1>2. /\ <<Ids, Member(o.user), Owners>> \in Seq(CacheKeys)
      /\ <<Member(o.user), Ids>> \in Seq(CacheKeys)
  BY <1>1, CommandFacts
<1>3. Touches(o, Write("create")) = {Ids, Member(o.user)}
  BY DEF Touches
<1>4. \A k \in {Ids, Member(o.user)} : \E i \in 1 .. 3 : <<Ids, Member(o.user), Owners>>[i] = k
  OBVIOUS
<1>5. \A k \in {Ids, Member(o.user)} : \E i \in 1 .. 2 : <<Member(o.user), Ids>>[i] = k
  OBVIOUS
<1>6. Len(<<Ids, Member(o.user), Owners>>) = 3 /\ Len(<<Member(o.user), Ids>>) = 2
  OBVIOUS
<1>7. "create" \in Writes
  BY DEF Writes
<1>8. Steady(o, <<Write("create")>> \o Flush(<<Ids, Member(o.user), Owners>>))
  BY <1>2, <1>3, <1>4, <1>6, <1>7, BlockSteady
<1>9. Steady(o, <<Write("create")>> \o Flush(<<Member(o.user), Ids>>))
  BY <1>2, <1>3, <1>5, <1>6, <1>7, BlockSteady
<1>10. \A w \in {"conv", "hasRead", "delRequest", "addRequest", "userMin", "handle"} :
          Write(w) \in Commands /\ IsWrite(Write(w)) /\ Touches(o, Write(w)) = {}
  BY CommandFacts, QuietCommands, Tags DEF Writes
<1>11. \A x \in {Conv(o.user), Read(o.user)} : x \in Commands /\ x \in Late(o) /\ Touches(o, x) = {}
  BY <1>1, CommandFacts, QuietCommands, Tags DEF Late
<1> QED BY <1>8, <1>9, <1>10, <1>11, SteadyTwo

LEMMA NotMarked ==
    ASSUME NEW t, ~Has(t, Write("create")), ~Has(t, Write("delete"))
    PROVE  Ordered(t)
BY DEF Ordered, Marked, Has

LEMMA OrderedConcat ==
    ASSUME NEW s \in Seq(Commands), NEW t \in Seq(Commands), Ordered(s),
           ~Has(t, Write("create")), ~Has(t, Write("delete"))
    PROVE  Ordered(s \o t)
<1>1. Ordered(t)
  BY NotMarked
<1> QED BY <1>1, MarkedConcat DEF Ordered

WritesOf(t) == { v \in Writes : Has(t, Write(v)) }

LEMMA WritesConcat ==
    ASSUME NEW s \in Seq(Commands), NEW t \in Seq(Commands)
    PROVE  WritesOf(s \o t) = WritesOf(s) \cup WritesOf(t)
BY HasConcat DEF WritesOf

LEMMA WritesShort ==
    /\ WritesOf(<<>>) = {}
    /\ \A v \in Writes : WritesOf(<<Write(v)>>) = {v}
    /\ \A v, w \in Writes : WritesOf(<<Write(v), Write(w)>>) = {v, w}
    /\ \A x \in Reads : \A v \in Writes : WritesOf(<<x, Write(v)>>) = {v}
    /\ \A x \in Reads : WritesOf(<<x>>) = {}
<1>1. \A v, w : Write(v) = Write(w) => v = w
  BY Tags
<1>2. \A x \in Reads : \A v : x # Write(v)
  BY ReadTags, Tags DEF IsWrite
<1> QED BY <1>1, <1>2, HasShort DEF WritesOf

LEMMA WritesBlock ==
    ASSUME NEW w \in Writes, NEW q \in Seq(CacheKeys)
    PROVE  WritesOf(<<Write(w)>> \o Flush(q)) = {w}
BY BlockMarks DEF WritesOf

LEMMA WritesMarks ==
    ASSUME NEW o, NEW t, WritesOf(t) \cap {"create", "delete"} = {}
    PROVE  Ordered(t) /\ Complete(o, t)
<1>1. ~Has(t, Write("create")) /\ ~Has(t, Write("delete"))
  BY DEF WritesOf, Writes
<1> QED BY <1>1, NotMarked DEF Complete

\* A plan by its writes.
LEMMA PlanByWrites ==
    ASSUME NEW o, NEW t, Steady(o, t), Ordered(t), o.kind # "send",
           "create" \in WritesOf(t) => /\ "conv" \in WritesOf(t) /\ "addRequest" \notin WritesOf(t)
                                       /\ o.kind # "approve" => "userMin" \in WritesOf(t),
           "delete" \in WritesOf(t) => "convMax" \in WritesOf(t),
           WritesOf(t) \cap {"create", "conv"} # {} => o.kind \in JoinKinds,
           WritesOf(t) \cap {"delete", "convMax"} # {} => o.kind \in LeaveKinds,
           "userMin" \in WritesOf(t) => o.kind \in {"join", "invite"},
           WritesOf(t) \cap {"demote", "promote"} # {} => o.kind = "transfer",
           "setRole" \in WritesOf(t) => o.kind = "setRole"
    PROVE  Plan(o, t)
<1>1. \A v \in {"create", "conv", "addRequest", "userMin", "delete", "convMax", "demote", "promote", "setRole"} :
          Has(t, Write(v)) <=> v \in WritesOf(t)
  BY DEF WritesOf, Writes
<1>2. Complete(o, t)
  BY <1>1 DEF Complete
<1>3. OfKind(o, t)
  BY <1>1 DEF OfKind
<1> QED BY <1>2, <1>3, SteadyPlan

LEMMA NeedsByWrites ==
    ASSUME NEW o, NEW t, NEW g, Steady(o, t), o.kind # "send",
           WritesOf(t) \cap {"convMax", "deleteAll"} = {},
           "userMin" \in WritesOf(t) => MaxKey \in DOMAIN g,
           "demote" \in WritesOf(t) => Member(o.user) \in DOMAIN g
    PROVE  NeedsMet(o, t, g)
<1>1. \A v \in {"convMax", "deleteAll", "userMin", "demote"} : Has(t, Write(v)) => v \in WritesOf(t)
  BY DEF WritesOf, Writes
<1>2. ~Has(t, Decide)
  <2>1. ~IsWrite(Decide) /\ ~IsFlush(Decide) /\ Decide \notin Late(o)
    BY Tags, ReadTags DEF Late
  <2> QED BY <2>1 DEF Steady, AllLate, Has
<1> SUFFICES ASSUME NEW n \in Needs(o), Has(t, n[1]) PROVE n[2] \in DOMAIN g
  BY DEF NeedsMet, ReadBefore, Has
<1>3. n \in { <<Write("convMax"), MaxKey>>, <<Write("deleteAll"), Ids>>, <<Write("userMin"), MaxKey>>,
              <<Write("demote"), Member(o.user)>>, <<Decide, MaxKey>>, <<Decide, Member(o.user)>> }
  BY DEF Needs
<1> QED BY <1>1, <1>2, <1>3

\* What a call goes on with, having read g.
Ready(o, t, g) == Plan(o, t) /\ NeedsMet(o, t, g)

Admits(t) == \/ WritesOf(t) = {"create", "conv", "hasRead", "userMin"}
             \/ WritesOf(t) = {"delRequest", "addRequest", "hasRead", "userMin"}

LEMMA AdmitPlan ==
    ASSUME NEW o, IsRequest(o), o.kind \in {"join", "invite"}, NEW g, MaxKey \in DOMAIN g,
           NEW A, A = LetIn(o.user) \/ A = AskToJoin
    PROVE  /\ Ready(o, A \o SetRead(o.user) \o <<Write("userMin")>>, g)
           /\ Ready(o, A \o <<Write("userMin")>> \o SetRead(o.user), g)
           /\ Admits(A \o SetRead(o.user) \o <<Write("userMin")>>)
           /\ Admits(A \o <<Write("userMin")>> \o SetRead(o.user))
<1> USE DEF JoinKinds
<1>1. PICK u \in User : u = o.user
  BY DEF IsRequest
<1>2. PICK B : B = <<Write("create")>> \o Flush(<<Ids, Member(u), Owners>>)
  OBVIOUS
<1>3. <<Ids, Member(u), Owners>> \in Seq(CacheKeys) /\ "create" \in Writes
  BY CommandFacts DEF Writes
<1>4. Steady(o, B) /\ WritesOf(B) = {"create"} /\ Ordered(B) /\ B \in Seq(Commands)
  BY <1>1, <1>2, <1>3, JoinPieces, WritesBlock, BlockMarks DEF Steady
<1>5. PICK C, R, M, K :
         /\ C = <<Conv(u), Write("conv")>> /\ R = <<Read(u), Write("hasRead")>>
         /\ M = <<Write("userMin")>> /\ K = <<Write("delRequest"), Write("addRequest")>>
  OBVIOUS
<1>6. Steady(o, C) /\ Steady(o, R) /\ Steady(o, M) /\ Steady(o, K)
  BY <1>1, <1>5, JoinPieces
<1>7. C \in Seq(Commands) /\ R \in Seq(Commands) /\ M \in Seq(Commands) /\ K \in Seq(Commands)
  BY <1>6 DEF Steady
<1>8. /\ WritesOf(C) = {"conv"} /\ WritesOf(R) = {"hasRead"} /\ WritesOf(M) = {"userMin"}
      /\ WritesOf(K) = {"delRequest", "addRequest"}
  <2>1. Conv(u) \in Reads /\ Read(u) \in Reads
    BY DEF Reads, StoredKeys
  <2>2. {"conv", "hasRead", "userMin", "delRequest", "addRequest"} \subseteq Writes
    BY DEF Writes
  <2> QED BY <1>5, <2>1, <2>2, WritesShort
<1>9. \A t \in {C, R, M, K} : ~Has(t, Write("create")) /\ ~Has(t, Write("delete"))
  BY <1>8 DEF WritesOf, Writes
<1>10. /\ Steady(o, A) /\ A \in Seq(Commands) /\ Ordered(A)
       /\ WritesOf(A) = {"create", "conv"} \/ WritesOf(A) = {"delRequest", "addRequest"}
  <2>1. CASE A = LetIn(o.user)
    <3>1. A = B \o C
      BY <1>1, <1>2, <1>5, <2>1 DEF LetIn, MemberKeys, MakeConv
    <3>2. Steady(o, A)
      BY <1>4, <1>6, <3>1, SteadyConcat
    <3>3. WritesOf(A) = {"create", "conv"}
      <4>1. WritesOf(B \o C) = WritesOf(B) \cup WritesOf(C)
        BY <1>4, <1>7, WritesConcat
      <4> QED BY <1>4, <1>8, <3>1, <4>1
    <3>4. Ordered(A)
      BY <1>4, <1>7, <1>9, <3>1, OrderedConcat
    <3> QED BY <3>2, <3>3, <3>4 DEF Steady
  <2>2. CASE A = AskToJoin
    <3>1. A = K
      BY <1>5, <2>2 DEF AskToJoin
    <3> QED BY <1>6, <1>7, <1>8, <1>9, <3>1, NotMarked
  <2> QED BY <2>1, <2>2
<1>11. ASSUME NEW s \in {R, M}, NEW t \in {R, M}, s # t
       PROVE  Ready(o, (A \o s) \o t, g) /\ Admits((A \o s) \o t)
  <2>1. PICK a : a = A \o s
    OBVIOUS
  <2>2. Steady(o, a) /\ a \in Seq(Commands)
    BY <1>6, <1>10, <2>1, SteadyConcat DEF Steady
  <2>3. WritesOf(a) = WritesOf(A) \cup WritesOf(s) /\ Ordered(a)
    BY <1>7, <1>9, <1>10, <2>1, WritesConcat, OrderedConcat
  <2>4. PICK b : b = a \o t
    OBVIOUS
  <2>5. Steady(o, b)
    BY <1>6, <2>2, <2>4, SteadyConcat
  <2>6. WritesOf(b) = WritesOf(a) \cup WritesOf(t) /\ Ordered(b)
    BY <1>7, <1>9, <2>2, <2>3, <2>4, WritesConcat, OrderedConcat
  <2>7. WritesOf(b) = WritesOf(A) \cup {"hasRead", "userMin"}
    BY <1>8, <1>11, <2>3, <2>6
  <2>8. Plan(o, b)
    BY <1>10, <2>5, <2>6, <2>7, PlanByWrites
  <2>9. NeedsMet(o, b, g)
    BY <1>10, <2>5, <2>7, NeedsByWrites
  <2>10. Admits(b)
    BY <1>10, <2>7 DEF Admits
  <2> QED BY <2>1, <2>4, <2>8, <2>9, <2>10 DEF Ready
<1>12. R # M
  BY <1>8
<1>13. SetRead(o.user) = R
  BY <1>1, <1>5 DEF SetRead
<1> QED BY <1>5, <1>11, <1>12, <1>13

LEMMA ApprovePlan ==
    ASSUME NEW o, IsRequest(o), o.kind \in {"approve", "refuse"}, NEW g,
           NEW X, X = <<Write("create")>> \o Flush(<<Member(o.user), Ids>>) \/ X = <<>>,
           NEW Y, Y = MakeConv(o.user) \/ Y = <<>>,
           o.kind = "refuse" => X = <<>> /\ Y = <<>>,
           X # <<>> => Y # <<>>
    PROVE  /\ Ready(o, <<Write("handle")>> \o X \o Y, g)
           /\ "create" \in WritesOf(<<Write("handle")>> \o X \o Y) <=> X # <<>>
           /\ WritesOf(<<Write("handle")>> \o X \o Y) \subseteq {"handle", "create", "conv"}
           /\ \A i \in DOMAIN (<<Write("handle")>> \o X \o Y) :
                  (<<Write("handle")>> \o X \o Y)[i] = Write("handle") => i = 1
<1> USE DEF JoinKinds
<1>1. PICK u \in User : u = o.user
  BY DEF IsRequest
<1>2. PICK B, C, H :
         /\ B = <<Write("create")>> \o Flush(<<Member(u), Ids>>)
         /\ C = <<Conv(u), Write("conv")>> /\ H = <<Write("handle")>>
  OBVIOUS
<1>3. <<Member(u), Ids>> \in Seq(CacheKeys) /\ {"create", "handle", "conv"} \subseteq Writes
  BY CommandFacts DEF Writes
<1>4. Write("handle") \in Commands /\ Touches(o, Write("handle")) = {} /\ IsWrite(Write("handle"))
  BY CommandFacts, QuietCommands, Tags DEF Writes
<1>5. Steady(o, H) /\ Steady(o, <<>>)
  BY <1>2, <1>4, SteadyTwo
<1>6. Conv(u) \in Reads
  BY DEF Reads, StoredKeys
<1>7. WritesOf(H) = {"handle"} /\ WritesOf(<<>>) = {} /\ WritesOf(C) = {"conv"}
  BY <1>2, <1>3, <1>6, WritesShort
<1>8. WritesOf(B) = {"create"} /\ Ordered(B)
  BY <1>2, <1>3, WritesBlock, BlockMarks
<1>9. o.kind = "approve" => Steady(o, B) /\ Steady(o, C)
  BY <1>1, <1>2, JoinPieces
<1>10. X = B \/ X = <<>>
  BY <1>1, <1>2
<1>11. Y = C \/ Y = <<>>
  BY <1>1, <1>2 DEF MakeConv
<1>12. B # <<>> /\ C # <<>>
  BY <1>7, <1>8
<1>13. Steady(o, X) /\ Steady(o, Y)
  BY <1>5, <1>9, <1>10, <1>11, <1>12
<1>14. H \in Seq(Commands) /\ X \in Seq(Commands) /\ Y \in Seq(Commands)
  BY <1>5, <1>13 DEF Steady
<1>15. PICK a : a = H \o X
  OBVIOUS
<1>16. Steady(o, a) /\ a \in Seq(Commands) /\ WritesOf(a) = {"handle"} \cup WritesOf(X)
  BY <1>5, <1>7, <1>13, <1>14, <1>15, SteadyConcat, WritesConcat DEF Steady
<1>17. Ordered(a)
  <2>1. \A y \in JoinMarks \cup LeaveMarks : ~Has(H, y)
    <3>1. \A v \in {"create", "conv", "userMin", "addRequest", "delete", "convMax"} : ~Has(H, Write(v))
      BY <1>7 DEF WritesOf, Writes
    <3> QED BY <3>1 DEF JoinMarks, LeaveMarks
  <2>2. Ordered(H)
    BY <2>1, NotMarked DEF JoinMarks, LeaveMarks
  <2>3. Ordered(X)
    <3>1. Ordered(<<>>)
      BY HasShort, NotMarked
    <3> QED BY <1>8, <1>10, <3>1
  <2> QED BY <1>14, <1>15, <2>1, <2>2, <2>3, MarkedConcat DEF Ordered
<1>18. PICK b : b = a \o Y
  OBVIOUS
<1>19. Steady(o, b) /\ WritesOf(b) = WritesOf(a) \cup WritesOf(Y)
  BY <1>13, <1>14, <1>16, <1>18, SteadyConcat, WritesConcat
<1>20. ~Has(Y, Write("create")) /\ ~Has(Y, Write("delete"))
  BY <1>7, <1>11 DEF WritesOf, Writes
<1>21. Ordered(b)
  BY <1>14, <1>16, <1>17, <1>18, <1>20, OrderedConcat
<1>22. X = B => Y = C
  BY <1>11, <1>12
<1>23. /\ X = <<>> => WritesOf(b) \subseteq {"handle", "conv"}
       /\ X = B => WritesOf(b) = {"handle", "create", "conv"}
       /\ o.kind = "refuse" => WritesOf(b) = {"handle"}
  <2>1. WritesOf(b) = {"handle"} \cup WritesOf(X) \cup WritesOf(Y)
    BY <1>16, <1>19
  <2> QED BY <1>7, <1>8, <1>11, <1>22, <2>1
<1>24. Plan(o, b)
  BY <1>10, <1>19, <1>21, <1>23, PlanByWrites DEF LeaveKinds
<1>25. NeedsMet(o, b, g)
  BY <1>10, <1>19, <1>23, NeedsByWrites
<1>26. "create" \in WritesOf(b) <=> X # <<>>
  BY <1>10, <1>12, <1>23
<1>27. WritesOf(b) \subseteq {"handle", "create", "conv"}
  BY <1>10, <1>23
<1>28. ASSUME NEW i \in DOMAIN b, b[i] = Write("handle") PROVE i = 1
  <2>1. ~Has(X, Write("handle")) /\ ~Has(Y, Write("handle"))
    BY <1>3, <1>7, <1>8, <1>10, <1>11 DEF WritesOf
  <2>2. PICK m \in Nat, n \in Nat : m = Len(X) /\ n = Len(Y)
    BY <1>14
  <2>3. Len(H) = 1
    BY <1>2
  <2>4. /\ Len(a) = 1 + m /\ DOMAIN X = 1 .. m
        /\ \A j \in 1 .. m : a[1 + j] = X[j]
    <3>1. /\ Len(a) = Len(H) + Len(X) /\ DOMAIN X = 1 .. Len(X)
          /\ \A j \in 1 .. Len(X) : a[Len(H) + j] = X[j]
      BY <1>14, <1>15, ConcatFacts
    <3> QED BY <2>2, <2>3, <3>1
  <2>5. /\ DOMAIN b = 1 .. 1 + m + n /\ DOMAIN Y = 1 .. n
        /\ \A j \in 1 .. 1 + m : b[j] = a[j]
        /\ \A j \in 1 .. n : b[1 + m + j] = Y[j]
    <3>1. /\ DOMAIN b = 1 .. Len(a) + Len(Y) /\ DOMAIN Y = 1 .. Len(Y)
          /\ \A j \in 1 .. Len(a) : b[j] = a[j]
          /\ \A j \in 1 .. Len(Y) : b[Len(a) + j] = Y[j]
      BY <1>14, <1>16, <1>18, ConcatFacts
    <3> QED BY <2>2, <2>4, <3>1
  <2>6. ASSUME i \in 2 .. 1 + m PROVE FALSE
    <3>1. i - 1 \in 1 .. m /\ i = 1 + (i - 1)
      BY <2>6
    <3>2. X[i - 1] = Write("handle")
      BY <1>28, <2>4, <2>5, <2>6, <3>1
    <3> QED BY <2>1, <2>4, <3>1, <3>2 DEF Has
  <2>7. ASSUME i \in 2 + m .. 1 + m + n PROVE FALSE
    <3>1. i - (1 + m) \in 1 .. n /\ i = 1 + m + (i - (1 + m))
      BY <2>7
    <3>2. Y[i - (1 + m)] = Write("handle")
      BY <1>28, <2>5, <3>1
    <3> QED BY <2>1, <2>5, <3>1, <3>2 DEF Has
  <2> QED BY <2>5, <2>6, <2>7
<1> QED BY <1>2, <1>15, <1>18, <1>24, <1>25, <1>26, <1>27, <1>28 DEF Ready

\* A plan of one write, the deletion of its keys, and a last read.
LEMMA BlockPlan ==
    ASSUME NEW o, IsRequest(o), NEW g, NEW w \in {"setRole", "setMuted", "setStatus", "setVerify"},
           o.kind \notin {"send"}, w = "setRole" => o.kind = "setRole",
           NEW q \in Seq(CacheKeys), \A k \in Touches(o, Write(w)) : \E i \in 1 .. Len(q) : q[i] = k
    PROVE  Ready(o, <<Write(w)>> \o Flush(q), g) /\ Steady(o, <<Write(w)>> \o Flush(q))
<1>1. PICK b : b = <<Write(w)>> \o Flush(q)
  OBVIOUS
<1>2. w \in Writes
  BY DEF Writes
<1>3. Steady(o, b)
  BY <1>1, <1>2, BlockSteady
<1>4. WritesOf(b) = {w} /\ Ordered(b)
  BY <1>1, <1>2, WritesBlock, BlockMarks
<1>5. Plan(o, b)
  BY <1>3, <1>4, PlanByWrites
<1>6. NeedsMet(o, b, g)
  BY <1>3, <1>4, NeedsByWrites
<1> QED BY <1>1, <1>3, <1>5, <1>6 DEF Ready

LEMMA LeavePlan ==
    ASSUME NEW o, IsRequest(o), o.kind \in LeaveKinds, NEW g
    PROVE  Ready(o, LetGo(o.user), g) /\ WritesOf(LetGo(o.user)) = {"delete", "convMax"}
<1>1. PICK u \in User : u = o.user
  BY DEF IsRequest
<1>2. PICK B, C : /\ B = <<Write("delete")>> \o Flush(<<Ids, Member(u), Owners>>)
                  /\ C = <<MaxKey, Write("convMax")>>
  OBVIOUS
<1>3. <<Ids, Member(u), Owners>> \in Seq(CacheKeys) /\ {"delete", "convMax"} \subseteq Writes
  BY CommandFacts DEF Writes
<1>4. Touches(o, Write("delete")) = {Ids, Member(u), Owners}
  BY <1>1, Tags DEF Touches
<1>5. \A k \in {Ids, Member(u), Owners} : \E i \in 1 .. 3 : <<Ids, Member(u), Owners>>[i] = k
  OBVIOUS
<1>6. Len(<<Ids, Member(u), Owners>>) = 3
  OBVIOUS
<1>7. Steady(o, B) /\ WritesOf(B) = {"delete"} /\ Ordered(B)
  BY <1>2, <1>3, <1>4, <1>5, <1>6, BlockSteady, WritesBlock, BlockMarks
<1>8. Steady(o, C)
  <2>1. MaxKey \in Commands /\ MaxKey \in Late(o) /\ Touches(o, MaxKey) = {}
    BY CommandFacts, QuietCommands, Tags DEF Late
  <2>2. Write("convMax") \in Commands /\ IsWrite(Write("convMax")) /\ Touches(o, Write("convMax")) = {}
    BY <1>3, CommandFacts, QuietCommands, Tags
  <2> QED BY <1>2, <2>1, <2>2, SteadyTwo
<1>9. MaxKey \in Reads
  BY DEF Reads, StoredKeys
<1>10. WritesOf(C) = {"convMax"}
  BY <1>2, <1>3, <1>9, WritesShort
<1>11. B \in Seq(Commands) /\ C \in Seq(Commands)
  BY <1>7, <1>8 DEF Steady
<1>12. PICK t : t = B \o C
  OBVIOUS
<1>13. t = LetGo(o.user)
  BY <1>1, <1>2, <1>12 DEF LetGo, MemberKeys
<1>14. Steady(o, t) /\ WritesOf(t) = WritesOf(B) \cup WritesOf(C)
  BY <1>7, <1>8, <1>11, <1>12, SteadyConcat, WritesConcat
<1>15. ~Has(C, Write("create")) /\ ~Has(C, Write("delete"))
  BY <1>10 DEF WritesOf, Writes
<1>16. Ordered(t)
  BY <1>7, <1>11, <1>12, <1>15, OrderedConcat
<1>17. WritesOf(t) = {"delete", "convMax"}
  BY <1>7, <1>10, <1>14
<1>18. o.kind # "send"
  BY DEF LeaveKinds
<1>19. Plan(o, t)
  BY <1>14, <1>16, <1>17, <1>18, PlanByWrites
<1>20. NeedsMet(o, t, g)
  <2>1. PICK m \in Nat : m = Len(B)
    BY <1>11
  <2>2. /\ DOMAIN B = 1 .. m /\ DOMAIN t = 1 .. m + 2
        /\ \A i \in 1 .. m : t[i] = B[i]
        /\ \A i \in 1 .. 2 : t[m + i] = C[i]
    <3>1. Len(C) = 2
      BY <1>2
    <3>2. /\ DOMAIN B = 1 .. Len(B) /\ DOMAIN t = 1 .. Len(B) + Len(C)
          /\ \A i \in 1 .. Len(B) : t[i] = B[i]
          /\ \A i \in 1 .. Len(C) : t[Len(B) + i] = C[i]
      BY <1>11, <1>12, ConcatFacts
    <3> QED BY <2>1, <3>1, <3>2
  <2>3. t[m + 1] = MaxKey /\ t[m + 2] = Write("convMax")
    BY <1>2, <2>2
  <2>4. ReadBefore(t, g, Write("convMax"), MaxKey)
    <3> SUFFICES ASSUME NEW j \in DOMAIN t, t[j] = Write("convMax") PROVE \E i \in 1 .. j - 1 : t[i] = MaxKey
      BY DEF ReadBefore
    <3>1. j > m
      <4>1. ASSUME j <= m PROVE FALSE
        <5>1. j \in DOMAIN B /\ B[j] = Write("convMax")
          BY <2>2, <4>1
        <5>2. "convMax" \in WritesOf(B)
          BY <1>3, <5>1 DEF WritesOf, Has
        <5> QED BY <1>7, <5>2
      <4> QED BY <2>2, <4>1
    <3>2. j # m + 1
      BY <2>3, Tags
    <3>3. m + 1 \in 1 .. j - 1
      BY <2>2, <3>1, <3>2
    <3> QED BY <2>3, <3>3
  <2>5. \A v \in {"deleteAll", "userMin", "demote"} : ~Has(t, Write(v))
    BY <1>17 DEF WritesOf, Writes
  <2>7. ASSUME NEW x, NEW k, ~Has(t, x) PROVE ReadBefore(t, g, x, k)
    BY <2>7 DEF ReadBefore, Has
  <2>8. Needs(o) = { <<Write("convMax"), MaxKey>>, <<Write("deleteAll"), Ids>>, <<Write("userMin"), MaxKey>>,
                     <<Write("demote"), Member(o.user)>> }
    BY DEF Needs, LeaveKinds
  <2> QED BY <2>4, <2>5, <2>7, <2>8 DEF NeedsMet
<1> QED BY <1>13, <1>17, <1>19, <1>20 DEF Ready

LEMMA TransferPlan ==
    ASSUME NEW o, IsRequest(o), o.kind = "transfer", NEW g, Member(o.user) \in DOMAIN g
    PROVE  Ready(o, <<Write("demote"), Write("promote")>>
                    \o Flush(<<Member(o.by), Member(o.user), Owners>>), g)
<1>1. o.user \in User /\ o.by \in User
  BY DEF IsRequest
<1>2. PICK q \in Seq(CacheKeys) : q = <<Member(o.by), Member(o.user), Owners>>
  <2>1. Member(o.by) \in CacheKeys /\ Member(o.user) \in CacheKeys /\ Owners \in CacheKeys
    BY <1>1, CommandFacts
  <2>2. <<Member(o.by), Member(o.user), Owners>> \in Seq(CacheKeys)
    BY <2>1
  <2> QED BY <2>2
<1>3. Len(q) = 3 /\ q[1] = Member(o.by) /\ q[2] = Member(o.user) /\ q[3] = Owners
  BY <1>2
<1>4. PICK f \in Seq(Commands) : f = Flush(q)
  BY FlushFacts
<1>5. Len(f) = 3 /\ f[1] = FlushOf(Member(o.by)) /\ f[2] = FlushOf(Member(o.user)) /\ f[3] = FlushOf(Owners)
  BY <1>3, <1>4, FlushFacts
<1>6. {"demote", "promote"} \subseteq Writes
  BY DEF Writes
<1>7. PICK s \in Seq(Commands) : s = <<Write("demote"), Write("promote")>>
  <2>1. Write("demote") \in Commands /\ Write("promote") \in Commands
    BY <1>6, CommandFacts
  <2>2. <<Write("demote"), Write("promote")>> \in Seq(Commands)
    BY <2>1
  <2> QED BY <2>2
<1>8. Len(s) = 2 /\ s[1] = Write("demote") /\ s[2] = Write("promote")
  BY <1>7
<1>9. PICK t : t = s \o f
  OBVIOUS
<1>10. /\ t \in Seq(Commands) /\ DOMAIN t = 1 .. Len(s) + Len(f)
       /\ \A i \in 1 .. Len(s) : t[i] = s[i]
       /\ \A i \in 1 .. Len(f) : t[Len(s) + i] = f[i]
  BY <1>9, ConcatFacts
<1>11. /\ DOMAIN t = 1 .. 5 /\ t[1] = Write("demote") /\ t[2] = Write("promote")
       /\ t[3] = FlushOf(Member(o.by)) /\ t[4] = FlushOf(Member(o.user)) /\ t[5] = FlushOf(Owners)
  BY <1>5, <1>8, <1>10
<1>12. \A i \in {3, 4, 5} : ~IsWrite(t[i]) /\ IsFlush(t[i]) /\ Touches(o, t[i]) = {}
  <2>1. \A k : ~IsWrite(FlushOf(k)) /\ IsFlush(FlushOf(k))
    BY Tags DEF IsWrite, IsFlush
  <2>2. \A k : Touches(o, FlushOf(k)) = {}
    BY QuietCommands, Tags
  <2> QED BY <1>11, <2>1, <2>2
<1>13. Touches(o, t[1]) = {Member(o.by), Owners} /\ Touches(o, t[2]) = {Member(o.user), Owners}
  BY <1>11, Tags DEF Touches
<1>14. Kept(o, t)
  <2> SUFFICES ASSUME NEW i \in DOMAIN t, NEW k \in Touches(o, t[i])
               PROVE  \E j \in DOMAIN t : /\ i < j /\ t[j] = FlushOf(k)
                                          /\ \A h \in i + 1 .. j - 1 : Passes(o, k, t[h])
    BY DEF Kept
  <2>1. i \in {1, 2}
    BY <1>11, <1>12
  <2>2. PICK j \in {3, 4, 5} : t[j] = FlushOf(k) /\ (i = 1 => k \in {Member(o.by), Owners})
    BY <1>11, <1>13, <2>1
  <2>3. j \in DOMAIN t /\ i < j
    BY <1>11, <2>1
  <2>4. ASSUME NEW h \in i + 1 .. j - 1 PROVE Passes(o, k, t[h])
    <3>1. h \in {3, 4, 5} \/ (h = 2 /\ i = 1)
      BY <2>1
    <3> QED BY <1>11, <1>12, <2>2, <3>1 DEF Passes
  <2> QED BY <2>2, <2>3, <2>4
<1>15. IsWrite(t[1]) /\ IsWrite(t[2])
  BY <1>11, Tags DEF IsWrite
<1>16. Steady(o, t)
  <2>1. \A i \in DOMAIN t : IsWrite(t[i]) \/ IsFlush(t[i])
    BY <1>11, <1>12, <1>15
  <2> QED BY <1>10, <1>14, <2>1 DEF Steady, AllLate
<1>17. WritesOf(t) = {"demote", "promote"}
  <2>1. \A v : (\E i \in DOMAIN t : t[i] = Write(v)) <=> v \in {"demote", "promote"}
    BY <1>11, Tags
  <2> QED BY <1>6, <2>1 DEF WritesOf, Has
<1>18. Ordered(t)
  BY <1>17, WritesMarks
<1>19. Plan(o, t)
  BY <1>16, <1>17, <1>18, PlanByWrites
<1>20. NeedsMet(o, t, g)
  BY <1>16, <1>17, NeedsByWrites
<1> QED BY <1>2, <1>4, <1>7, <1>9, <1>19, <1>20 DEF Ready

\* A steady plan may end with a read of any key.
LEMMA SetInfoPlan ==
    ASSUME NEW o, IsRequest(o), o.kind = "setInfo", NEW g
    PROVE  Ready(o, <<Write("setVerify")>> \o Flush(<<Info>>) \o <<Info>>, g)
<1>1. PICK q \in Seq(CacheKeys) : q = <<Info>>
  <2>1. Info \in CacheKeys
    BY CommandFacts
  <2>2. <<Info>> \in Seq(CacheKeys)
    BY <2>1
  <2> QED BY <2>2
<1>2. Len(q) = 1 /\ q[1] = Info
  BY <1>1
<1>3. "setVerify" \in Writes /\ Touches(o, Write("setVerify")) = {Info}
  BY Tags DEF Writes, Touches
<1>4. PICK b : b = <<Write("setVerify")>> \o Flush(q)
  OBVIOUS
<1>5. Steady(o, b) /\ b \in Seq(Commands) /\ WritesOf(b) = {"setVerify"}
  <2>1. \A k \in Touches(o, Write("setVerify")) : \E i \in 1 .. Len(q) : q[i] = k
    BY <1>2, <1>3
  <2>2. Steady(o, b)
    BY <1>3, <1>4, <2>1, BlockSteady
  <2>3. WritesOf(b) = {"setVerify"}
    BY <1>3, <1>4, WritesBlock
  <2> QED BY <2>2, <2>3 DEF Steady
<1>6. Len(b) = 2 /\ b[1] = Write("setVerify") /\ b[2] = FlushOf(Info)
  <2>1. /\ Len(b) = Len(q) + 1 /\ b[1] = Write("setVerify")
        /\ \A i \in 1 .. Len(q) : b[1 + i] = FlushOf(q[i])
    BY <1>3, <1>4, BlockFacts
  <2> QED BY <1>2, <2>1
<1>7. PICK s \in Seq(Commands) : s = <<Info>>
  <2>1. Info \in Commands
    BY CommandFacts
  <2>2. <<Info>> \in Seq(Commands)
    BY <2>1
  <2> QED BY <2>2
<1>8. Len(s) = 1 /\ s[1] = Info
  BY <1>7
<1>9. PICK t : t = b \o s
  OBVIOUS
<1>10. /\ t \in Seq(Commands) /\ DOMAIN t = 1 .. Len(b) + Len(s) /\ Len(t) = Len(b) + Len(s)
       /\ \A i \in 1 .. Len(b) : t[i] = b[i]
       /\ \A i \in 1 .. Len(s) : t[Len(b) + i] = s[i]
  BY <1>5, <1>9, ConcatFacts
<1>11. /\ DOMAIN t = 1 .. 3 /\ t[1] = Write("setVerify") /\ t[2] = FlushOf(Info) /\ t[3] = Info
  BY <1>6, <1>8, <1>10
<1>12. /\ IsWrite(t[1]) /\ IsFlush(t[2]) /\ ~IsWrite(t[2]) /\ ~IsWrite(t[3]) /\ ~IsFlush(t[3])
       /\ Touches(o, t[1]) = {Info} /\ Touches(o, t[2]) = {} /\ Touches(o, t[3]) = {}
       /\ \A i \in 1 .. 3 : t[i] # Decide
  BY <1>3, <1>11, QuietCommands, Tags DEF IsWrite, IsFlush
<1>13. Kept(o, t)
  <2> SUFFICES ASSUME NEW i \in DOMAIN t, NEW k \in Touches(o, t[i])
               PROVE  \E j \in DOMAIN t : /\ i < j /\ t[j] = FlushOf(k)
                                          /\ \A h \in i + 1 .. j - 1 : Passes(o, k, t[h])
    BY DEF Kept
  <2>1. i = 1 /\ k = Info
    BY <1>11, <1>12
  <2> QED BY <1>11, <2>1
<1>14. LateReads(o, t) /\ DecideLast(t)
  <2>1. \A i, j \in 1 .. 3 : i < j => i = 1 \/ i = 2
    OBVIOUS
  <2> QED BY <1>11, <1>12, <2>1 DEF LateReads, DecideLast
<1>15. WritesOf(t) = {"setVerify"}
  <2>1. \A v : (\E i \in DOMAIN t : t[i] = Write(v)) <=> v \in {"setVerify"}
    BY <1>11, Tags
  <2> QED BY <1>3, <2>1 DEF WritesOf, Has
<1>16. Ordered(t) /\ Complete(o, t)
  BY <1>15, WritesMarks
<1>17. \A v \in {"create", "conv", "delete", "convMax", "userMin", "demote", "promote", "setRole", "deleteAll"} :
          ~Has(t, Write(v))
  BY <1>15 DEF WritesOf, Writes
<1>18. OfKind(o, t)
  BY <1>17 DEF OfKind
<1>19. NeedsMet(o, t, g)
  BY <1>17 DEF NeedsMet, Needs, ReadBefore, Has
<1> QED BY <1>1, <1>4, <1>7, <1>9, <1>10, <1>13, <1>14, <1>16, <1>18, <1>19 DEF Ready, Plan

LEMMA DismissPlan ==
    ASSUME NEW o, IsRequest(o), o.kind = "dismiss", NEW g,
           NEW X, X = <<Ids, Write("deleteAll")>> \/ X = <<>>
    PROVE  Ready(o, <<Write("setStatus")>> \o X \o Flush(<<Info>>) \o <<Ids>>, g)
<1>1. PICK q \in Seq(CacheKeys) : q = <<Info>>
  <2>1. Info \in CacheKeys
    BY CommandFacts
  <2>2. <<Info>> \in Seq(CacheKeys)
    BY <2>1
  <2> QED BY <2>2
<1>2. PICK f \in Seq(Commands) : f = Flush(q)
  BY FlushFacts
<1>3. Len(f) = 1 /\ f[1] = FlushOf(Info)
  <2>1. Len(q) = 1 /\ q[1] = Info
    BY <1>1
  <2> QED BY <1>2, <2>1, FlushFacts
<1>4. {"setStatus", "deleteAll"} \subseteq Writes
  BY DEF Writes
<1>5. PICK s \in Seq(Commands), r \in Seq(Commands), x \in Seq(Commands) :
         s = <<Write("setStatus")>> /\ r = <<Ids>> /\ x = X
  <2>1. Write("setStatus") \in Commands /\ Write("deleteAll") \in Commands /\ Ids \in Commands
    BY <1>4, CommandFacts
  <2>2. <<Write("setStatus")>> \in Seq(Commands) /\ <<Ids>> \in Seq(Commands)
    BY <2>1
  <2>3. <<>> \in Seq(Commands) /\ <<Ids, Write("deleteAll")>> \in Seq(Commands)
    BY <2>1
  <2> QED BY <2>2, <2>3
<1>6. PICK a : a = s \o x
  OBVIOUS
<1>7. /\ a \in Seq(Commands) /\ Len(a) = Len(s) + Len(x)
      /\ \A i \in 1 .. Len(s) : a[i] = s[i]
      /\ \A i \in 1 .. Len(x) : a[Len(s) + i] = x[i]
  BY <1>6, ConcatFacts
<1>8. PICK b : b = a \o f
  OBVIOUS
<1>9. /\ b \in Seq(Commands) /\ Len(b) = Len(a) + Len(f)
      /\ \A i \in 1 .. Len(a) : b[i] = a[i]
      /\ \A i \in 1 .. Len(f) : b[Len(a) + i] = f[i]
  <2>1. a \in Seq(Commands)
    BY <1>7
  <2> QED BY <1>8, <2>1, ConcatFacts
<1>10. PICK t : t = b \o r
  OBVIOUS
<1>11. /\ t \in Seq(Commands) /\ DOMAIN t = 1 .. Len(b) + Len(r)
       /\ \A i \in 1 .. Len(b) : t[i] = b[i]
       /\ \A i \in 1 .. Len(r) : t[Len(b) + i] = r[i]
  <2>1. b \in Seq(Commands)
    BY <1>9
  <2> QED BY <1>10, <2>1, ConcatFacts
<1>12. Len(s) = 1 /\ s[1] = Write("setStatus") /\ Len(r) = 1 /\ r[1] = Ids
  BY <1>5
<1>13. \/ /\ DOMAIN t = 1 .. 3 /\ t[1] = Write("setStatus") /\ t[2] = FlushOf(Info) /\ t[3] = Ids
       \/ /\ DOMAIN t = 1 .. 5 /\ t[1] = Write("setStatus") /\ t[2] = Ids /\ t[3] = Write("deleteAll")
          /\ t[4] = FlushOf(Info) /\ t[5] = Ids
  <2>1. CASE x = <<>>
    <3>1. Len(x) = 0
      BY <2>1
    <3>2. Len(a) = 1 /\ a[1] = Write("setStatus")
      BY <1>7, <1>12, <3>1
    <3>3. Len(b) = 2 /\ b[1] = Write("setStatus") /\ b[2] = FlushOf(Info)
      BY <1>3, <1>9, <3>2
    <3> QED BY <1>11, <1>12, <3>3
  <2>2. CASE x = <<Ids, Write("deleteAll")>>
    <3>1. Len(x) = 2 /\ x[1] = Ids /\ x[2] = Write("deleteAll")
      BY <2>2
    <3>2. Len(a) = 3 /\ a[1] = Write("setStatus") /\ a[2] = Ids /\ a[3] = Write("deleteAll")
      BY <1>7, <1>12, <3>1
    <3>3. /\ Len(b) = 4 /\ b[1] = Write("setStatus") /\ b[2] = Ids /\ b[3] = Write("deleteAll")
          /\ b[4] = FlushOf(Info)
      BY <1>3, <1>9, <3>2
    <3> QED BY <1>11, <1>12, <3>3
  <2> QED BY <1>5, <2>1, <2>2
<1>14. /\ Touches(o, Write("setStatus")) = {Info} /\ Touches(o, Write("deleteAll")) = {}
       /\ Touches(o, Ids) = {} /\ Touches(o, FlushOf(Info)) = {}
       /\ IsWrite(Write("setStatus")) /\ IsWrite(Write("deleteAll")) /\ IsFlush(FlushOf(Info))
       /\ ~IsWrite(FlushOf(Info)) /\ ~IsWrite(Ids) /\ ~IsFlush(Ids)
       /\ Ids \in Late(o)
  BY Tags DEF Touches, IsWrite, IsFlush, Late, JoinKinds, LeaveKinds
<1>23. \A i \in DOMAIN t : \/ i = 1 /\ t[i] = Write("setStatus")
                           \/ i # 1 /\ t[i] = FlushOf(Info)
                           \/ i # 1 /\ t[i] = Ids
                           \/ i = 3 /\ t[i] = Write("deleteAll") /\ t[2] = Ids
  <2>1. CASE DOMAIN t = 1 .. 3 /\ t[1] = Write("setStatus") /\ t[2] = FlushOf(Info) /\ t[3] = Ids
    <3>1. DOMAIN t = {1, 2, 3}
      BY <2>1
    <3> QED BY <2>1, <3>1
  <2>2. CASE /\ DOMAIN t = 1 .. 5 /\ t[1] = Write("setStatus") /\ t[2] = Ids /\ t[3] = Write("deleteAll")
             /\ t[4] = FlushOf(Info) /\ t[5] = Ids
    <3>1. DOMAIN t = {1, 2, 3, 4, 5}
      BY <2>2
    <3> QED BY <2>2, <3>1
  <2> QED BY <1>13, <2>1, <2>2
<1>24. /\ \A v : Ids # Write(v) /\ FlushOf(Info) # Write(v)
       /\ \A v, w : Write(v) = Write(w) => v = w
  <2>1. \A v, w : Write(v) = Write(w) => v = w
    BY Tags
  <2>2. ASSUME NEW v PROVE Ids # Write(v) /\ FlushOf(Info) # Write(v)
    <3>1. Ids[1] = "ids" /\ FlushOf(Info)[1] = "flush" /\ Write(v)[1] = "write"
      BY Tags
    <3> QED BY <3>1
  <2> QED BY <2>1, <2>2
<1>15. Kept(o, t)
  <2> SUFFICES ASSUME NEW i \in DOMAIN t, NEW k \in Touches(o, t[i])
               PROVE  \E j \in DOMAIN t : /\ i < j /\ t[j] = FlushOf(k)
                                          /\ \A h \in i + 1 .. j - 1 : Passes(o, k, t[h])
    BY DEF Kept
  <2>1. i = 1 /\ k = Info
    BY <1>14, <1>23
  <2>2. CASE DOMAIN t = 1 .. 3 /\ t[2] = FlushOf(Info)
    <3>1. 2 \in DOMAIN t /\ i < 2 /\ t[2] = FlushOf(k)
      BY <2>1, <2>2
    <3>2. \A h \in i + 1 .. 2 - 1 : Passes(o, k, t[h])
      BY <2>1
    <3> QED BY <3>1, <3>2
  <2>3. CASE DOMAIN t = 1 .. 5 /\ t[2] = Ids /\ t[3] = Write("deleteAll") /\ t[4] = FlushOf(Info)
    <3>1. 4 \in DOMAIN t /\ i < 4 /\ t[4] = FlushOf(k)
      BY <2>1, <2>3
    <3>2. \A h \in i + 1 .. 4 - 1 : h = 2 \/ h = 3
      BY <2>1
    <3>3. \A h \in i + 1 .. 4 - 1 : Passes(o, k, t[h])
      BY <1>14, <2>3, <3>2 DEF Passes
    <3> QED BY <3>1, <3>3
  <2> QED BY <1>13, <2>2, <2>3
<1>16. AllLate(o, t)
  BY <1>14, <1>23 DEF AllLate
<1>17. Steady(o, t)
  BY <1>11, <1>15, <1>16 DEF Steady
<1>18. WritesOf(t) \subseteq {"setStatus", "deleteAll"}
  <2>1. \A v : (\E i \in DOMAIN t : t[i] = Write(v)) => v \in {"setStatus", "deleteAll"}
    BY <1>23, <1>24
  <2> QED BY <2>1 DEF WritesOf, Has
<1>19. Ordered(t)
  BY <1>18, WritesMarks
<1>20. Plan(o, t)
  BY <1>17, <1>18, <1>19, PlanByWrites
<1>21. NeedsMet(o, t, g)
  <2>1. ReadBefore(t, g, Write("deleteAll"), Ids)
    <3> SUFFICES ASSUME NEW j \in DOMAIN t, t[j] = Write("deleteAll") PROVE \E i \in 1 .. j - 1 : t[i] = Ids
      BY DEF ReadBefore
    <3>1. j = 3 /\ t[2] = Ids
      BY <1>23, <1>24
    <3> QED BY <3>1
  <2>2. \A v \in {"convMax", "userMin", "demote"} : ~Has(t, Write(v))
    BY <1>18 DEF WritesOf, Writes
  <2>3. \A y, k : ~Has(t, y) => ReadBefore(t, g, y, k)
    BY DEF ReadBefore, Has
  <2>4. Needs(o) = { <<Write("convMax"), MaxKey>>, <<Write("deleteAll"), Ids>>, <<Write("userMin"), MaxKey>>,
                     <<Write("demote"), Member(o.user)>> }
    BY DEF Needs
  <2> QED BY <2>1, <2>2, <2>3, <2>4 DEF NeedsMet
<1>22. t = <<Write("setStatus")>> \o X \o Flush(<<Info>>) \o <<Ids>>
  BY <1>1, <1>2, <1>5, <1>6, <1>8, <1>10
<1> QED BY <1>20, <1>21, <1>22 DEF Ready

LEMMA SendPlan ==
    ASSUME NEW o, IsRequest(o), o.kind = "send", NEW g, Member(o.by) \in DOMAIN g
    PROVE  Ready(o, <<Write("queue")>>, g)
<1>1. PICK t : t = <<Write("queue")>>
  OBVIOUS
<1>2. "queue" \in Writes
  BY DEF Writes
<1>3. Write("queue") \in Commands /\ Touches(o, Write("queue")) = {} /\ IsWrite(Write("queue"))
  BY <1>2, CommandFacts, QuietCommands, Tags
<1>4. Steady(o, t)
  BY <1>1, <1>3, SteadyTwo
<1>5. DOMAIN t = 1 .. 1 /\ t[1] = Write("queue")
  BY <1>1
<1>6. \A x : Has(t, x) <=> x = Write("queue")
  BY <1>5 DEF Has
<1>7. Ordered(t) /\ Complete(o, t)
  BY <1>6, Tags, NotMarked DEF Complete
<1>8. OfKind(o, t)
  <2>1. ~IsFlush(Write("queue"))
    BY Tags DEF IsFlush
  <2> QED BY <1>5, <1>6, <2>1, Tags DEF OfKind
<1>9. \A n \in Needs(o) : Has(t, n[1]) => n[2] = Member(o.by)
  BY <1>6, Tags DEF Needs
<1>10. NeedsMet(o, t, g)
  BY <1>9 DEF NeedsMet, ReadBefore, Has
<1> QED BY <1>1, <1>4, <1>7, <1>8, <1>10, SteadyPlan DEF Ready

-----------------------------------------------------------------------------
(* What a call does when it begins, when its checks have passed, and when a *)
(* value reaches it.                                                        *)

LEMMA FollowsJoin ==
    ASSUME NEW o, IsRequest(o), NEW g
    PROVE  /\ o.kind = "join" =>
                Follow(o, g, Decide) =
                  (IF g[Info].verify = "directly" \/ o.val = "rights" THEN LetIn(o.user) ELSE AskToJoin)
                  \o SetRead(o.user) \o <<Write("userMin")>>
           /\ o.kind = "invite" =>
                Follow(o, g, Decide) =
                  (IF g[Info].verify = "all" /\ ~AtLeastAdmin(g[Member(o.by)]) THEN AskToJoin ELSE LetIn(o.user))
                  \o <<Write("userMin")>> \o SetRead(o.user)
           /\ o.kind \in {"approve", "refuse"} =>
                Follow(o, g, Decide) =
                  <<Write("handle")>>
                  \o (IF o.kind = "approve" /\ g[Member(o.user)] = NoRow
                      THEN <<Write("create")>> \o Flush(<<Member(o.user), Ids>>) ELSE <<>>)
                  \o (IF o.kind = "approve" THEN MakeConv(o.user) ELSE <<>>)
<1>1. o.kind = "join" => Follow(o, g, Decide) = JoinGroup(o, g, Decide)
  BY DEF Follow
<1>2. o.kind = "invite" => Follow(o, g, Decide) = InviteUserToGroup(o, g, Decide)
  BY DEF Follow
<1>3. o.kind \in {"approve", "refuse"} => Follow(o, g, Decide) = GroupApplicationResponse(o, g, Decide)
  BY DEF Follow
<1>4. JoinGroup(o, g, Decide) =
          (IF g[Info].verify = "directly" \/ o.val = "rights" THEN LetIn(o.user) ELSE AskToJoin)
          \o SetRead(o.user) \o <<Write("userMin")>>
  BY DecideNew DEF JoinGroup
<1>5. InviteUserToGroup(o, g, Decide) =
          (IF g[Info].verify = "all" /\ ~AtLeastAdmin(g[Member(o.by)]) THEN AskToJoin ELSE LetIn(o.user))
          \o <<Write("userMin")>> \o SetRead(o.user)
  BY DecideNew DEF InviteUserToGroup
<1>6. GroupApplicationResponse(o, g, Decide) =
          <<Write("handle")>>
          \o (IF o.kind = "approve" /\ g[Member(o.user)] = NoRow
              THEN <<Write("create")>> \o Flush(<<Member(o.user), Ids>>) ELSE <<>>)
          \o (IF o.kind = "approve" THEN MakeConv(o.user) ELSE <<>>)
  BY DecideNew DEF GroupApplicationResponse
<1> QED BY <1>1, <1>2, <1>3, <1>4, <1>5, <1>6

LEMMA FollowsOthers ==
    ASSUME NEW o, IsRequest(o), NEW g
    PROVE  /\ o.kind \in LeaveKinds => Follow(o, g, Decide) = LetGo(o.user)
           /\ o.kind = "transfer" =>
                Follow(o, g, Decide) = <<Write("demote"), Write("promote")>>
                                       \o Flush(<<Member(o.by), Member(o.user), Owners>>)
           /\ o.kind = "setRole" =>
                Follow(o, g, Decide) = <<Write("setRole")>> \o Flush(<<Owners, Member(o.user)>>)
           /\ o.kind \in {"muteMember", "unmuteMember"} =>
                Follow(o, g, Decide) = <<Write("setMuted")>> \o Flush(<<Member(o.user)>>)
           /\ o.kind \in {"muteGroup", "unmuteGroup"} =>
                Follow(o, g, Decide) = <<Write("setStatus")>> \o Flush(<<Info>>)
           /\ o.kind = "setInfo" =>
                Follow(o, g, Decide) = <<Write("setVerify")>> \o Flush(<<Info>>) \o <<Info>>
           /\ o.kind = "dismiss" =>
                Follow(o, g, Decide) =
                  <<Write("setStatus")>>
                  \o (IF o.val = "delete" THEN <<Ids, Write("deleteAll")>> ELSE <<>>)
                  \o Flush(<<Info>>) \o <<Ids>>
           /\ o.kind = "send" => Follow(o, g, Decide) = <<Write("queue")>>
<1>1. o.kind = "kick" => Follow(o, g, Decide) = LetGo(o.user)
  <2>1. KickGroupMember(o, g, Decide) = LetGo(o.user)
    BY DecideNew DEF KickGroupMember
  <2> QED BY <2>1 DEF Follow
<1>2. o.kind = "quit" => Follow(o, g, Decide) = LetGo(o.user)
  <2>1. QuitGroup(o, g, Decide) = LetGo(o.user)
    BY DecideNew DEF QuitGroup
  <2> QED BY <2>1 DEF Follow
<1>3. o.kind = "transfer" => Follow(o, g, Decide) = TransferGroupOwner(o, g, Decide)
  BY DEF Follow
<1>4. o.kind = "setRole" => Follow(o, g, Decide) = SetGroupMemberInfo(o, g, Decide)
  BY DEF Follow
<1>5. o.kind \in {"muteMember", "unmuteMember"} => Follow(o, g, Decide) = MuteGroupMember(o, g, Decide)
  BY DEF Follow
<1>6. o.kind \in {"muteGroup", "unmuteGroup"} => Follow(o, g, Decide) = MuteGroup(o, g, Decide)
  BY DEF Follow
<1>7. o.kind = "setInfo" => Follow(o, g, Decide) = SetGroupInfo(o, g, Decide)
  BY DEF Follow
<1>8. o.kind = "dismiss" => Follow(o, g, Decide) = DismissGroup(o, g, Decide)
  BY DEF Follow
<1>9. o.kind = "send" => Follow(o, g, Decide) = sendMsgSuperGroupChat(o, g, Decide)
  BY DEF Follow
<1>10. TransferGroupOwner(o, g, Decide) = <<Write("demote"), Write("promote")>>
                                          \o Flush(<<Member(o.by), Member(o.user), Owners>>)
  BY DecideNew DEF TransferGroupOwner
<1>11. SetGroupMemberInfo(o, g, Decide) = <<Write("setRole")>> \o Flush(<<Owners, Member(o.user)>>)
  BY DecideNew DEF SetGroupMemberInfo
<1>12. MuteGroupMember(o, g, Decide) = <<Write("setMuted")>> \o Flush(<<Member(o.user)>>)
  BY DecideNew DEF MuteGroupMember
<1>13. MuteGroup(o, g, Decide) = <<Write("setStatus")>> \o Flush(<<Info>>)
  BY DecideNew DEF MuteGroup
<1>14. SetGroupInfo(o, g, Decide) = <<Write("setVerify")>> \o Flush(<<Info>>) \o <<Info>>
  BY DecideNew DEF SetGroupInfo
<1>15. DismissGroup(o, g, Decide) =
          <<Write("setStatus")>> \o (IF o.val = "delete" THEN <<Ids, Write("deleteAll")>> ELSE <<>>)
          \o Flush(<<Info>>) \o <<Ids>>
  BY DecideNew DEF DismissGroup
<1>16. sendMsgSuperGroupChat(o, g, Decide) = <<Write("queue")>>
  BY DecideNew DEF sendMsgSuperGroupChat
<1>17. o.kind \in LeaveKinds => o.kind \in {"kick", "quit"}
  BY DEF LeaveKinds
<1> QED BY <1>1, <1>2, <1>3, <1>4, <1>5, <1>6, <1>7, <1>8, <1>9, <1>10, <1>11, <1>12, <1>13,
           <1>14, <1>15, <1>16, <1>17

\* The checks have passed: what the call goes on with is a plan.
LEMMA DecideReady ==
    ASSUME NEW o, IsRequest(o), NEW g, \A n \in Needs(o) : n[1] = Decide => n[2] \in DOMAIN g
    PROVE  Ready(o, Follow(o, g, Decide), g)
<1>0. o.user \in User /\ o.by \in User /\ o.kind \in Kinds
  BY DEF IsRequest
<1>1. CASE o.kind \in {"join", "invite"}
  <2>1. MaxKey \in DOMAIN g
    <3>1. <<Decide, MaxKey>> \in Needs(o)
      BY <1>1 DEF Needs
    <3> QED BY <3>1
  <2> QED BY <1>1, <2>1, FollowsJoin, AdmitPlan
<1>2. CASE o.kind \in {"approve", "refuse"}
  <2>1. PICK X, Y :
          /\ X = IF o.kind = "approve" /\ g[Member(o.user)] = NoRow
                 THEN <<Write("create")>> \o Flush(<<Member(o.user), Ids>>) ELSE <<>>
          /\ Y = IF o.kind = "approve" THEN MakeConv(o.user) ELSE <<>>
    OBVIOUS
  <2>2. Follow(o, g, Decide) = <<Write("handle")>> \o X \o Y
    BY <1>2, <2>1, FollowsJoin
  <2>3. MakeConv(o.user) # <<>>
    BY DEF MakeConv
  <2>4. X # <<>> => Y # <<>>
    BY <2>1, <2>3
  <2>5. /\ X = <<Write("create")>> \o Flush(<<Member(o.user), Ids>>) \/ X = <<>>
        /\ Y = MakeConv(o.user) \/ Y = <<>>
        /\ o.kind = "refuse" => X = <<>> /\ Y = <<>>
    BY <2>1
  <2>6. Ready(o, <<Write("handle")>> \o X \o Y, g)
    BY <1>2, <2>4, <2>5, ApprovePlan
  <2> QED BY <2>2, <2>6
<1>3. CASE o.kind \in LeaveKinds
  BY <1>3, FollowsOthers, LeavePlan
<1>4. CASE o.kind = "transfer"
  <2>1. Member(o.user) \in DOMAIN g
    <3>1. <<Decide, Member(o.user)>> \in Needs(o)
      BY <1>4 DEF Needs
    <3> QED BY <3>1
  <2> QED BY <1>4, <2>1, FollowsOthers, TransferPlan
<1>5. CASE o.kind = "setRole"
  <2>1. PICK q \in Seq(CacheKeys) : q = <<Owners, Member(o.user)>>
    <3>1. Owners \in CacheKeys /\ Member(o.user) \in CacheKeys
      BY <1>0, CommandFacts
    <3>2. <<Owners, Member(o.user)>> \in Seq(CacheKeys)
      BY <3>1
    <3> QED BY <3>2
  <2>2. Len(q) = 2 /\ q[1] = Owners /\ q[2] = Member(o.user)
    BY <2>1
  <2>3. Touches(o, Write("setRole")) = {Member(o.user), Owners}
    BY Tags DEF Touches
  <2>4. \A k \in Touches(o, Write("setRole")) : \E i \in 1 .. Len(q) : q[i] = k
    BY <2>2, <2>3
  <2>5. Ready(o, <<Write("setRole")>> \o Flush(q), g)
    BY <1>5, <2>4, BlockPlan
  <2> QED BY <1>5, <2>1, <2>5, FollowsOthers
<1>6. CASE o.kind \in {"muteMember", "unmuteMember"}
  <2>1. PICK q \in Seq(CacheKeys) : q = <<Member(o.user)>>
    <3>1. Member(o.user) \in CacheKeys
      BY <1>0, CommandFacts
    <3>2. <<Member(o.user)>> \in Seq(CacheKeys)
      BY <3>1
    <3> QED BY <3>2
  <2>2. Len(q) = 1 /\ q[1] = Member(o.user)
    BY <2>1
  <2>3. Touches(o, Write("setMuted")) = {Member(o.user)}
    BY Tags DEF Touches
  <2>4. \A k \in Touches(o, Write("setMuted")) : \E i \in 1 .. Len(q) : q[i] = k
    BY <2>2, <2>3
  <2>5. Ready(o, <<Write("setMuted")>> \o Flush(q), g)
    BY <1>6, <2>4, BlockPlan
  <2> QED BY <1>6, <2>1, <2>5, FollowsOthers
<1>7. CASE o.kind \in {"muteGroup", "unmuteGroup"}
  <2>1. PICK q \in Seq(CacheKeys) : q = <<Info>>
    <3>1. Info \in CacheKeys
      BY CommandFacts
    <3>2. <<Info>> \in Seq(CacheKeys)
      BY <3>1
    <3> QED BY <3>2
  <2>2. Len(q) = 1 /\ q[1] = Info
    BY <2>1
  <2>3. Touches(o, Write("setStatus")) = {Info}
    BY Tags DEF Touches
  <2>4. \A k \in Touches(o, Write("setStatus")) : \E i \in 1 .. Len(q) : q[i] = k
    BY <2>2, <2>3
  <2>5. Ready(o, <<Write("setStatus")>> \o Flush(q), g)
    BY <1>7, <2>4, BlockPlan
  <2> QED BY <1>7, <2>1, <2>5, FollowsOthers
<1>8. CASE o.kind = "setInfo"
  BY <1>8, FollowsOthers, SetInfoPlan
<1>9. CASE o.kind = "dismiss"
  BY <1>9, FollowsOthers, DismissPlan
<1>10. CASE o.kind = "send"
  <2>1. Member(o.by) \in DOMAIN g
    <3>1. <<Decide, Member(o.by)>> \in Needs(o)
      BY <1>10 DEF Needs
    <3> QED BY <3>1
  <2> QED BY <1>10, <2>1, FollowsOthers, SendPlan
<1> QED BY <1>0, <1>1, <1>2, <1>3, <1>4, <1>5, <1>6, <1>7, <1>8, <1>9, <1>10 DEF Kinds, LeaveKinds

-----------------------------------------------------------------------------
(* The reads before the checks.                                             *)

\* Commands that write nothing and delete no entry.
ReadsOnly(t) == t \in Seq(Commands) /\ \A i \in DOMAIN t : t[i] \in Reads \cup {Decide}

LEMMA ReadsOnlyMarks ==
    ASSUME NEW t, ReadsOnly(t)
    PROVE  \A x : Has(t, x) => ~IsWrite(x) /\ ~IsFlush(x)
BY ReadTags DEF ReadsOnly, Has

LEMMA ReadsPlan ==
    ASSUME NEW o, NEW t, ReadsOnly(t), DecideLast(t)
    PROVE  Plan(o, t)
<1>1. \A w : ~Has(t, Write(w))
  BY ReadsOnlyMarks, Tags DEF IsWrite
<1>2. \A i \in DOMAIN t : ~IsWrite(t[i]) /\ ~IsFlush(t[i])
  BY ReadTags DEF ReadsOnly
<1>3. Kept(o, t)
  <2>1. \A i \in DOMAIN t : Touches(o, t[i]) = {}
    BY <1>1, QuietCommands DEF Has
  <2> QED BY <2>1 DEF Kept
<1>4. LateReads(o, t)
  BY <1>2 DEF LateReads
<1>5. Ordered(t) /\ Complete(o, t)
  BY <1>1, NotMarked DEF Complete
<1>6. OfKind(o, t)
  BY <1>1, <1>2 DEF OfKind
<1> QED BY <1>3, <1>4, <1>5, <1>6 DEF Plan, ReadsOnly

\* What a call reads first.
LEMMA ReadsReady ==
    ASSUME NEW o, NEW t, ReadsOnly(t), DecideLast(t), NEW g,
           o.kind \in {"join", "invite"} => Has(t, MaxKey),
           o.kind \in {"approve", "transfer"} => Has(t, Member(o.user)),
           o.kind # "send"
    PROVE  Ready(o, t, g)
<1>1. Plan(o, t)
  BY ReadsPlan
<1>2. ASSUME NEW n \in Needs(o) PROVE ReadBefore(t, g, n[1], n[2])
  <2> SUFFICES ASSUME NEW j \in DOMAIN t, t[j] = n[1] PROVE \E i \in 1 .. j - 1 : t[i] = n[2]
    BY DEF ReadBefore
  <2>1. ~IsWrite(n[1])
    BY ReadTags DEF ReadsOnly
  <2>2. /\ n[1] = Decide
        /\ \/ o.kind \in {"join", "invite"} /\ n[2] = MaxKey
           \/ o.kind \in {"approve", "transfer"} /\ n[2] = Member(o.user)
    <3>1. \A w : n[1] # Write(w)
      BY <2>1, Tags DEF IsWrite
    <3> QED BY <3>1 DEF Needs
  <2>3. Has(t, n[2]) /\ n[2] # Decide
    BY <2>2, DecideNew, Tags
  <2>4. PICK i \in DOMAIN t : t[i] = n[2]
    BY <2>3 DEF Has
  <2>5. j = Len(t) /\ DOMAIN t = 1 .. Len(t) /\ Len(t) \in Nat
    BY <2>2 DEF DecideLast, ReadsOnly
  <2>6. i # j
    BY <2>2, <2>3, <2>4
  <2>7. i \in 1 .. j - 1
    BY <2>5, <2>6
  <2> QED BY <2>4, <2>7
<1> QED BY <1>1, <1>2 DEF Ready, NeedsMet

LEMMA SendReads ==
    ASSUME NEW o, IsRequest(o), o.kind = "send", NEW g
    PROVE  Ready(o, <<Info, Member(o.by), Decide>>, g)
<1>1. PICK m \in CacheKeys : m = Member(o.by)
  BY CommandFacts DEF IsRequest
<1>2. PICK t : t = <<Info, m, Decide>>
  OBVIOUS
<1>3. t \in Seq(Commands)
  <2>1. Info \in Commands /\ m \in Commands /\ Decide \in Commands
    BY CommandFacts
  <2> QED BY <1>2, <2>1
<1>4. DOMAIN t = 1 .. 3 /\ Len(t) = 3 /\ t[1] = Info /\ t[2] = m /\ t[3] = Decide
  BY <1>2
<1>5. Info # m /\ Decide # m /\ Decide # Info
  BY <1>1, Tags
<1>6. ReadsOnly(t)
  BY <1>3, <1>4, CommandFacts DEF ReadsOnly
<1>7. DecideLast(t)
  BY <1>4, <1>5 DEF DecideLast
<1>8. Plan(o, t)
  BY <1>6, <1>7, ReadsPlan
<1>9. ASSUME NEW n \in Needs(o) PROVE ReadBefore(t, g, n[1], n[2])
  <2> SUFFICES ASSUME NEW j \in DOMAIN t, t[j] = n[1] PROVE \E i \in 1 .. j - 1 : t[i] = n[2]
    BY DEF ReadBefore
  <2>1. ~IsWrite(n[1])
    BY <1>6, ReadTags DEF ReadsOnly
  <2>2. \A w : n[1] # Write(w)
    BY <2>1, Tags DEF IsWrite
  <2>3. n = <<m, Info>> \/ n = <<Decide, m>>
    BY <1>1, <2>2 DEF Needs
  <2>4. CASE n = <<m, Info>>
    <3>1. j = 2
      BY <1>4, <1>5, <2>4
    <3> QED BY <1>4, <2>4, <3>1
  <2>5. CASE n = <<Decide, m>>
    <3>1. j = 3
      BY <1>4, <1>5, <2>5
    <3> QED BY <1>4, <2>5, <3>1
  <2> QED BY <2>3, <2>4, <2>5
<1> QED BY <1>1, <1>2, <1>8, <1>9 DEF Ready, NeedsMet

\* A tuple of reads that ends with Decide.
LEMMA ReadsTuple ==
    /\ \A a \in Reads : ReadsOnly(<<a, Decide>>) /\ DecideLast(<<a, Decide>>)
    /\ \A a, b \in Reads : ReadsOnly(<<a, b, Decide>>) /\ DecideLast(<<a, b, Decide>>)
    /\ \A a, b, c \in Reads : ReadsOnly(<<a, b, c, Decide>>) /\ DecideLast(<<a, b, c, Decide>>)
    /\ \A a, b, c, d \in Reads : ReadsOnly(<<a, b, c, d, Decide>>) /\ DecideLast(<<a, b, c, d, Decide>>)
    /\ \A a, b, c, d, e \in Reads :
           ReadsOnly(<<a, b, c, d, e, Decide>>) /\ DecideLast(<<a, b, c, d, e, Decide>>)
<1>1. Decide \in Commands /\ Decide \notin Reads /\ Reads \subseteq Commands
  BY CommandFacts, Tags DEF Reads, CacheKeys, StoredKeys
<1>2. ASSUME NEW a \in Reads PROVE ReadsOnly(<<a, Decide>>) /\ DecideLast(<<a, Decide>>)
  <2>1. <<a, Decide>> \in Seq(Commands)
    BY <1>1
  <2> QED BY <1>1, <2>1 DEF ReadsOnly, DecideLast
<1>3. ASSUME NEW a \in Reads, NEW b \in Reads PROVE ReadsOnly(<<a, b, Decide>>) /\ DecideLast(<<a, b, Decide>>)
  <2>1. <<a, b, Decide>> \in Seq(Commands)
    BY <1>1
  <2> QED BY <1>1, <2>1 DEF ReadsOnly, DecideLast
<1>4. ASSUME NEW a \in Reads, NEW b \in Reads, NEW c \in Reads
      PROVE  ReadsOnly(<<a, b, c, Decide>>) /\ DecideLast(<<a, b, c, Decide>>)
  <2>1. <<a, b, c, Decide>> \in Seq(Commands)
    BY <1>1
  <2> QED BY <1>1, <2>1 DEF ReadsOnly, DecideLast
<1>5. ASSUME NEW a \in Reads, NEW b \in Reads, NEW c \in Reads, NEW d \in Reads
      PROVE  ReadsOnly(<<a, b, c, d, Decide>>) /\ DecideLast(<<a, b, c, d, Decide>>)
  <2>1. <<a, b, c, d, Decide>> \in Seq(Commands)
    BY <1>1
  <2> QED BY <1>1, <2>1 DEF ReadsOnly, DecideLast
<1>6. ASSUME NEW a \in Reads, NEW b \in Reads, NEW c \in Reads, NEW d \in Reads, NEW e \in Reads
      PROVE  ReadsOnly(<<a, b, c, d, e, Decide>>) /\ DecideLast(<<a, b, c, d, e, Decide>>)
  <2>1. <<a, b, c, d, e, Decide>> \in Seq(Commands)
    BY <1>1
  <2> QED BY <1>1, <2>1 DEF ReadsOnly, DecideLast
<1> QED BY <1>2, <1>3, <1>4, <1>5, <1>6

LEMMA BeginNew ==
    /\ Begin # Decide /\ Begin # Info /\ Begin # Owners /\ Begin # Ids
    /\ \A u : Begin # Member(u) /\ Begin # Request(u)
    /\ Begin[1] # "member"
BY Tags

\* A call starts with a plan of reads.
LEMMA BeginReady ==
    ASSUME NEW o, IsRequest(o), NEW g
    PROVE  Ready(o, Follow(o, g, Begin), g) /\ ReadsOnly(Follow(o, g, Begin)) /\ Follow(o, g, Begin) # <<>>
<1>1. PICK t : t = Follow(o, g, Begin)
  OBVIOUS
<1>2. o.user \in User /\ o.by \in User /\ o.kind \in Kinds
  BY DEF IsRequest
<1>3. /\ Member(o.user) \in Reads /\ Member(o.by) \in Reads /\ Request(o.user) \in Reads
      /\ Info \in Reads /\ Ids \in Reads /\ Owners \in Reads /\ MaxKey \in Reads
  BY <1>2 DEF Reads, CacheKeys, StoredKeys
<1>4. CASE o.kind = "join"
  <2>1. t = <<Info, Member(o.user), MaxKey, Decide>>
    <3>1. JoinGroup(o, g, Begin) = <<Info, Member(o.user), MaxKey, Decide>>
      BY BeginNew DEF JoinGroup
    <3> QED BY <1>1, <1>4, <3>1 DEF Follow
  <2>2. Has(t, MaxKey) /\ t # <<>>
    <3>1. 3 \in DOMAIN t /\ t[3] = MaxKey
      BY <2>1
    <3> QED BY <2>1, <3>1 DEF Has
  <2> QED BY <1>1, <1>3, <1>4, <2>1, <2>2, ReadsTuple, ReadsReady
<1>5. CASE o.kind = "invite"
  <2>1. t = <<Info, Member(o.by), MaxKey, Decide>>
    <3>1. InviteUserToGroup(o, g, Begin) = <<Info, Member(o.by), MaxKey, Decide>>
      BY BeginNew DEF InviteUserToGroup
    <3> QED BY <1>1, <1>5, <3>1 DEF Follow
  <2>2. Has(t, MaxKey) /\ t # <<>>
    <3>1. 3 \in DOMAIN t /\ t[3] = MaxKey
      BY <2>1
    <3> QED BY <2>1, <3>1 DEF Has
  <2> QED BY <1>1, <1>3, <1>5, <2>1, <2>2, ReadsTuple, ReadsReady
<1>6. CASE o.kind \in {"approve", "refuse"}
  <2>1. t = <<Member(o.by), Info, Request(o.user), Member(o.user), Decide>>
    <3>1. GroupApplicationResponse(o, g, Begin) = <<Member(o.by), Info, Request(o.user), Member(o.user), Decide>>
      BY BeginNew DEF GroupApplicationResponse
    <3> QED BY <1>1, <1>6, <3>1 DEF Follow
  <2>2. Has(t, Member(o.user)) /\ t # <<>>
    <3>1. 4 \in DOMAIN t /\ t[4] = Member(o.user)
      BY <2>1
    <3> QED BY <2>1, <3>1 DEF Has
  <2> QED BY <1>1, <1>3, <1>6, <2>1, <2>2, ReadsTuple, ReadsReady
<1>7. CASE o.kind = "kick"
  <2>1. t = <<Info, Member(o.user), Member(o.by), Ids, Owners, Decide>>
    <3>1. KickGroupMember(o, g, Begin) = <<Info, Member(o.user), Member(o.by), Ids, Owners, Decide>>
      BY BeginNew DEF KickGroupMember
    <3> QED BY <1>1, <1>7, <3>1 DEF Follow
  <2> QED BY <1>1, <1>3, <1>7, <2>1, ReadsTuple, ReadsReady
<1>8. CASE o.kind = "quit"
  <2>1. t = <<Member(o.user), Decide>>
    <3>1. QuitGroup(o, g, Begin) = <<Member(o.user), Decide>>
      BY BeginNew DEF QuitGroup
    <3> QED BY <1>1, <1>8, <3>1 DEF Follow
  <2> QED BY <1>1, <1>3, <1>8, <2>1, ReadsTuple, ReadsReady
<1>9. CASE o.kind = "transfer"
  <2>1. t = <<Info, Member(o.by), Member(o.user), Decide>>
    <3>1. TransferGroupOwner(o, g, Begin) = <<Info, Member(o.by), Member(o.user), Decide>>
      BY BeginNew DEF TransferGroupOwner
    <3> QED BY <1>1, <1>9, <3>1 DEF Follow
  <2>2. Has(t, Member(o.user)) /\ t # <<>>
    <3>1. 3 \in DOMAIN t /\ t[3] = Member(o.user)
      BY <2>1
    <3> QED BY <2>1, <3>1 DEF Has
  <2> QED BY <1>1, <1>3, <1>9, <2>1, <2>2, ReadsTuple, ReadsReady
<1>10. CASE o.kind \in {"setRole", "muteMember", "unmuteMember"}
  <2>1. t = Append(BothRows(o), Decide)
    <3>1. SetGroupMemberInfo(o, g, Begin) = Append(BothRows(o), Decide)
      BY BeginNew DEF SetGroupMemberInfo
    <3>2. MuteGroupMember(o, g, Begin) = Append(BothRows(o), Decide)
      BY BeginNew DEF MuteGroupMember
    <3>3. Follow(o, g, Begin) = SetGroupMemberInfo(o, g, Begin) \/ Follow(o, g, Begin) = MuteGroupMember(o, g, Begin)
      BY <1>10 DEF Follow
    <3> QED BY <1>1, <3>1, <3>2, <3>3
  <2>2. PICK s \in Seq(Reads) : t = Append(s, Decide)
    <3>1. <<Member(o.user)>> \in Seq(Reads) /\ <<Member(o.by)>> \in Seq(Reads) /\ <<>> \in Seq(Reads)
      BY <1>3
    <3>2. BothRows(o) \in Seq(Reads)
      BY <3>1 DEF BothRows
    <3> QED BY <2>1, <3>2
  <2>3. ReadsOnly(t) /\ DecideLast(t) /\ t # <<>>
    <3>1. /\ Len(t) = Len(s) + 1 /\ DOMAIN t = 1 .. Len(s) + 1 /\ Len(s) \in Nat
          /\ \A i \in 1 .. Len(s) : t[i] = s[i] /\ s[i] \in Reads
          /\ t[Len(s) + 1] = Decide
      BY <2>2
    <3>2. t \in Seq(Commands)
      <4>1. s \in Seq(Commands) /\ Decide \in Commands
        BY CommandFacts
      <4> QED BY <2>2, <4>1
    <3>3. Decide \notin Reads
      BY Tags DEF Reads, CacheKeys, StoredKeys
    <3> QED BY <3>1, <3>2, <3>3 DEF ReadsOnly, DecideLast
  <2> QED BY <1>1, <1>10, <2>3, ReadsReady
<1>11. CASE o.kind \in {"muteGroup", "unmuteGroup"}
  <2>1. t = <<Member(o.by), Decide>>
    <3>1. MuteGroup(o, g, Begin) = <<Member(o.by), Decide>>
      BY BeginNew DEF MuteGroup
    <3> QED BY <1>1, <1>11, <3>1 DEF Follow
  <2> QED BY <1>1, <1>3, <1>11, <2>1, ReadsTuple, ReadsReady
<1>12. CASE o.kind = "setInfo"
  <2>1. t = <<Member(o.by), Info, Ids, Owners, Decide>>
    <3>1. SetGroupInfo(o, g, Begin) = <<Member(o.by), Info, Ids, Owners, Decide>>
      BY BeginNew DEF SetGroupInfo
    <3> QED BY <1>1, <1>12, <3>1 DEF Follow
  <2> QED BY <1>1, <1>3, <1>12, <2>1, ReadsTuple, ReadsReady
<1>13. CASE o.kind = "dismiss"
  <2>1. t = <<Owners, Info, Decide>>
    <3>1. DismissGroup(o, g, Begin) = <<Owners, Info, Decide>>
      BY BeginNew DEF DismissGroup
    <3> QED BY <1>1, <1>13, <3>1 DEF Follow
  <2> QED BY <1>1, <1>3, <1>13, <2>1, ReadsTuple, ReadsReady
<1>14. CASE o.kind = "send"
  <2>1. t = <<Info, Member(o.by), Decide>>
    <3>1. sendMsgSuperGroupChat(o, g, Begin) = <<Info, Member(o.by), Decide>>
      BY BeginNew DEF sendMsgSuperGroupChat
    <3> QED BY <1>1, <1>14, <3>1 DEF Follow
  <2> QED BY <1>1, <1>3, <1>14, <2>1, ReadsTuple, SendReads
<1> QED BY <1>2, <1>4, <1>5, <1>6, <1>7, <1>8, <1>9, <1>10, <1>11, <1>12, <1>13, <1>14 DEF Kinds

-----------------------------------------------------------------------------
(* Steps of a call.                                                         *)

\* What a call reads once it has begun to write does not end it.
LEMMA LateGoesOn ==
    ASSUME NEW o, IsRequest(o), NEW g, NEW k \in Late(o)
    PROVE  Follow(o, g, k) # Error /\ \A v : OwnerRows(o, k, v) = {<<>>}
<1>1. <<>> # Error
  BY DEF Error
<1>2. o.kind \in Kinds /\ k[1] \in {"conv", "hasRead", "max", "ids"} /\ (o.kind # "dismiss" => k # Ids)
  BY Tags DEF IsRequest, Late
<1>3. /\ k # Begin /\ k # Decide /\ k # Info /\ k # Owners /\ k[1] # "member"
      /\ \A u : k # Member(u) /\ k # Request(u)
  BY <1>2, Tags
<1>4. o.kind \in {"join", "invite", "approve", "kick", "quit", "dismiss"}
  BY <1>2 DEF Late, JoinKinds, LeaveKinds
<1>5. JoinGroup(o, g, k) = <<>>
  BY <1>3 DEF JoinGroup
<1>6. InviteUserToGroup(o, g, k) = <<>>
  BY <1>3 DEF InviteUserToGroup
<1>7. GroupApplicationResponse(o, g, k) = <<>>
  BY <1>3 DEF GroupApplicationResponse
<1>8. KickGroupMember(o, g, k) = <<>>
  BY <1>3 DEF KickGroupMember
<1>9. QuitGroup(o, g, k) = <<>>
  BY <1>3 DEF QuitGroup
<1>10. DismissGroup(o, g, k) = <<>>
  BY <1>3 DEF DismissGroup
<1>11. Follow(o, g, k) = <<>>
  BY <1>4, <1>5, <1>6, <1>7, <1>8, <1>9, <1>10 DEF Follow
<1> QED BY <1>1, <1>3, <1>11 DEF OwnerRows

\* A transfer to one who is no member, and a message of one who may not send, end the call.
LEMMA EndsCall ==
    ASSUME NEW o, IsRequest(o), NEW g
    PROVE  /\ o.kind = "transfer" /\ g[Member(o.user)] = NoRow => Follow(o, g, Member(o.user)) = Error
           /\ o.kind = "send" /\ ~MaySend(g[Info], g[Member(o.by)]) => Follow(o, g, Member(o.by)) = Error
<1>1. \A u : Member(u) # Begin /\ Member(u) # Info /\ Member(u) # Decide
  BY Tags
<1>2. g[Member(o.user)] = NoRow => TransferGroupOwner(o, g, Member(o.user)) = Error
  BY <1>1 DEF TransferGroupOwner, Unless
<1>3. ~MaySend(g[Info], g[Member(o.by)]) => sendMsgSuperGroupChat(o, g, Member(o.by)) = Error
  BY <1>1 DEF sendMsgSuperGroupChat, Unless
<1> QED BY <1>2, <1>3 DEF Follow

\* The rows of the owners, read one by one.
LEMMA OwnerReads ==
    ASSUME NEW o, NEW k, NEW v, k = Owners => v \in SUBSET User, NEW q \in OwnerRows(o, k, v)
    PROVE  /\ q = <<>> \/ (k = Owners /\ o.kind \in {"setInfo", "dismiss"})
           /\ q \in Seq(Commands) /\ \A i \in DOMAIN q : \E u \in User : q[i] = Member(u)
<1>1. CASE ~(k = Owners /\ o.kind \in {"setInfo", "dismiss"})
  <2>1. q = <<>>
    BY <1>1 DEF OwnerRows
  <2> QED BY <2>1
<1>2. CASE k = Owners /\ o.kind \in {"setInfo", "dismiss"}
  <2>1. PICK p \in SetToSeqs(v) : q = [i \in DOMAIN p |-> Member(p[i])]
    BY <1>2 DEF OwnerRows
  <2>2. Cardinality(v) \in Nat
    <3>1. IsFiniteSet(v)
      BY <1>2, ConstantsAssumption, FS_Subset
    <3> QED BY <3>1, FS_CardinalityType
  <2>3. PICK n \in Nat : n = Cardinality(v)
    BY <2>2
  <2>4. p \in [1 .. n -> v]
    BY <2>1, <2>3 DEF SetToSeqs
  <2>5. q = [i \in 1 .. n |-> Member(p[i])]
    BY <2>1, <2>4
  <2>6. \A i \in 1 .. n : p[i] \in User /\ q[i] = Member(p[i])
    BY <1>2, <2>4, <2>5
  <2>7. \A i \in 1 .. n : q[i] \in Commands
    BY <2>6, CommandFacts
  <2>8. q \in [1 .. n -> Commands]
    BY <2>5, <2>7
  <2>9. q \in Seq(Commands)
    BY <2>8
  <2> QED BY <1>2, <2>5, <2>6, <2>9
<1> QED BY <1>1, <1>2

LEMMA PrefixReady ==
    ASSUME NEW o, o.kind # "send", NEW g, NEW t, ReadsOnly(t), Ready(o, t, g),
           NEW q \in Seq(Commands), \A i \in DOMAIN q : \E u \in User : q[i] = Member(u)
    PROVE  ReadsOnly(q \o t) /\ Ready(o, q \o t, g)
<1>1. t \in Seq(Commands) /\ DecideLast(t) /\ NeedsMet(o, t, g) /\ \A i \in DOMAIN t : t[i] \in Reads \cup {Decide}
  BY DEF ReadsOnly, Ready, Plan
<1>2. PICK m \in Nat, n \in Nat : m = Len(q) /\ n = Len(t)
  BY <1>1
<1>3. PICK r : r = q \o t
  OBVIOUS
<1>4. /\ r \in Seq(Commands) /\ Len(r) = m + n /\ DOMAIN r = 1 .. m + n
      /\ DOMAIN q = 1 .. m /\ DOMAIN t = 1 .. n
      /\ \A i \in 1 .. m : r[i] = q[i]
      /\ \A i \in 1 .. n : r[m + i] = t[i]
  BY <1>1, <1>2, <1>3, ConcatFacts
<1>5. \A i \in 1 .. m : \E u \in User : r[i] = Member(u)
  BY <1>4
<1>6. ASSUME NEW i \in DOMAIN r, i \notin 1 .. m PROVE i - m \in DOMAIN t /\ r[i] = t[i - m]
  <2>1. i - m \in 1 .. n /\ i = m + (i - m)
    BY <1>4, <1>6
  <2> QED BY <1>4, <2>1
<1>7. ReadsOnly(r)
  <2>1. \A u \in User : Member(u) \in Reads
    BY CommandFacts
  <2>2. \A i \in DOMAIN r : r[i] \in Reads \cup {Decide}
    BY <1>1, <1>5, <1>6, <2>1
  <2> QED BY <1>4, <2>2 DEF ReadsOnly
<1>8. DecideLast(r)
  <2> SUFFICES ASSUME NEW i \in DOMAIN r, r[i] = Decide PROVE i = m + n
    BY <1>4 DEF DecideLast
  <2>1. i \notin 1 .. m
    BY <1>5, DecideNew
  <2>2. i - m \in DOMAIN t /\ t[i - m] = Decide
    BY <1>6, <2>1
  <2>3. i - m = n
    BY <1>1, <1>2, <2>2 DEF DecideLast
  <2> QED BY <1>4, <2>3
<1>9. ASSUME NEW a \in Needs(o), NEW j \in DOMAIN r, r[j] = a[1], a[2] \notin DOMAIN g
      PROVE  \E i \in 1 .. j - 1 : r[i] = a[2]
  <2>1. \A u : a[1] # Member(u)
    <3>1. a[1] = Decide \/ \E w : a[1] = Write(w)
      BY DEF Needs
    <3> QED BY <3>1, Tags
  <2>2. j \notin 1 .. m
    BY <1>5, <1>9, <2>1
  <2>3. j - m \in DOMAIN t /\ t[j - m] = a[1]
    BY <1>6, <1>9, <2>2
  <2>4. PICK i \in 1 .. (j - m) - 1 : t[i] = a[2]
    BY <1>1, <1>9, <2>3 DEF NeedsMet, ReadBefore
  <2>5. m + i \in 1 .. j - 1 /\ i \in 1 .. n
    BY <1>4, <2>3, <2>4
  <2>6. r[m + i] = a[2]
    BY <1>4, <2>4, <2>5
  <2> QED BY <2>5, <2>6
<1>10. NeedsMet(o, r, g)
  BY <1>9 DEF NeedsMet, ReadBefore
<1> QED BY <1>3, <1>7, <1>8, <1>10, ReadsPlan DEF Ready

LEMMA EmptyReady ==
    ASSUME NEW o, NEW g
    PROVE  ReadsOnly(<<>>) /\ Ready(o, <<>>, g)
<1>1. ReadsOnly(<<>>) /\ DecideLast(<<>>) /\ NeedsMet(o, <<>>, g)
  BY DEF ReadsOnly, DecideLast, NeedsMet, ReadBefore
<1> QED BY <1>1, ReadsPlan DEF Ready

\* A call that reads what may end it has not begun to write.
LEMMA EarlyReads ==
    ASSUME NEW o, NEW t, Plan(o, t), t # <<>>, Head(t) \in Reads, Head(t) \notin Late(o)
    PROVE  ReadsOnly(t) /\ ReadsOnly(Tail(t))
<1>0. t \in Seq(Commands) /\ LateReads(o, t)
  BY DEF Plan
<1>1. PICK n \in Nat \ {0} : n = Len(t)
  BY <1>0
<1>2. PICK r : r = Tail(t)
  OBVIOUS
<1>3. /\ DOMAIN t = 1 .. n /\ Head(t) = t[1]
      /\ DOMAIN r = 1 .. n - 1 /\ r \in Seq(Commands)
      /\ \A i \in 1 .. n - 1 : r[i] = t[i + 1]
  BY <1>0, <1>1, <1>2, TailFacts
<1>4. ASSUME NEW i \in DOMAIN t PROVE t[i] \in Reads \cup {Decide}
  <2>1. CASE i = 1
    BY <1>3, <2>1
  <2>2. CASE i # 1
    <3>1. 1 \in DOMAIN t /\ 1 < i
      BY <1>3, <2>2
    <3>2. ~IsWrite(t[1]) /\ ~IsFlush(t[1])
      BY <1>3, ReadTags
    <3>3. ~IsWrite(t[i]) /\ ~IsFlush(t[i])
      BY <1>0, <1>3, <3>1, <3>2 DEF LateReads
    <3>4. t[i] \in Commands
      BY <1>0, <1>3
    <3> QED BY <3>3, <3>4, CommandKinds, Tags DEF IsWrite, IsFlush
  <2> QED BY <2>1, <2>2
<1>5. ASSUME NEW i \in DOMAIN r PROVE r[i] \in Reads \cup {Decide}
  <2>1. i + 1 \in DOMAIN t /\ r[i] = t[i + 1]
    BY <1>3
  <2> QED BY <1>4, <2>1
<1> QED BY <1>0, <1>2, <1>3, <1>4, <1>5 DEF ReadsOnly

\* The value of a key reaches the call: it ends or goes on with a plan.
LEMMA DeliverStep ==
    ASSUME NEW c \in Call, CallOK(c), todo[c] # <<>>, Head(todo[c]) \in Reads,
           NEW v, Head(todo[c]) \in Typed => v \in ValueOf(Head(todo[c])), Deliver(c, v)
    PROVE  \E rest, g :
              /\ Go(c, rest, g) /\ g = Put(got[c], Head(todo[c]), v) /\ IsRequest(op[c])
              /\ Ready(op[c], rest, g) /\ (rest # <<>> => GotOK(op[c], g))
              /\ rest = Tail(todo[c]) \/ (ReadsOnly(todo[c]) /\ ReadsOnly(rest))
              /\ rest = <<>> \/ Follow(op[c], g, Head(todo[c])) # Error
<1>1. PICK o, t, k, g : o = op[c] /\ t = todo[c] /\ k = Head(t) /\ g = Put(got[c], k, v)
  OBVIOUS
<1>2. IsRequest(o) /\ Plan(o, t) /\ NeedsMet(o, t, got[c]) /\ GotOK(o, got[c]) /\ t \in Seq(Commands)
  BY <1>1 DEF CallOK, Plan
<1>3. k \in Reads /\ (k \in Typed => v \in ValueOf(k))
  BY <1>1
<1>4. DOMAIN g = DOMAIN got[c] \cup {k} /\ g[k] = v /\ \A x \in DOMAIN got[c] : x # k => g[x] = got[c][x]
  BY <1>1 DEF Put
<1>5. Ready(o, Tail(t), g)
  BY <1>1, <1>2, <1>4, PlanTail, NeedsTail DEF Ready
<1>6. CASE Follow(o, g, k) = Error
  <2>1. Go(c, <<>>, g)
    BY <1>1, <1>6 DEF Deliver
  <2>2. k \notin Late(o)
    BY <1>2, <1>6, LateGoesOn
  <2>3. ReadsOnly(t)
    BY <1>1, <1>2, <1>3, <2>2, EarlyReads
  <2> QED BY <1>1, <1>2, <2>1, <2>3, EmptyReady
<1>7. CASE Follow(o, g, k) # Error
  <2>1. PICK q \in OwnerRows(o, k, v) : Go(c, q \o Tail(t), g)
    BY <1>1, <1>7 DEF Deliver
  <2>2. PICK r : r = q \o Tail(t)
    OBVIOUS
  <2>3. k = Owners => v \in SUBSET User
    BY <1>3 DEF Typed, ValueOf
  <2>4. /\ q = <<>> \/ (k = Owners /\ o.kind \in {"setInfo", "dismiss"})
        /\ q \in Seq(Commands) /\ \A i \in DOMAIN q : \E u \in User : q[i] = Member(u)
    BY <2>3, OwnerReads
  <2>5. GotOK(o, g)
    <3>1. \A x \in DOMAIN g \cap Typed : g[x] \in ValueOf(x)
      BY <1>2, <1>3, <1>4 DEF GotOK
    <3>2. ASSUME o.kind = "transfer", Member(o.user) \in DOMAIN g PROVE g[Member(o.user)] # NoRow
      <4>1. CASE k = Member(o.user)
        BY <1>2, <1>7, <3>2, <4>1, EndsCall
      <4>2. CASE k # Member(o.user)
        BY <1>2, <1>4, <3>2, <4>2 DEF GotOK
      <4> QED BY <4>1, <4>2
    <3> QED BY <3>1, <3>2 DEF GotOK
  <2>6. CASE q = <<>>
    <3>1. Tail(t) \in Seq(Commands)
      BY <1>1, <1>2
    <3>2. r = Tail(t)
      BY <2>2, <2>6, <3>1
    <3> QED BY <1>1, <1>2, <1>5, <1>7, <2>1, <2>2, <2>5, <3>2
  <2>7. CASE k = Owners /\ o.kind \in {"setInfo", "dismiss"}
    <3>1. k \notin Late(o)
      BY <2>7, Tags DEF Late, JoinKinds, LeaveKinds
    <3>2. ReadsOnly(t) /\ ReadsOnly(Tail(t))
      BY <1>1, <1>2, <1>3, <3>1, EarlyReads
    <3>3. ReadsOnly(r) /\ Ready(o, r, g)
      BY <1>5, <2>2, <2>4, <2>7, <3>2, PrefixReady
    <3> QED BY <1>1, <1>2, <1>7, <2>1, <2>2, <2>5, <3>2, <3>3
  <2> QED BY <2>4, <2>6, <2>7
<1> QED BY <1>6, <1>7

\* A call goes on with rest, having read g, or returns; the other calls are as they were.
LEMMA GoStep ==
    ASSUME RowsOK, NEW c \in Call, IsRequest(op[c]), NEW rest, NEW g, Go(c, rest, g),
           Ready(op[c], rest, g), rest # <<>> => GotOK(op[c], g)
    PROVE  /\ CallOK(c)' /\ val'[c] = NoFetch /\ ask' = ask
           /\ \A k : Owes(op[c], rest, k) => Owes(op'[c], todo'[c], k)
           /\ \A d \in Call : d # c => /\ op'[d] = op[d] /\ todo'[d] = todo[d] /\ got'[d] = got[d]
                                       /\ val'[d] = val[d] /\ began'[d] = began[d]
           /\ DOMAIN op' = Call /\ DOMAIN todo' = Call /\ DOMAIN got' = Call /\ DOMAIN val' = Call
           /\ \/ todo'[c] # <<>> /\ op'[c] = op[c] /\ got'[c] = g /\ barred' = barred
                 /\ (c \in DOMAIN began => began'[c] = began[c])
              \/ todo'[c] = <<>> /\ op'[c] = NoRequest /\ got'[c] = Nothing /\ barred' = barred \ {c}
                 /\ (c \in DOMAIN began => began'[c] = 0)
           /\ DOMAIN began' = DOMAIN began
           /\ \/ todo'[c] = rest
              \/ rest = <<Decide>> /\ todo'[c] = Follow(op[c], g, Decide)
<1>1. PICK o : o = op[c]
  OBVIOUS
<1>2. PICK nx : nx = IF rest # <<>> /\ Head(rest) = Decide THEN Follow(o, g, Decide) ELSE rest
  OBVIOUS
<1>3. /\ todo' = [todo EXCEPT ![c] = nx]
      /\ got' = [got EXCEPT ![c] = IF nx = <<>> THEN Nothing ELSE g]
      /\ op' = [op EXCEPT ![c] = IF nx = <<>> THEN NoRequest ELSE @]
      /\ began' = [began EXCEPT ![c] = IF nx = <<>> THEN 0 ELSE @]
      /\ val' = [val EXCEPT ![c] = NoFetch]
      /\ barred' = IF nx = <<>> THEN barred \ {c} ELSE barred
      /\ ask' = ask
  BY <1>1, <1>2 DEF Go
<1>4. DOMAIN op = Call /\ DOMAIN todo = Call /\ DOMAIN got = Call /\ DOMAIN val = Call
  BY DEF RowsOK
<1>5. /\ todo'[c] = nx /\ got'[c] = (IF nx = <<>> THEN Nothing ELSE g)
      /\ op'[c] = (IF nx = <<>> THEN NoRequest ELSE o) /\ val'[c] = NoFetch
      /\ (c \in DOMAIN began => began'[c] = IF nx = <<>> THEN 0 ELSE began[c])
  BY <1>1, <1>3, <1>4
<1>6. /\ \A d \in Call : d # c => /\ op'[d] = op[d] /\ todo'[d] = todo[d] /\ got'[d] = got[d]
                                  /\ val'[d] = val[d]
      /\ DOMAIN op' = Call /\ DOMAIN todo' = Call /\ DOMAIN got' = Call /\ DOMAIN val' = Call
  BY <1>3, <1>4
<1>7. DOMAIN began' = DOMAIN began /\ \A d \in Call : d # c => began'[d] = began[d]
  BY <1>3
<1>8. rest \in Seq(Commands) /\ DecideLast(rest)
  BY DEF Ready, Plan
<1>9. CASE rest # <<>> /\ Head(rest) = Decide
  <2>1. PICK n \in Nat \ {0} : n = Len(rest)
    BY <1>8, <1>9
  <2>2. DOMAIN rest = 1 .. n /\ rest[1] = Decide
    BY <1>8, <1>9, <2>1, TailFacts
  <2>3. n = 1
    BY <1>8, <2>1, <2>2 DEF DecideLast
  <2>4. rest = <<Decide>>
    BY <1>8, <2>1, <2>2, <2>3
  <2>5. \A a \in Needs(o) : a[1] = Decide => a[2] \in DOMAIN g
    <3> SUFFICES ASSUME NEW a \in Needs(o), a[1] = Decide PROVE a[2] \in DOMAIN g
      OBVIOUS
    <3>1. ReadBefore(rest, g, Decide, a[2])
      BY <1>1 DEF Ready, NeedsMet
    <3>2. 1 \in DOMAIN rest /\ ~\E i \in 1 .. 1 - 1 : rest[i] = a[2]
      BY <2>2
    <3> QED BY <2>2, <3>1, <3>2 DEF ReadBefore
  <2>6. Ready(o, nx, g)
    BY <1>1, <1>2, <1>9, <2>5, DecideReady
  <2>7. \A k : ~Owes(o, rest, k)
    <3>1. \A k : Decide # FlushOf(k)
      BY Tags
    <3> QED BY <2>2, <2>3, <3>1 DEF Owes
  <2>8. CallOK(c)'
    BY <1>1, <1>5, <1>9, <2>6 DEF CallOK, Ready
  <2> QED BY <1>1, <1>2, <1>3, <1>5, <1>6, <1>7, <1>9, <2>4, <2>7, <2>8
<1>10. CASE ~(rest # <<>> /\ Head(rest) = Decide)
  <2>1. nx = rest
    BY <1>2, <1>10
  <2>2. CallOK(c)'
    BY <1>1, <1>5, <2>1 DEF CallOK, Ready
  <2>3. ASSUME NEW k, Owes(o, rest, k) PROVE Owes(op'[c], todo'[c], k)
    <3>1. CASE rest = <<>>
      BY <2>3, <3>1 DEF Owes
    <3>2. CASE rest # <<>>
      BY <1>5, <2>1, <2>3, <3>2
    <3> QED BY <3>1, <3>2
  <2> QED BY <1>1, <1>3, <1>5, <1>6, <1>7, <2>1, <2>2, <2>3
<1> QED BY <1>9, <1>10

\* A step of call c: it goes on with rest, having read g, or returns.
Moves(c, rest, g) == /\ c \in Call /\ IsRequest(op[c]) /\ Go(c, rest, g)
                     /\ Ready(op[c], rest, g) /\ (rest # <<>> => GotOK(op[c], g))

LEMMA CallKept ==
    ASSUME CallInv, NEW c, NEW rest, NEW g, Moves(c, rest, g),
           member' \in [User -> Row], maxSeq' \in Nat \ {0}, DOMAIN entry' = CacheKeys,
           \A k \in CacheKeys :
               \/ entry'[k] = entry[k] /\ entry[k] # Held(c)
               \/ entry'[k] = Absent
               \/ entry'[k].is = "full" /\ (k \in Typed => entry'[k].value \in ValueOf(k))
    PROVE  CallInv'
<1>1. /\ c \in Call /\ CallOK(c)' /\ val'[c] = NoFetch /\ ask' = ask
      /\ \A d \in Call : d # c => /\ op'[d] = op[d] /\ todo'[d] = todo[d] /\ got'[d] = got[d]
                                  /\ val'[d] = val[d]
      /\ DOMAIN op' = Call /\ DOMAIN todo' = Call /\ DOMAIN got' = Call /\ DOMAIN val' = Call
  BY GoStep DEF Moves, CallInv
<1>2. RowsOK'
  BY <1>1 DEF RowsOK, CallInv
<1>3. \A d \in Call : CallOK(d)'
  <2> SUFFICES ASSUME NEW d \in Call, d # c PROVE CallOK(d)'
    BY <1>1
  <2>1. CallOK(d)
    BY DEF CallInv
  <2> QED BY <1>1, <2>1 DEF CallOK
<1>4. FetchOK'
  <2>1. ASSUME NEW d \in Call, val'[d] # NoFetch
        PROVE  d # c /\ val'[d] = val[d] /\ todo'[d] = todo[d]
    BY <1>1, <2>1
  <2>2. ASSUME NEW d \in Call, val'[d] # NoFetch
        PROVE  Next1(d, CacheKeys)' /\ (val'[d] = Held(d) \/ val'[d].is = "full")
    BY <2>1, <2>2 DEF CallInv, FetchOK, Next1
  <2>3. ASSUME NEW d \in Call, val'[d].is = "full", Head(todo'[d]) \in Typed
        PROVE  val'[d].value \in ValueOf(Head(todo'[d]))
    <3>1. val'[d] # NoFetch
      BY <2>3, EntryFacts
    <3> QED BY <2>1, <2>3, <3>1 DEF CallInv, FetchOK
  <2>4. ASSUME NEW k \in CacheKeys
        PROVE  \/ entry'[k] = Absent
               \/ \E d \in Call : entry'[k] = Held(d) /\ val'[d] # NoFetch /\ Head(todo'[d]) = k
               \/ entry'[k].is = "full" /\ (k \in Typed => entry'[k].value \in ValueOf(k))
    <3>1. CASE entry'[k] = entry[k] /\ entry[k] # Held(c)
      <4>1. \/ entry[k] = Absent
            \/ \E d \in Call : entry[k] = Held(d) /\ val[d] # NoFetch /\ Head(todo[d]) = k
            \/ entry[k].is = "full" /\ (k \in Typed => entry[k].value \in ValueOf(k))
        BY DEF CallInv, FetchOK, Cached
      <4>2. ASSUME NEW d \in Call, entry[k] = Held(d), val[d] # NoFetch, Head(todo[d]) = k
            PROVE  entry'[k] = Held(d) /\ val'[d] # NoFetch /\ Head(todo'[d]) = k
        <5>1. d # c
          BY <3>1, <4>2
        <5> QED BY <1>1, <3>1, <4>2, <5>1
      <4> QED BY <3>1, <4>1, <4>2
    <3>2. CASE entry'[k] # entry[k] \/ entry[k] = Held(c)
      BY <3>2
    <3> QED BY <3>1, <3>2
  <2> QED BY <2>2, <2>3, <2>4 DEF FetchOK, Cached
<1> QED BY <1>2, <1>3, <1>4 DEF CallInv

LEMMA FreshKept ==
    ASSUME CallInv, FreshInv, NEW c, NEW rest, NEW g, Moves(c, rest, g),
           \A k \in CacheKeys : Owes(op[c], todo[c], k) \/ k \in abandoned \/ ~Stale(k) =>
               Owes(op[c], rest, k) \/ k \in abandoned' \/ ~Stale(k)'
    PROVE  FreshInv'
<1>1. /\ c \in Call
      /\ \A k : Owes(op[c], rest, k) => Owes(op'[c], todo'[c], k)
      /\ \A d \in Call : d # c => op'[d] = op[d] /\ todo'[d] = todo[d]
  BY GoStep DEF Moves, CallInv
<1> SUFFICES ASSUME NEW k \in CacheKeys, Stale(k)' PROVE k \in abandoned' \/ \E d \in Call : Owes(op'[d], todo'[d], k)
  BY DEF FreshInv, Excused
<1>2. CASE Owes(op[c], todo[c], k) \/ k \in abandoned \/ ~Stale(k)
  BY <1>1, <1>2
<1>3. CASE \E d \in Call : d # c /\ Owes(op[d], todo[d], k)
  BY <1>1, <1>3
<1> QED BY <1>2, <1>3 DEF FreshInv, Excused

\* The values of the keys, by the rows.
LEMMA DbValues ==
    /\ DbValue(Info) = info /\ DbValue(Ids) = { u \in User : member[u] # NoRow }
    /\ DbValue(Owners) = { u \in User : member[u].role = "owner" }
    /\ \A u \in User : DbValue(Member(u)) = member[u]
    /\ DbValue(MaxKey) = maxSeq
<1>1. /\ Info # Ids /\ Info # Owners /\ Info # MaxKey /\ Ids # Owners /\ Ids # MaxKey /\ Owners # MaxKey
      /\ \A u : Member(u) # Info /\ Member(u) # Ids /\ Member(u) # Owners /\ Member(u) # MaxKey
  BY Tags
<1>2. Info[1] = "info" /\ Ids[1] = "ids" /\ Owners[1] = "owners" /\ MaxKey[1] = "max"
  BY Tags
<1>3. \A u \in User : DbValue(Member(u)) = member[u]
  BY <1>1, Tags DEF DbValue
<1>4. DbValue(Info) = info
  BY <1>1, <1>2 DEF DbValue
<1>5. DbValue(Ids) = { u \in User : member[u] # NoRow }
  BY <1>1, <1>2 DEF DbValue
<1>6. DbValue(Owners) = { u \in User : member[u].role = "owner" }
  BY <1>1, <1>2 DEF DbValue
<1>7. DbValue(MaxKey) = maxSeq
  BY <1>1, <1>2 DEF DbValue
<1> QED BY <1>3, <1>4, <1>5, <1>6, <1>7

LEMMA DbNext ==
    /\ DbValue(Info)' = info' /\ DbValue(Ids)' = { u \in User : member'[u] # NoRow }
    /\ DbValue(Owners)' = { u \in User : member'[u].role = "owner" }
    /\ \A u \in User : DbValue(Member(u))' = member'[u]
<1>1. /\ Info # Ids /\ Info # Owners /\ Info # MaxKey /\ Ids # Owners /\ Ids # MaxKey /\ Owners # MaxKey
      /\ \A u : Member(u) # Info /\ Member(u) # Ids /\ Member(u) # Owners /\ Member(u) # MaxKey
  BY Tags
<1>2. Info[1] = "info" /\ Ids[1] = "ids" /\ Owners[1] = "owners" /\ MaxKey[1] = "max"
  BY Tags
<1>3. \A u \in User : DbValue(Member(u))' = member'[u]
  BY <1>1, Tags DEF DbValue
<1>4. DbValue(Info)' = info'
  BY <1>1, <1>2 DEF DbValue
<1>5. DbValue(Ids)' = { u \in User : member'[u] # NoRow }
  BY <1>1, <1>2 DEF DbValue
<1>6. DbValue(Owners)' = { u \in User : member'[u].role = "owner" }
  BY <1>1, <1>2 DEF DbValue
<1> QED BY <1>3, <1>4, <1>5, <1>6

LEMMA DbSame ==
    ASSUME info' = info, member' = member, NEW k \in CacheKeys
    PROVE  DbValue(k)' = DbValue(k)
<1>1. CASE k \in {Info, Ids, Owners}
  BY <1>1, DbValues, DbNext
<1>2. ASSUME NEW u \in User, k = Member(u) PROVE DbValue(k)' = DbValue(k)
  BY <1>2, DbValues, DbNext
<1> QED BY <1>1, <1>2 DEF CacheKeys

\* What a key holds has its type.
LEMMA DbTyped ==
    ASSUME RowsOK, NEW k \in CacheKeys, k \in Typed
    PROVE  DbValue(k) \in ValueOf(k)
<1>1. ASSUME NEW u \in User PROVE Member(u) \notin {Ids, Owners} /\ Member(u) # MaxKey /\ member[u] \in Row
  BY Tags DEF RowsOK
<1>2. k # MaxKey /\ (k \in {Ids, Owners} \/ \E u \in User : k = Member(u))
  BY Tags DEF CacheKeys, Typed
<1> QED BY <1>1, <1>2, DbValues DEF ValueOf

\* The write a call has just done: it owes the deletion of the entries it changed.
LEMMA OwesAfter ==
    ASSUME NEW o, NEW t, Plan(o, t), t # <<>>, NEW k \in Touches(o, Head(t))
    PROVE  Owes(o, Tail(t), k)
<1>0. t \in Seq(Commands) /\ Kept(o, t)
  BY DEF Plan
<1>1. PICK n \in Nat \ {0} : n = Len(t)
  BY <1>0
<1>2. PICK r : r = Tail(t)
  OBVIOUS
<1>3. /\ DOMAIN t = 1 .. n /\ Head(t) = t[1]
      /\ DOMAIN r = 1 .. n - 1 /\ r \in Seq(Commands)
      /\ \A i \in 1 .. n - 1 : r[i] = t[i + 1]
  BY <1>0, <1>1, <1>2, TailFacts
<1>4. 1 \in DOMAIN t /\ k \in Touches(o, t[1])
  BY <1>3
<1>5. PICK j \in DOMAIN t : 1 < j /\ t[j] = FlushOf(k) /\ \A h \in 1 + 1 .. j - 1 : Passes(o, k, t[h])
  BY <1>0, <1>4 DEF Kept
<1>6. j - 1 \in DOMAIN r /\ r[j - 1] = FlushOf(k)
  BY <1>3, <1>5
<1>7. ASSUME NEW h \in 1 .. (j - 1) - 1 PROVE Passes(o, k, r[h])
  <2>1. h + 1 \in 1 + 1 .. j - 1 /\ r[h] = t[h + 1]
    BY <1>3
  <2> QED BY <1>5, <2>1
<1> QED BY <1>2, <1>6, <1>7 DEF Owes

\* A call that does not read a cache key fetches nothing.
LEMMA NoFetchThere ==
    ASSUME CallInv, NEW c \in Call, todo[c] # <<>>, Head(todo[c]) \notin CacheKeys
    PROVE  /\ val[c] = NoFetch /\ IsRequest(op[c]) /\ Plan(op[c], todo[c]) /\ NeedsMet(op[c], todo[c], got[c])
           /\ GotOK(op[c], got[c]) /\ \A k \in CacheKeys : entry[k] # Held(c)
<1>1. val[c] = NoFetch
  BY DEF CallInv, FetchOK, Next1
<1>2. CallOK(c)
  BY DEF CallInv
<1>3. \A k \in CacheKeys : entry[k] # Held(c)
  <2> SUFFICES ASSUME NEW k \in CacheKeys, entry[k] = Held(c) PROVE FALSE
    OBVIOUS
  <2>1. \/ entry[k] = Absent
        \/ \E d \in Call : entry[k] = Held(d) /\ val[d] # NoFetch
        \/ entry[k].is = "full"
    BY DEF CallInv, FetchOK, Cached
  <2> QED BY <1>1, <2>1, EntryFacts
<1> QED BY <1>1, <1>2, <1>3 DEF CallOK

\* Nothing is stale that was not when neither the entries, nor the fetches, nor the row change.
LEMMA StaleSame ==
    ASSUME NEW k \in CacheKeys, entry' = entry, \A d \in Call : val'[d] = val[d],
           DbValue(k)' = DbValue(k), Stale(k)'
    PROVE  Stale(k)
BY DEF Stale, Cached

\* A write, of which the call owes the deletion of the entries, or that fails and ends it.
LEMMA WriteKept ==
    ASSUME CallInv, FreshInv, NEW c \in Call, NEW w, At(c, w),
           NEW rest, rest = Tail(todo[c]) \/ rest = <<>>, Go(c, rest, got[c]), entry' = entry,
           member' \in [User -> Row], maxSeq' = maxSeq, abandoned \subseteq abandoned',
           \A k \in CacheKeys : DbValue(k)' # DbValue(k) =>
               rest = Tail(todo[c]) /\ k \in Touches(op[c], Write(w)),
           rest # Tail(todo[c]) => /\ w # "deleteAll"
                                   /\ w = "promote" => {Member(op[c].by), Owners} \subseteq abandoned'
    PROVE  CallInv' /\ FreshInv' /\ Moves(c, rest, got[c])
<1>1. todo[c] # <<>> /\ Head(todo[c]) = Write(w)
  BY DEF At
<1>2. Head(todo[c]) \notin CacheKeys
  BY <1>1, Tags DEF CacheKeys
<1>3. /\ val[c] = NoFetch /\ IsRequest(op[c]) /\ Plan(op[c], todo[c]) /\ NeedsMet(op[c], todo[c], got[c])
      /\ GotOK(op[c], got[c]) /\ \A k \in CacheKeys : entry[k] # Held(c)
  BY <1>1, <1>2, NoFetchThere
<1>4. todo[c] \in Seq(Commands)
  BY <1>3 DEF Plan
<1>5. Ready(op[c], rest, got[c])
  <2>1. Head(todo[c]) \notin Reads
    BY <1>1, ReadTags, Tags DEF IsWrite
  <2>2. Ready(op[c], Tail(todo[c]), got[c])
    BY <1>1, <1>3, <1>4, <2>1, PlanTail, NeedsTail DEF Ready
  <2> QED BY <2>2, EmptyReady
<1>6. Moves(c, rest, got[c])
  BY <1>3, <1>5 DEF Moves
<1>7. CallInv'
  <2>1. maxSeq' \in Nat \ {0} /\ DOMAIN entry' = CacheKeys
    BY DEF CallInv, RowsOK
  <2> QED BY <1>3, <1>6, <2>1, CallKept
<1>8. \A d \in Call : val'[d] = val[d]
  BY <1>3, <1>5, GoStep DEF CallInv
<1>9. FreshInv'
  <2> SUFFICES ASSUME NEW k \in CacheKeys, Stale(k)',
                      Owes(op[c], todo[c], k) \/ k \in abandoned \/ ~Stale(k)
               PROVE  Owes(op[c], rest, k) \/ k \in abandoned'
    BY <1>6, FreshKept
  <2>1. CASE k \in abandoned
    BY <2>1
  <2>2. CASE ~Stale(k)
    <3>1. DbValue(k)' # DbValue(k)
      BY <1>8, <2>2, StaleSame
    <3>2. rest = Tail(todo[c]) /\ k \in Touches(op[c], Head(todo[c]))
      BY <1>1, <3>1
    <3> QED BY <1>1, <1>3, <3>2, OwesAfter
  <2>3. CASE Owes(op[c], todo[c], k)
    <3>1. Write(w) # FlushOf(k)
      BY Tags
    <3>2. Owes(op[c], Tail(todo[c]), k) /\ Passes(op[c], k, Write(w))
      BY <1>1, <1>4, <2>3, <3>1, TailOwes
    <3>3. CASE rest # Tail(todo[c])
      <4>1. IsWrite(Write(w)) /\ Write(w) # Write("deleteAll")
        BY <3>3, Tags DEF IsWrite
      <4>2. Write(w) = Write("promote") /\ k \in {Member(op[c].by), Owners}
        BY <3>2, <4>1 DEF Passes
      <4>3. w = "promote"
        BY <4>2, Tags
      <4> QED BY <3>3, <4>2, <4>3
    <3> QED BY <3>2, <3>3
  <2> QED BY <2>1, <2>2, <2>3
<1> QED BY <1>6, <1>7, <1>9

-----------------------------------------------------------------------------
(* The writes keep CallInv and FreshInv.                                    *)

LEMMA RowFacts ==
    /\ NoRow \in Row /\ NoRow.role = "none"
    /\ \A r \in Row : r # NoRow => r.role \in Roles /\ r.muted \in BOOLEAN
    /\ \A x \in Roles : \A m \in BOOLEAN : [role |-> x, muted |-> m] \in Row /\ [role |-> x, muted |-> m] # NoRow
    /\ \A r \in Row : r # NoRow => /\ \A x \in Roles : /\ [r EXCEPT !.role = x] \in Row
                                                      /\ [r EXCEPT !.role = x] # NoRow
                                                      /\ [r EXCEPT !.role = x].role = x
                                   /\ \A m \in BOOLEAN : /\ [r EXCEPT !.muted = m] \in Row
                                                         /\ [r EXCEPT !.muted = m] # NoRow
                                                         /\ [r EXCEPT !.muted = m].role = r.role
BY DEF Row, NoRow, Roles

\* The keys whose values change with one row.
LEMMA MemberChange ==
    ASSUME info' = info, NEW u \in User, member \in [User -> Row], NEW row,
           member' = [member EXCEPT ![u] = row], NEW k \in CacheKeys, DbValue(k)' # DbValue(k)
    PROVE  /\ k \in {Ids, Owners, Member(u)}
           /\ k = Ids => ~(row = NoRow <=> member[u] = NoRow)
           /\ k = Owners => ~(row.role = "owner" <=> member[u].role = "owner")
<1>1. member'[u] = row /\ \A v \in User : v # u => member'[v] = member[v]
  OBVIOUS
<1>2. k # Info
  BY DbValues, DbNext
<1>3. ASSUME NEW v \in User, v # u PROVE k # Member(v)
  BY <1>1, <1>3, DbValues, DbNext
<1>4. ASSUME k = Ids, row = NoRow <=> member[u] = NoRow PROVE FALSE
  <2>1. { v \in User : member'[v] # NoRow } = { v \in User : member[v] # NoRow }
    BY <1>1, <1>4
  <2> QED BY <1>4, <2>1, DbValues, DbNext
<1>5. ASSUME k = Owners, row.role = "owner" <=> member[u].role = "owner" PROVE FALSE
  <2>1. { v \in User : member'[v].role = "owner" } = { v \in User : member[v].role = "owner" }
    BY <1>1, <1>5
  <2> QED BY <1>5, <2>1, DbValues, DbNext
<1> QED BY <1>2, <1>3, <1>4, <1>5 DEF CacheKeys

\* No row comes or goes.
RowsStay == \A v \in User : member[v] = NoRow <=> member'[v] = NoRow

\* A row that is there is changed, or the call fails.
LEMMA RowUpdate ==
    ASSUME CallInv, FreshInv, NEW c \in Call, NEW w, At(c, w), NEW u \in User, NEW row,
           UpdateRow(c, u, row), member[u] # NoRow => row \in Row /\ row # NoRow,
           info' = info, entry' = entry, maxSeq' = maxSeq, abandoned \subseteq abandoned',
           w # "deleteAll",
           w = "promote" /\ member[u] = NoRow => {Member(op[c].by), Owners} \subseteq abandoned',
           Member(u) \in Touches(op[c], Write(w)),
           Owners \notin Touches(op[c], Write(w)) /\ member[u] # NoRow =>
               (row.role = "owner" <=> member[u].role = "owner")
    PROVE  CallInv' /\ FreshInv' /\ RowsStay
<1>1. member \in [User -> Row]
  BY DEF CallInv, RowsOK
<1>2. CASE member[u] = NoRow
  <2>1. Go(c, <<>>, got[c]) /\ member' = member
    BY <1>2 DEF UpdateRow, Failed
  <2>2. \A k \in CacheKeys : DbValue(k)' = DbValue(k)
    BY <2>1, DbSame
  <2> QED BY <1>1, <1>2, <2>1, <2>2, WriteKept DEF RowsStay
<1>3. CASE member[u] # NoRow
  <2>1. Go(c, Tail(todo[c]), got[c]) /\ member' = [member EXCEPT ![u] = row]
    BY <1>3 DEF UpdateRow, Done
  <2>2. member' \in [User -> Row]
    BY <1>1, <1>3, <2>1
  <2>3. ASSUME NEW k \in CacheKeys, DbValue(k)' # DbValue(k) PROVE k \in Touches(op[c], Write(w))
    BY <1>1, <1>3, <2>1, <2>3, MemberChange
  <2>4. RowsStay
    BY <1>1, <1>3, <2>1 DEF RowsStay
  <2> QED BY <2>1, <2>2, <2>3, <2>4, WriteKept
<1> QED BY <1>2, <1>3

\* What a call that serves a write has in hand.
LEMMA AtFacts ==
    ASSUME CallInv, NEW c \in Call, NEW w, At(c, w)
    PROVE  /\ IsRequest(op[c]) /\ Plan(op[c], todo[c]) /\ GotOK(op[c], got[c])
           /\ Has(todo[c], Write(w)) /\ todo[c] \in Seq(Commands)
           /\ op[c].user \in User /\ op[c].by \in User /\ op[c].kind \in Kinds
           /\ op[c].kind # "send" \/ w = "queue"
           /\ \A n \in Needs(op[c]) : n[1] = Write(w) => n[2] \in DOMAIN got[c]
<1>1. todo[c] # <<>> /\ Head(todo[c]) = Write(w)
  BY DEF At
<1>2. Head(todo[c]) \notin CacheKeys
  BY <1>1, Tags DEF CacheKeys
<1>3. IsRequest(op[c]) /\ Plan(op[c], todo[c]) /\ GotOK(op[c], got[c]) /\ NeedsMet(op[c], todo[c], got[c])
  BY <1>1, <1>2, NoFetchThere
<1>4. todo[c] \in Seq(Commands) /\ OfKind(op[c], todo[c])
  BY <1>3 DEF Plan
<1>5. PICK n \in Nat \ {0} : n = Len(todo[c])
  BY <1>1, <1>4
<1>6. 1 \in DOMAIN todo[c] /\ todo[c][1] = Write(w)
  BY <1>1, <1>4, <1>5, TailFacts
<1>7. op[c].kind # "send" \/ w = "queue"
  BY <1>4, <1>6, Tags DEF OfKind, IsWrite
<1>8. ASSUME NEW a \in Needs(op[c]), a[1] = Write(w) PROVE a[2] \in DOMAIN got[c]
  <2>1. ReadBefore(todo[c], got[c], a[1], a[2])
    BY <1>3 DEF NeedsMet
  <2>2. ~\E i \in 1 .. 1 - 1 : todo[c][i] = a[2]
    OBVIOUS
  <2> QED BY <1>6, <1>8, <2>1, <2>2 DEF ReadBefore
<1> QED BY <1>3, <1>4, <1>6, <1>7, <1>8 DEF Has, IsRequest

LEMMA TouchFacts ==
    ASSUME NEW o
    PROVE  /\ Touches(o, Write("create")) = {Ids, Member(o.user)}
           /\ Touches(o, Write("delete")) = {Ids, Member(o.user), Owners}
           /\ Touches(o, Write("demote")) = {Member(o.by), Owners}
           /\ Touches(o, Write("promote")) = {Member(o.user), Owners}
           /\ Touches(o, Write("setRole")) = {Member(o.user), Owners}
           /\ Touches(o, Write("setMuted")) = {Member(o.user)}
           /\ Touches(o, Write("setStatus")) = {Info}
           /\ Touches(o, Write("setVerify")) = {Info}
<1>1. \A v, w : v # w => Write(v) # Write(w)
  BY Tags
<1> QED BY <1>1 DEF Touches

LEMMA CreateKept ==
    ASSUME CallInv, FreshInv, NEW c \in Call, CreateMember(c)
    PROVE  CallInv' /\ FreshInv'
<1>1. /\ At(c, "create") /\ entry' = entry /\ info' = info /\ maxSeq' = maxSeq /\ abandoned' = abandoned
      /\ op[c].user \in User /\ member \in [User -> Row]
  BY AtFacts DEF CreateMember, seqVars, CallInv, RowsOK
<1>2. CASE member[op[c].user] # NoRow
  <2>1. Go(c, <<>>, got[c]) /\ member' = member
    BY <1>2 DEF CreateMember, Failed
  <2>2. \A k \in CacheKeys : DbValue(k)' = DbValue(k)
    BY <1>1, <2>1, DbSame
  <2> QED BY <1>1, <2>1, <2>2, WriteKept
<1>3. CASE member[op[c].user] = NoRow
  <2>1. PICK u \in User, row \in Row : u = op[c].user /\ row = [role |-> "ordinary", muted |-> FALSE]
    BY <1>1 DEF Row, Roles
  <2>2. Go(c, Tail(todo[c]), got[c]) /\ member' = [member EXCEPT ![u] = row]
    BY <1>3, <2>1 DEF CreateMember, Done
  <2>3. row \in Row /\ row.role # "owner" /\ NoRow.role # "owner"
    BY <2>1, RowFacts DEF Roles
  <2>4. member' \in [User -> Row]
    BY <1>1, <2>2, <2>3
  <2>5. ASSUME NEW k \in CacheKeys, DbValue(k)' # DbValue(k) PROVE k \in {Ids, Member(u)}
    BY <1>1, <1>3, <2>1, <2>2, <2>3, <2>5, MemberChange
  <2> QED BY <1>1, <2>1, <2>2, <2>4, <2>5, WriteKept, TouchFacts
<1> QED BY <1>2, <1>3

LEMMA DeleteKept ==
    ASSUME CallInv, FreshInv, NEW c \in Call, DeleteMember(c)
    PROVE  CallInv' /\ FreshInv'
<1>1. /\ At(c, "delete") /\ entry' = entry /\ info' = info /\ maxSeq' = maxSeq /\ abandoned' = abandoned
      /\ op[c].user \in User /\ member \in [User -> Row] /\ Go(c, Tail(todo[c]), got[c])
      /\ member' = [member EXCEPT ![op[c].user] = NoRow]
  BY AtFacts DEF DeleteMember, seqVars, CallInv, RowsOK, Done
<1>2. member' \in [User -> Row]
  BY <1>1, RowFacts
<1>3. ASSUME NEW k \in CacheKeys, DbValue(k)' # DbValue(k) PROVE k \in {Ids, Member(op[c].user), Owners}
  BY <1>1, <1>3, MemberChange
<1> QED BY <1>1, <1>2, <1>3, WriteKept, TouchFacts

LEMMA DemoteKept ==
    ASSUME CallInv, FreshInv, NEW c \in Call, Demote(c)
    PROVE  CallInv' /\ FreshInv' /\ RowsStay
<1>1. PICK u, r : u = op[c].by /\ r = got[c][Member(op[c].user)].role
  OBVIOUS
<1>2. /\ At(c, "demote") /\ entry' = entry /\ info' = info /\ maxSeq' = maxSeq /\ abandoned' = abandoned
      /\ member \in [User -> Row] /\ UpdateRow(c, u, Role(u, r))
  BY <1>1 DEF Demote, seqVars, CallInv, RowsOK
<1>3. u \in User /\ op[c].user \in User /\ GotOK(op[c], got[c]) /\ op[c].kind = "transfer"
  BY <1>1, <1>2, AtFacts DEF Plan, OfKind
<1>4. r \in Roles
  <2>1. <<Write("demote"), Member(op[c].user)>> \in Needs(op[c])
    BY DEF Needs
  <2>2. Member(op[c].user) \in DOMAIN got[c]
    BY <1>2, <2>1, AtFacts
  <2>3. Member(op[c].user) \in Typed /\ Member(op[c].user) \notin {Ids, Owners, MaxKey}
    BY <1>3, Tags DEF Typed
  <2>4. ValueOf(Member(op[c].user)) = Row
    BY <2>3 DEF ValueOf
  <2>5. got[c][Member(op[c].user)] \in Row /\ got[c][Member(op[c].user)] # NoRow
    BY <1>3, <2>2, <2>3, <2>4 DEF GotOK
  <2> QED BY <1>1, <2>5, RowFacts
<1>5. member[u] # NoRow => Role(u, r) \in Row /\ Role(u, r) # NoRow
  BY <1>2, <1>3, <1>4, RowFacts DEF Role
<1>6. Touches(op[c], Write("demote")) = {Member(u), Owners}
  BY <1>1, TouchFacts
<1> QED BY <1>2, <1>3, <1>5, <1>6, RowUpdate

LEMMA PromoteKept ==
    ASSUME CallInv, FreshInv, NEW c \in Call, Promote(c)
    PROVE  CallInv' /\ FreshInv' /\ RowsStay
<1>1. PICK u : u = op[c].user
  OBVIOUS
<1>2. /\ At(c, "promote") /\ entry' = entry /\ info' = info /\ maxSeq' = maxSeq
      /\ member \in [User -> Row] /\ UpdateRow(c, u, Role(u, "owner"))
      /\ abandoned' = IF member[u] # NoRow THEN abandoned ELSE abandoned \cup {Member(op[c].by), Owners}
  BY <1>1 DEF Promote, seqVars, CallInv, RowsOK
<1>3. u \in User
  BY <1>1, <1>2, AtFacts
<1>4. member[u] # NoRow => Role(u, "owner") \in Row /\ Role(u, "owner") # NoRow
  BY <1>2, <1>3, RowFacts DEF Role, Roles
<1>5. Touches(op[c], Write("promote")) = {Member(u), Owners}
  BY <1>1, TouchFacts
<1>6. abandoned \subseteq abandoned' /\ (member[u] = NoRow => {Member(op[c].by), Owners} \subseteq abandoned')
  BY <1>2
<1> QED BY <1>2, <1>3, <1>4, <1>5, <1>6, RowUpdate

LEMMA SetRoleKept ==
    ASSUME CallInv, FreshInv, NEW c \in Call, SetRole(c)
    PROVE  CallInv' /\ FreshInv' /\ RowsStay
<1>1. PICK u, r : u = op[c].user /\ r = op[c].val
  OBVIOUS
<1>2. /\ At(c, "setRole") /\ entry' = entry /\ info' = info /\ maxSeq' = maxSeq /\ abandoned' = abandoned
      /\ member \in [User -> Row] /\ UpdateRow(c, u, Role(u, r))
  BY <1>1 DEF SetRole, seqVars, CallInv, RowsOK
<1>3. u \in User /\ IsRequest(op[c]) /\ op[c].kind = "setRole"
  BY <1>1, <1>2, AtFacts DEF Plan, OfKind
<1>4. r \in Roles
  BY <1>1, <1>3 DEF IsRequest
<1>5. member[u] # NoRow => Role(u, r) \in Row /\ Role(u, r) # NoRow
  BY <1>2, <1>3, <1>4, RowFacts DEF Role
<1>6. Touches(op[c], Write("setRole")) = {Member(u), Owners}
  BY <1>1, TouchFacts
<1> QED BY <1>2, <1>3, <1>5, <1>6, RowUpdate

LEMMA SetMutedKept ==
    ASSUME CallInv, FreshInv, NEW c \in Call, SetMuted(c)
    PROVE  CallInv' /\ FreshInv' /\ RowsStay
<1>1. PICK u : u = op[c].user
  OBVIOUS
<1>2. PICK row : \E m \in BOOLEAN : m = (op[c].kind = "muteMember") /\ row = [member[u] EXCEPT !.muted = m]
  OBVIOUS
<1>3. /\ At(c, "setMuted") /\ entry' = entry /\ info' = info /\ maxSeq' = maxSeq /\ abandoned' = abandoned
      /\ member \in [User -> Row] /\ UpdateRow(c, u, row)
  BY <1>1, <1>2 DEF SetMuted, seqVars, CallInv, RowsOK
<1>4. u \in User
  BY <1>1, <1>3, AtFacts
<1>5. member[u] # NoRow => row \in Row /\ row # NoRow /\ row.role = member[u].role
  <2>1. PICK m \in BOOLEAN : row = [member[u] EXCEPT !.muted = m]
    BY <1>2
  <2>2. member[u] \in Row
    BY <1>3, <1>4
  <2> QED BY <2>1, <2>2, RowFacts
<1>6. Touches(op[c], Write("setMuted")) = {Member(u)}
  BY <1>1, TouchFacts
<1> QED BY <1>3, <1>4, <1>5, <1>6, RowUpdate

LEMMA InfoKept ==
    ASSUME CallInv, FreshInv, NEW c \in Call, SetStatus(c) \/ SetVerify(c)
    PROVE  CallInv' /\ FreshInv'
<1>1. /\ entry' = entry /\ member' = member /\ maxSeq' = maxSeq /\ abandoned' = abandoned
      /\ Go(c, Tail(todo[c]), got[c]) /\ member \in [User -> Row]
  BY DEF SetStatus, SetVerify, seqVars, CallInv, RowsOK, Done
<1>2. PICK w \in {"setStatus", "setVerify"} : At(c, w)
  BY DEF SetStatus, SetVerify
<1>3. Touches(op[c], Write(w)) = {Info}
  BY TouchFacts
<1>4. ASSUME NEW k \in CacheKeys, DbValue(k)' # DbValue(k) PROVE k = Info
  <2>1. CASE k \in {Ids, Owners}
    BY <1>1, <1>4, <2>1, DbValues, DbNext
  <2>2. ASSUME NEW u \in User, k = Member(u) PROVE FALSE
    BY <1>1, <1>4, <2>2, DbValues, DbNext
  <2> QED BY <2>1, <2>2 DEF CacheKeys
<1> QED BY <1>1, <1>2, <1>3, <1>4, WriteKept

\* The writes of requests, limits and messages.
QuietWrite(c) ==
    \/ DelRequest(c) \/ AddRequest(c) \/ Handle(c) \/ PutConversation(c) \/ SetConvMax(c)
    \/ SetUserMin(c) \/ SetHasRead(c) \/ Queue(c)

LEMMA QuietFacts ==
    ASSUME NEW c \in Call, QuietWrite(c)
    PROVE  /\ entry' = entry /\ member' = member /\ info' = info /\ maxSeq' = maxSeq /\ abandoned' = abandoned
           /\ \E rest \in {Tail(todo[c]), <<>>} : Go(c, rest, got[c])
           /\ \E w \in {"delRequest", "addRequest", "handle", "conv", "convMax", "userMin", "hasRead", "queue"} :
                  At(c, w)
BY DEF QuietWrite, DelRequest, AddRequest, Handle, PutConversation, SetConvMax, SetUserMin, SetHasRead,
       Queue, dbVars, seqVars, Done, Failed

LEMMA QuietKept ==
    ASSUME CallInv, FreshInv, NEW c \in Call, QuietWrite(c)
    PROVE  CallInv' /\ FreshInv'
<1>1. entry' = entry /\ member' = member /\ info' = info /\ maxSeq' = maxSeq /\ abandoned' = abandoned
  BY QuietFacts
<1>2. PICK rest \in {Tail(todo[c]), <<>>} : Go(c, rest, got[c])
  BY QuietFacts
<1>3. PICK w : At(c, w) /\ w # "deleteAll" /\ w # "promote"
  BY QuietFacts
<1>4. \A k \in CacheKeys : DbValue(k)' = DbValue(k)
  BY <1>1, DbSame
<1>5. member' \in [User -> Row]
  BY <1>1 DEF CallInv, RowsOK
<1> QED BY <1>1, <1>2, <1>3, <1>4, <1>5, WriteKept

\* A finite set as a sequence: every member is in it.
LEMMA SetToSeqOnto ==
    ASSUME NEW S, IsFiniteSet(S)
    PROVE  /\ SetToSeq(S) \in [1 .. Cardinality(S) -> S] /\ Cardinality(S) \in Nat
           /\ \A x \in S : \E i \in 1 .. Cardinality(S) : SetToSeq(S)[i] = x
<1>1. PICK n \in Nat : n = Cardinality(S)
  BY FS_CardinalityType
<1>2. PICK f : f \in Bijection(1 .. n, S)
  BY <1>1, FS_CardinalityType DEF ExistsBijection
<1>3. f \in [1 .. n -> S] /\ IsInjective(f)
  BY <1>2 DEF Bijection, Injection
<1>4. PICK s : s = SetToSeq(S)
  OBVIOUS
<1>5. s \in [1 .. n -> S] /\ IsInjective(s)
  BY <1>1, <1>3, <1>4 DEF SetToSeq
<1>6. s \in Injection(1 .. n, S)
  BY <1>5 DEF Injection
<1>7. Cardinality(1 .. n) = n
  BY FS_Interval
<1>8. s \in Surjection(1 .. n, S)
  BY <1>1, <1>6, <1>7, FS_Injection
<1>9. \A x \in S : \E i \in 1 .. n : s[i] = x
  BY <1>8 DEF Surjection
<1> QED BY <1>1, <1>4, <1>5, <1>9

\* Deletions of entries put before a plan.
LEMMA FlushPrefix ==
    ASSUME NEW o, o.kind # "send", NEW g, NEW t, Ready(o, t, g), NEW q \in Seq(CacheKeys)
    PROVE  /\ Ready(o, Flush(q) \o t, g)
           /\ \A i \in 1 .. Len(q) : Owes(o, Flush(q) \o t, q[i])
           /\ \A k : Owes(o, t, k) => Owes(o, Flush(q) \o t, k)
           /\ \A w : Has(Flush(q) \o t, Write(w)) <=> Has(t, Write(w))
<1>1. t \in Seq(Commands) /\ Plan(o, t) /\ NeedsMet(o, t, g)
  BY DEF Ready, Plan
<1>2. PICK p : p = Flush(q)
  OBVIOUS
<1>3. PICK m \in Nat, n \in Nat : m = Len(q) /\ n = Len(t)
  BY <1>1
<1>4. PICK r : r = p \o t
  OBVIOUS
<1>5. /\ p \in Seq(Commands) /\ Len(p) = m /\ DOMAIN p = 1 .. m
      /\ \A i \in 1 .. m : p[i] = FlushOf(q[i])
  BY <1>2, <1>3, FlushFacts
<1>6. /\ r \in Seq(Commands) /\ Len(r) = m + n /\ DOMAIN r = 1 .. m + n
      /\ DOMAIN t = 1 .. n
      /\ \A i \in 1 .. m : r[i] = p[i]
      /\ \A i \in 1 .. n : r[m + i] = t[i]
  <2>1. /\ p \o t \in Seq(Commands) /\ Len(p \o t) = Len(p) + Len(t)
        /\ DOMAIN t = 1 .. Len(t) /\ DOMAIN (p \o t) = 1 .. Len(p) + Len(t)
        /\ \A i \in 1 .. Len(p) : (p \o t)[i] = p[i]
        /\ \A i \in 1 .. Len(t) : (p \o t)[Len(p) + i] = t[i]
    <3>1. p \in Seq(Commands)
      BY <1>5
    <3> QED BY <1>1, <3>1, ConcatFacts
  <2>2. Len(p) = m /\ Len(t) = n
    BY <1>3, <1>5
  <2> QED BY <1>4, <2>1, <2>2
<1>7. ASSUME NEW i \in 1 .. m
      PROVE  /\ i \in DOMAIN r /\ r[i] = FlushOf(q[i]) /\ IsFlush(r[i]) /\ ~IsWrite(r[i])
             /\ \A w : r[i] # Write(w)
             /\ r[i] # Decide
  <2>1. i \in DOMAIN r /\ r[i] = FlushOf(q[i])
    BY <1>5, <1>6
  <2>2. FlushOf(q[i])[1] = "flush"
    BY Tags
  <2> QED BY <2>1, <2>2, Tags DEF IsFlush, IsWrite
<1>8. ASSUME NEW i \in DOMAIN r, i \notin 1 .. m PROVE i - m \in DOMAIN t /\ r[i] = t[i - m] /\ i > m
  <2>1. i - m \in 1 .. n /\ i = m + (i - m) /\ i > m
    BY <1>6, <1>8
  <2> QED BY <1>6, <2>1
<1>9. ASSUME NEW i \in DOMAIN t PROVE m + i \in DOMAIN r /\ r[m + i] = t[i]
  BY <1>6
<1>10. Kept(o, r)
  <2> SUFFICES ASSUME NEW i \in DOMAIN r, NEW k \in Touches(o, r[i])
               PROVE  \E j \in DOMAIN r : /\ i < j /\ r[j] = FlushOf(k)
                                          /\ \A h \in i + 1 .. j - 1 : Passes(o, k, r[h])
    BY DEF Kept
  <2>1. i \notin 1 .. m
    BY <1>7, QuietCommands
  <2>2. i - m \in DOMAIN t /\ k \in Touches(o, t[i - m])
    BY <1>8, <2>1
  <2>3. PICK j \in DOMAIN t : /\ i - m < j /\ t[j] = FlushOf(k)
                              /\ \A h \in (i - m) + 1 .. j - 1 : Passes(o, k, t[h])
    BY <1>1, <2>2 DEF Plan, Kept
  <2>4. m + j \in DOMAIN r /\ r[m + j] = FlushOf(k) /\ i < m + j
    BY <1>6, <1>9, <2>3
  <2>5. ASSUME NEW h \in i + 1 .. (m + j) - 1 PROVE Passes(o, k, r[h])
    <3>1. h - m \in (i - m) + 1 .. j - 1 /\ h \in DOMAIN r /\ h \notin 1 .. m
      BY <1>6, <2>1, <2>3
    <3> QED BY <1>8, <2>3, <3>1
  <2> QED BY <2>4, <2>5
<1>11. LateReads(o, r)
  <2> SUFFICES ASSUME NEW i \in DOMAIN r, NEW j \in DOMAIN r, i < j, IsWrite(r[j]) \/ IsFlush(r[j]),
                      ~IsWrite(r[i]), ~IsFlush(r[i])
               PROVE  r[i] \in Late(o)
    BY DEF LateReads
  <2>1. i \notin 1 .. m
    BY <1>7
  <2>2. j \notin 1 .. m
    BY <1>6, <2>1
  <2>3. /\ i - m \in DOMAIN t /\ r[i] = t[i - m] /\ j - m \in DOMAIN t /\ r[j] = t[j - m]
    BY <1>8, <2>1, <2>2
  <2>4. i - m < j - m
    BY <1>6
  <2> QED BY <1>1, <2>3, <2>4 DEF Plan, LateReads
<1>12. DecideLast(r)
  <2> SUFFICES ASSUME NEW i \in DOMAIN r, r[i] = Decide PROVE i = m + n
    BY <1>6 DEF DecideLast
  <2>1. i - m \in DOMAIN t /\ t[i - m] = Decide
    BY <1>7, <1>8
  <2>2. i - m = n
    BY <1>1, <1>3, <2>1 DEF Plan, DecideLast
  <2> QED BY <1>6, <2>2
<1>13. \A w : Has(r, Write(w)) <=> Has(t, Write(w))
  BY <1>7, <1>8, <1>9 DEF Has
<1>14. ASSUME NEW w, NEW Y, \A y \in Y : \E v : y = Write(v), Marked(t, Write(w), Y)
       PROVE  Marked(r, Write(w), Y)
  <2> SUFFICES ASSUME NEW i \in DOMAIN r, NEW j \in DOMAIN r, r[i] = Write(w), r[j] \in Y PROVE i <= j
    BY DEF Marked
  <2>1. i \notin 1 .. m /\ j \notin 1 .. m
    BY <1>7, <1>14
  <2>2. i - m \in DOMAIN t /\ t[i - m] = Write(w) /\ j - m \in DOMAIN t /\ t[j - m] \in Y
    BY <1>8, <2>1
  <2>3. i - m <= j - m
    BY <1>14, <2>2 DEF Marked
  <2> QED BY <1>6, <2>3
<1>15. Ordered(r)
  <2>1. \A y \in JoinMarks \cup LeaveMarks : \E v : y = Write(v)
    BY DEF JoinMarks, LeaveMarks
  <2> QED BY <1>1, <1>14, <2>1 DEF Plan, Ordered
<1>16. Complete(o, r) /\ OfKind(o, r)
  BY <1>1, <1>13 DEF Plan, Complete, OfKind
<1>17. NeedsMet(o, r, g)
  <2> SUFFICES ASSUME NEW a \in Needs(o), NEW j \in DOMAIN r, r[j] = a[1], a[2] \notin DOMAIN g
               PROVE  \E i \in 1 .. j - 1 : r[i] = a[2]
    BY DEF NeedsMet, ReadBefore
  <2>1. a[1] = Decide \/ \E w : a[1] = Write(w)
    BY DEF Needs
  <2>2. j \notin 1 .. m
    BY <1>7, <2>1
  <2>3. j - m \in DOMAIN t /\ t[j - m] = a[1]
    BY <1>8, <2>2
  <2>4. PICK i \in 1 .. (j - m) - 1 : t[i] = a[2]
    BY <1>1, <2>3 DEF NeedsMet, ReadBefore
  <2>5. m + i \in 1 .. j - 1 /\ i \in DOMAIN t
    BY <1>6, <2>3, <2>4
  <2> QED BY <1>9, <2>4, <2>5
<1>18. ASSUME NEW i \in 1 .. m PROVE Owes(o, r, q[i])
  <2>1. \A h \in 1 .. i - 1 : Passes(o, q[i], r[h])
    BY <1>7 DEF Passes
  <2> QED BY <1>7, <2>1 DEF Owes
<1>19. ASSUME NEW k, Owes(o, t, k) PROVE Owes(o, r, k)
  <2>1. PICK j \in DOMAIN t : t[j] = FlushOf(k) /\ \A h \in 1 .. j - 1 : Passes(o, k, t[h])
    BY <1>19 DEF Owes
  <2>2. m + j \in DOMAIN r /\ r[m + j] = FlushOf(k)
    BY <1>9, <2>1
  <2>3. ASSUME NEW h \in 1 .. (m + j) - 1 PROVE Passes(o, k, r[h])
    <3>1. CASE h \in 1 .. m
      BY <1>7, <3>1 DEF Passes
    <3>2. CASE h \notin 1 .. m
      <4>1. h - m \in 1 .. j - 1 /\ h \in DOMAIN r
        BY <1>6, <2>1, <3>2
      <4> QED BY <1>8, <2>1, <3>2, <4>1
    <3> QED BY <3>1, <3>2
  <2> QED BY <2>2, <2>3 DEF Owes
<1>20. Ready(o, r, g)
  BY <1>6, <1>10, <1>11, <1>12, <1>15, <1>16, <1>17 DEF Ready, Plan
<1> QED BY <1>2, <1>3, <1>4, <1>13, <1>18, <1>19, <1>20

\* The keys a dismissal deletes.
MembersOf(G) == { Member(u) : u \in G }
DismissKeys(G) == <<Ids, Owners>> \o SetToSeq(MembersOf(G))

LEMMA MembersSeq ==
    ASSUME NEW G \in SUBSET User
    PROVE  /\ DismissKeys(G) \in Seq(CacheKeys)
           /\ \A k \in {Ids, Owners} \cup MembersOf(G) :
                  \E i \in 1 .. Len(DismissKeys(G)) : DismissKeys(G)[i] = k
<1>0. PICK q : q = DismissKeys(G)
  OBVIOUS
<1>1. PICK S : S = MembersOf(G)
  OBVIOUS
<1>2. IsFiniteSet(S)
  <2>1. IsFiniteSet(G)
    BY ConstantsAssumption, FS_Subset
  <2>2. PICK f : f = [u \in G |-> Member(u)]
    OBVIOUS
  <2>3. f \in Surjection(G, S)
    BY <1>1, <2>2 DEF Surjection, MembersOf
  <2> QED BY <2>1, <2>3, FS_Surjection
<1>3. PICK s : s = SetToSeq(S)
  OBVIOUS
<1>4. PICK n \in Nat : s \in [1 .. n -> S] /\ \A x \in S : \E i \in 1 .. n : s[i] = x
  BY <1>2, <1>3, SetToSeqOnto
<1>5. S \subseteq CacheKeys /\ Ids \in CacheKeys /\ Owners \in CacheKeys
  BY <1>1 DEF CacheKeys, MembersOf
<1>6. s \in Seq(CacheKeys) /\ Len(s) = n
  BY <1>4, <1>5
<1>7. PICK h : h = <<Ids, Owners>>
  OBVIOUS
<1>8. h \in Seq(CacheKeys) /\ Len(h) = 2 /\ h[1] = Ids /\ h[2] = Owners
  BY <1>5, <1>7
<1>9. q = h \o s
  BY <1>0, <1>1, <1>3, <1>7 DEF DismissKeys
<1>10. /\ q \in Seq(CacheKeys) /\ Len(q) = 2 + n
       /\ \A i \in 1 .. 2 : q[i] = h[i]
       /\ \A i \in 1 .. n : q[2 + i] = s[i]
  <2>1. /\ h \o s \in Seq(CacheKeys) /\ Len(h \o s) = Len(h) + Len(s)
        /\ \A i \in 1 .. Len(h) : (h \o s)[i] = h[i]
        /\ \A i \in 1 .. Len(s) : (h \o s)[Len(h) + i] = s[i]
    <3>1. h \in Seq(CacheKeys) /\ s \in Seq(CacheKeys)
      BY <1>6, <1>8
    <3> QED BY <3>1, ConcatFacts
  <2> QED BY <1>6, <1>8, <1>9, <2>1
<1>11. ASSUME NEW k \in S PROVE \E i \in 1 .. Len(q) : q[i] = k
  <2>1. PICK i \in 1 .. n : s[i] = k
    BY <1>4
  <2>2. 2 + i \in 1 .. Len(q) /\ q[2 + i] = k
    BY <1>10, <2>1
  <2> QED BY <2>2
<1>12. 1 \in 1 .. Len(q) /\ q[1] = Ids /\ 2 \in 1 .. Len(q) /\ q[2] = Owners
  BY <1>8, <1>10
<1> QED BY <1>0, <1>1, <1>10, <1>11, <1>12

\* All rows are deleted.  The call goes on to delete the entries of the members it listed.
LEMMA DeleteAllKept ==
    ASSUME CallInv, FreshInv, NEW c \in Call, DeleteMembers(c)
    PROVE  /\ CallInv' /\ FreshInv' /\ op[c].kind # "send"
           /\ \E rest : /\ Moves(c, rest, got[c])
                        /\ \A w : Has(rest, Write(w)) <=> Has(Tail(todo[c]), Write(w))
<1>1. /\ At(c, "deleteAll") /\ entry' = entry /\ info' = info /\ maxSeq' = maxSeq
      /\ member' = [u \in User |-> NoRow] /\ member \in [User -> Row]
      /\ abandoned' = abandoned \cup { Member(u) : u \in DbValue(Ids) \ got[c][Ids] }
      /\ todo[c] # <<>> /\ Head(todo[c]) = Write("deleteAll")
  BY DEF DeleteMembers, seqVars, CallInv, RowsOK, At
<1>2. PICK o, t : o = op[c] /\ t = todo[c]
  OBVIOUS
<1>3. /\ IsRequest(o) /\ Plan(o, t) /\ GotOK(o, got[c]) /\ t \in Seq(Commands) /\ o.kind # "send"
      /\ \A n \in Needs(o) : n[1] = Write("deleteAll") => n[2] \in DOMAIN got[c]
  BY <1>1, <1>2, AtFacts
<1>4. PICK G \in SUBSET User : G = got[c][Ids]
  <2>1. <<Write("deleteAll"), Ids>> \in Needs(o)
    BY DEF Needs
  <2>2. Ids \in DOMAIN got[c] /\ Ids \in Typed
    BY <1>3, <2>1 DEF Typed
  <2> QED BY <1>3, <2>2 DEF GotOK, ValueOf
<1>5. PICK q : q = DismissKeys(G)
  OBVIOUS
<1>6. /\ q \in Seq(CacheKeys)
      /\ \A k \in {Ids, Owners} \cup MembersOf(G) : \E i \in 1 .. Len(q) : q[i] = k
  BY <1>5, MembersSeq
<1>7. PICK rest : rest = Flush(q) \o Tail(t)
  OBVIOUS
<1>8. Go(c, rest, got[c])
  BY <1>2, <1>4, <1>5, <1>7 DEF DeleteMembers, DismissKeys, MembersOf
<1>9. Head(t) \notin CacheKeys /\ Head(t) \notin Reads /\ \A k : Head(t) # FlushOf(k)
  BY <1>1, <1>2, Tags, ReadTags DEF CacheKeys, IsWrite
<1>10. val[c] = NoFetch /\ NeedsMet(o, t, got[c]) /\ \A k \in CacheKeys : entry[k] # Held(c)
  BY <1>1, <1>2, <1>9, NoFetchThere
<1>11. Ready(o, Tail(t), got[c])
  BY <1>1, <1>2, <1>3, <1>9, <1>10, PlanTail, NeedsTail DEF Ready
<1>12. /\ Ready(o, rest, got[c])
       /\ \A i \in 1 .. Len(q) : Owes(o, rest, q[i])
       /\ \A k : Owes(o, Tail(t), k) => Owes(o, rest, k)
       /\ \A w : Has(rest, Write(w)) <=> Has(Tail(t), Write(w))
  BY <1>3, <1>6, <1>7, <1>11, FlushPrefix
<1>13. Moves(c, rest, got[c])
  BY <1>2, <1>3, <1>8, <1>12 DEF Moves
<1>14. CallInv'
  <2>1. maxSeq' \in Nat \ {0} /\ DOMAIN entry' = CacheKeys
    BY <1>1 DEF CallInv, RowsOK
  <2>2. member' \in [User -> Row]
    BY <1>1, RowFacts
  <2> QED BY <1>1, <1>10, <1>13, <2>1, <2>2, CallKept
<1>15. \A d \in Call : val'[d] = val[d]
  BY <1>2, <1>3, <1>8, <1>10, <1>12, GoStep DEF CallInv
<1>16. FreshInv'
  <2> SUFFICES ASSUME NEW k \in CacheKeys, Stale(k)', Owes(o, t, k) \/ k \in abandoned \/ ~Stale(k)
               PROVE  Owes(o, rest, k) \/ k \in abandoned'
    BY <1>2, <1>13, FreshKept
  <2>1. CASE k \in {Ids, Owners} \cup MembersOf(G)
    BY <1>6, <1>12, <2>1
  <2>2. CASE DbValue(k)' = DbValue(k)
    <3>1. Stale(k)
      BY <1>1, <1>15, <2>2, StaleSame
    <3>2. CASE Owes(o, t, k)
      BY <1>1, <1>2, <1>3, <1>9, <1>12, <3>2, TailOwes
    <3> QED BY <1>1, <3>1, <3>2
  <2>3. CASE k \notin {Ids, Owners} \cup MembersOf(G) /\ DbValue(k)' # DbValue(k)
    <3>1. k # Info
      BY <1>1, <2>3, DbValues, DbNext
    <3>2. PICK u \in User : k = Member(u)
      BY <2>3, <3>1 DEF CacheKeys
    <3>3. DbValue(k)' = NoRow /\ DbValue(k) = member[u]
      <4>1. member'[u] = NoRow
        BY <1>1
      <4> QED BY <3>2, <4>1, DbValues, DbNext
    <3>4. u \in DbValue(Ids) /\ u \notin G
      BY <2>3, <3>2, <3>3, DbValues DEF MembersOf
    <3> QED BY <1>1, <1>4, <3>2, <3>4
  <2> QED BY <2>1, <2>2, <2>3
<1> QED BY <1>2, <1>3, <1>12, <1>13, <1>14, <1>16

-----------------------------------------------------------------------------
(* The other steps keep CallInv and FreshInv.                               *)

\* A read: the call goes on, or has written nothing and goes on to write nothing yet.
ReadMove(c, v, rest, g) ==
    /\ Moves(c, rest, g) /\ g = Put(got[c], Head(todo[c]), v)
    /\ rest = Tail(todo[c]) \/ (ReadsOnly(todo[c]) /\ ReadsOnly(rest))
    /\ rest = <<>> \/ Follow(op[c], g, Head(todo[c])) # Error
    /\ \A k : Owes(op[c], todo[c], k) => Owes(op[c], rest, k)

LEMMA ReadMoves ==
    ASSUME CallInv, NEW c \in Call, todo[c] # <<>>, Head(todo[c]) \in Reads,
           NEW v, Head(todo[c]) \in Typed => v \in ValueOf(Head(todo[c])), Deliver(c, v)
    PROVE  \E rest, g : ReadMove(c, v, rest, g)
<1>1. CallOK(c)
  BY DEF CallInv
<1>2. PICK rest, g :
              /\ Go(c, rest, g) /\ g = Put(got[c], Head(todo[c]), v) /\ IsRequest(op[c])
              /\ Ready(op[c], rest, g) /\ (rest # <<>> => GotOK(op[c], g))
              /\ rest = Tail(todo[c]) \/ (ReadsOnly(todo[c]) /\ ReadsOnly(rest))
              /\ rest = <<>> \/ Follow(op[c], g, Head(todo[c])) # Error
  BY <1>1, DeliverStep
<1>3. todo[c] \in Seq(Commands)
  BY <1>1 DEF CallOK, Plan
<1>4. ASSUME NEW k, Owes(op[c], todo[c], k) PROVE Owes(op[c], rest, k)
  <2>1. Has(todo[c], FlushOf(k)) /\ IsFlush(FlushOf(k))
    BY <1>3, <1>4, TailOwes, Tags DEF IsFlush
  <2>2. rest = Tail(todo[c])
    BY <1>2, <2>1, ReadsOnlyMarks
  <2>3. Head(todo[c]) # FlushOf(k)
    BY <2>1, ReadTags
  <2> QED BY <1>3, <1>4, <2>2, <2>3, TailOwes
<1> QED BY <1>2, <1>4 DEF ReadMove, Moves

LEMMA CacheHitKept ==
    ASSUME CallInv, FreshInv, NEW c \in Call, CacheHit(c)
    PROVE  /\ CallInv' /\ FreshInv'
           /\ \E rest, g : ReadMove(c, entry[Head(todo[c])].value, rest, g)
<1>1. PICK k \in CacheKeys : k = Head(todo[c])
  BY DEF CacheHit, Next1
<1>2. /\ todo[c] # <<>> /\ val[c] = NoFetch /\ entry[k].is = "full" /\ Deliver(c, entry[k].value)
      /\ entry' = entry /\ member' = member /\ info' = info /\ maxSeq' = maxSeq /\ abandoned' = abandoned
  BY <1>1 DEF CacheHit, Next1, Cached, dbVars, seqVars
<1>3. k \in Reads /\ (k \in Typed => entry[k].value \in ValueOf(k))
  <2>1. \/ entry[k] = Absent
        \/ \E d \in Call : entry[k] = Held(d)
        \/ (k \in Typed => entry[k].value \in ValueOf(k))
    BY DEF CallInv, FetchOK, Cached
  <2> QED BY <1>2, <2>1, EntryFacts, CommandFacts
<1>4. PICK rest, g : ReadMove(c, entry[k].value, rest, g)
  BY <1>1, <1>2, <1>3, ReadMoves
<1>5. Moves(c, rest, g) /\ \A x : Owes(op[c], todo[c], x) => Owes(op[c], rest, x)
  BY <1>4 DEF ReadMove
<1>6. \A x \in CacheKeys : entry[x] # Held(c)
  <2> SUFFICES ASSUME NEW x \in CacheKeys, entry[x] = Held(c) PROVE FALSE
    OBVIOUS
  <2>1. \/ entry[x] = Absent
        \/ \E d \in Call : entry[x] = Held(d) /\ val[d] # NoFetch
        \/ entry[x].is = "full"
    BY DEF CallInv, FetchOK, Cached
  <2> QED BY <1>2, <2>1, EntryFacts
<1>7. CallInv'
  <2>1. maxSeq' \in Nat \ {0} /\ DOMAIN entry' = CacheKeys /\ member' \in [User -> Row]
    BY <1>2 DEF CallInv, RowsOK
  <2> QED BY <1>2, <1>5, <1>6, <2>1, CallKept
<1>8. \A d \in Call : val'[d] = val[d]
  BY <1>2, <1>5, GoStep DEF CallInv, Moves
<1>9. \A x \in CacheKeys : Stale(x)' => Stale(x)
  BY <1>2, <1>8, DbSame, StaleSame
<1>10. FreshInv'
  BY <1>2, <1>5, <1>9, FreshKept
<1> QED BY <1>1, <1>4, <1>7, <1>10

LEMMA ReadStoredKept ==
    ASSUME CallInv, FreshInv, NEW c \in Call, ReadStored(c)
    PROVE  /\ CallInv' /\ FreshInv'
           /\ \E rest, g : ReadMove(c, DbValue(Head(todo[c])), rest, g)
<1>1. /\ todo[c] # <<>> /\ Head(todo[c]) \notin CacheKeys /\ Deliver(c, DbValue(Head(todo[c])))
      /\ Head(todo[c])[1] \in {"max", "hasRead", "request", "conv"}
      /\ entry' = entry /\ member' = member /\ info' = info /\ maxSeq' = maxSeq /\ abandoned' = abandoned
  BY DEF ReadStored, dbVars, seqVars
<1>2. val[c] = NoFetch /\ Plan(op[c], todo[c]) /\ \A x \in CacheKeys : entry[x] # Held(c)
  BY <1>1, NoFetchThere
<1>3. PICK k : k = Head(todo[c])
  OBVIOUS
<1>4. k \in Reads /\ (k \in Typed => k = MaxKey)
  <2>1. k \in Commands
    BY <1>1, <1>2, <1>3, TailFacts DEF Plan
  <2>2. k \in Reads
    BY <1>1, <1>3, <2>1, CommandKinds, Tags
  <2>3. k \in Typed => k = MaxKey
    BY <1>1, <1>3, Tags DEF Typed
  <2> QED BY <2>2, <2>3
<1>5. k \in Typed => DbValue(k) \in ValueOf(k)
  <2>1. MaxKey # Ids /\ MaxKey # Owners
    BY Tags
  <2> QED BY <1>4, <2>1, DbValues DEF ValueOf, CallInv, RowsOK
<1>6. PICK rest, g : ReadMove(c, DbValue(k), rest, g)
  BY <1>1, <1>3, <1>4, <1>5, ReadMoves
<1>7. Moves(c, rest, g) /\ \A x : Owes(op[c], todo[c], x) => Owes(op[c], rest, x)
  BY <1>6 DEF ReadMove
<1>8. CallInv'
  <2>1. maxSeq' \in Nat \ {0} /\ DOMAIN entry' = CacheKeys /\ member' \in [User -> Row]
    BY <1>1 DEF CallInv, RowsOK
  <2> QED BY <1>1, <1>2, <1>7, <2>1, CallKept
<1>9. \A d \in Call : val'[d] = val[d]
  BY <1>2, <1>7, GoStep DEF CallInv, Moves
<1>10. \A x \in CacheKeys : Stale(x)' => Stale(x)
  BY <1>1, <1>9, DbSame, StaleSame
<1>11. FreshInv'
  BY <1>1, <1>7, <1>10, FreshKept
<1> QED BY <1>3, <1>6, <1>8, <1>11

LEMMA FetchStoreKept ==
    ASSUME CallInv, FreshInv, NEW c \in Call, FetchStore(c)
    PROVE  /\ CallInv' /\ FreshInv'
           /\ \E rest, g : ReadMove(c, val[c].value, rest, g)
<1>1. val[c] # NoFetch /\ val[c].is = "full"
  BY EntryFacts DEF FetchStore
<1>2. PICK k, v : k \in CacheKeys /\ k = Head(todo[c]) /\ v = val[c].value
  BY <1>1 DEF CallInv, FetchOK, Next1
<1>3. /\ todo[c] # <<>> /\ Deliver(c, v) /\ DOMAIN entry = CacheKeys
      /\ entry' = [entry EXCEPT ![k] = IF @ = Held(c) THEN Stored(k, v) ELSE @]
      /\ member' = member /\ info' = info /\ maxSeq' = maxSeq /\ abandoned' = abandoned
  BY <1>1, <1>2 DEF FetchStore, StoreIfHeld, dbVars, seqVars, CallInv, RowsOK, FetchOK, Next1
<1>4. k \in Reads /\ (k \in Typed => v \in ValueOf(k))
  BY <1>1, <1>2, CommandFacts DEF CallInv, FetchOK
<1>5. PICK rest, g : ReadMove(c, v, rest, g)
  BY <1>2, <1>3, <1>4, ReadMoves
<1>6. Moves(c, rest, g) /\ \A x : Owes(op[c], todo[c], x) => Owes(op[c], rest, x)
  BY <1>5 DEF ReadMove
<1>7. ASSUME NEW x \in CacheKeys, entry[x] = Held(c) PROVE x = k
  <2>1. \/ entry[x] = Absent
        \/ \E d \in Call : entry[x] = Held(d) /\ Head(todo[d]) = x
        \/ entry[x].is = "full"
    BY DEF CallInv, FetchOK, Cached
  <2> QED BY <1>2, <1>7, <2>1, EntryFacts
<1>8. Stored(k, v) = Absent \/ Stored(k, v) = Full(v)
  BY DEF Stored
<1>9. /\ \A x \in CacheKeys : x # k => entry'[x] = entry[x]
      /\ entry[k] # Held(c) => entry'[k] = entry[k]
      /\ entry[k] = Held(c) => entry'[k] = Absent \/ entry'[k] = Full(v)
      /\ DOMAIN entry' = CacheKeys
  BY <1>2, <1>3, <1>8
<1>10. CallInv'
  <2>1. maxSeq' \in Nat \ {0} /\ member' \in [User -> Row]
    BY <1>3 DEF CallInv, RowsOK
  <2>2. ASSUME NEW x \in CacheKeys
        PROVE  \/ entry'[x] = entry[x] /\ entry[x] # Held(c)
               \/ entry'[x] = Absent
               \/ entry'[x].is = "full" /\ (x \in Typed => entry'[x].value \in ValueOf(x))
    <3>1. CASE entry[x] # Held(c)
      BY <1>9, <3>1
    <3>2. CASE entry[x] = Held(c)
      <4>1. x = k
        BY <1>7, <3>2
      <4> QED BY <1>4, <1>9, <3>2, <4>1, EntryFacts
    <3> QED BY <3>1, <3>2
  <2> QED BY <1>6, <1>9, <2>1, <2>2, CallKept
<1>11. val'[c] = NoFetch /\ \A d \in Call : d # c => val'[d] = val[d]
  BY <1>6, GoStep DEF CallInv, Moves
<1>12. ASSUME NEW x \in CacheKeys, Stale(x)' PROVE Stale(x)
  <2>1. DbValue(x)' = DbValue(x)
    BY <1>3, DbSame
  <2>2. CASE x = k /\ entry[k] = Held(c)
    <3>1. entry'[k] = Full(v) /\ v # DbValue(x)
      BY <1>9, <1>12, <2>1, <2>2, EntryFacts DEF Stale, Cached
    <3> QED BY <1>1, <1>2, <2>2, <3>1 DEF Stale
  <2>3. CASE ~(x = k /\ entry[k] = Held(c))
    <3>1. entry'[x] = entry[x] /\ entry[x] # Held(c)
      BY <1>7, <1>9, <2>3
    <3> QED BY <1>11, <1>12, <2>1, <3>1 DEF Stale, Cached
  <2> QED BY <2>2, <2>3
<1>13. FreshInv'
  BY <1>3, <1>6, <1>12, FreshKept
<1> QED BY <1>2, <1>5, <1>10, <1>13

LEMMA FlushKeyKept ==
    ASSUME CallInv, FreshInv, NEW c \in Call, FlushKey(c)
    PROVE  /\ CallInv' /\ FreshInv' /\ Moves(c, Tail(todo[c]), got[c]) /\ op[c].kind # "send"
           /\ \E k \in CacheKeys : /\ Head(todo[c]) = FlushOf(k) /\ entry'[k] = Absent
                                   /\ \A x \in CacheKeys : x # k => entry'[x] = entry[x]
<1>1. PICK t, x : t = todo[c] /\ x = Head(t)
  OBVIOUS
<1>2. t # <<>> /\ x[1] = "flush"
  BY <1>1 DEF FlushKey
<1>3. x \notin CacheKeys /\ x \notin Reads
  BY <1>2, CommandFacts, ReadTags DEF IsFlush
<1>4. /\ val[c] = NoFetch /\ IsRequest(op[c]) /\ Plan(op[c], t) /\ NeedsMet(op[c], t, got[c])
      /\ GotOK(op[c], got[c]) /\ \A y \in CacheKeys : entry[y] # Held(c)
  BY <1>1, <1>2, <1>3, NoFetchThere
<1>5. t \in Seq(Commands)
  BY <1>4 DEF Plan
<1>6. PICK k \in CacheKeys : x = FlushOf(k)
  <2>1. x \in Commands
    BY <1>1, <1>2, <1>5, TailFacts
  <2>2. ~(x \in Reads \cup {Decide}) /\ ~\E w \in Writes : x = Write(w)
    BY <1>2, <1>3, Tags
  <2> QED BY <2>1, <2>2, CommandKinds
<1>7. x[2] = k
  BY <1>6, Tags
<1>8. /\ entry' = [entry EXCEPT ![k] = Absent] /\ abandoned' = abandoned \ {k}
      /\ Go(c, Tail(t), got[c]) /\ DOMAIN entry = CacheKeys
      /\ member' = member /\ info' = info /\ maxSeq' = maxSeq
  BY <1>1, <1>7 DEF FlushKey, dbVars, seqVars, CallInv, RowsOK
<1>9. Ready(op[c], Tail(t), got[c])
  BY <1>1, <1>2, <1>3, <1>4, <1>5, PlanTail, NeedsTail DEF Ready
<1>10. Moves(c, Tail(t), got[c])
  BY <1>4, <1>8, <1>9 DEF Moves
<1>11. entry'[k] = Absent /\ DOMAIN entry' = CacheKeys /\ \A y \in CacheKeys : y # k => entry'[y] = entry[y]
  BY <1>8
<1>12. CallInv'
  <2>1. maxSeq' \in Nat \ {0} /\ member' \in [User -> Row]
    BY <1>8 DEF CallInv, RowsOK
  <2>2. \A y \in CacheKeys : entry'[y] = Absent \/ (entry'[y] = entry[y] /\ entry[y] # Held(c))
    BY <1>4, <1>11
  <2> QED BY <1>10, <1>11, <2>1, <2>2, CallKept
<1>13. \A d \in Call : val'[d] = val[d]
  BY <1>4, <1>10, GoStep DEF CallInv, Moves
<1>14. ASSUME NEW y \in CacheKeys, Stale(y)' PROVE y # k /\ Stale(y)
  <2>1. DbValue(y)' = DbValue(y)
    BY <1>8, DbSame
  <2>2. y # k
    BY <1>11, <1>14, EntryFacts DEF Stale, Cached
  <2> QED BY <1>11, <1>13, <1>14, <2>1, <2>2 DEF Stale, Cached
<1>15. FreshInv'
  <2> SUFFICES ASSUME NEW y \in CacheKeys, Stale(y)', Owes(op[c], t, y) \/ y \in abandoned \/ ~Stale(y)
               PROVE  Owes(op[c], Tail(t), y) \/ y \in abandoned'
    BY <1>1, <1>10, FreshKept
  <2>1. y # k /\ Stale(y)
    BY <1>14
  <2>2. x # FlushOf(y)
    BY <1>6, <2>1, Tags
  <2> QED BY <1>1, <1>2, <1>5, <1>8, <2>1, <2>2, TailOwes
<1>16. op[c].kind # "send"
  <2>1. 1 \in DOMAIN t /\ t[1] = x
    BY <1>1, <1>2, <1>5, TailFacts
  <2> QED BY <1>2, <1>4, <2>1 DEF Plan, OfKind, IsFlush
<1> QED BY <1>1, <1>6, <1>10, <1>11, <1>12, <1>15, <1>16

\* Steps that leave the calls and their commands alone.
LEMMA CallsStill ==
    ASSUME CallInv, op' = op, todo' = todo, got' = got, val' = val
    PROVE  \A c \in Call : CallOK(c)'
BY DEF CallInv, CallOK

LEMMA FetchLockKept ==
    ASSUME CallInv, FreshInv, NEW c \in Call, FetchLock(c)
    PROVE  CallInv' /\ FreshInv'
<1>1. PICK k \in CacheKeys : k = Head(todo[c])
  BY DEF FetchLock, Next1
<1>2. /\ todo[c] # <<>> /\ val[c] = NoFetch /\ entry[k] = Absent
      /\ entry' = [entry EXCEPT ![k] = Held(c)] /\ val' = [val EXCEPT ![c] = Held(c)]
      /\ op' = op /\ todo' = todo /\ got' = got /\ ask' = ask /\ abandoned' = abandoned
      /\ member' = member /\ info' = info /\ maxSeq' = maxSeq
  BY <1>1 DEF FetchLock, Next1, dbVars, seqVars, histVars
<1>3. /\ entry'[k] = Held(c) /\ DOMAIN entry' = CacheKeys /\ \A x \in CacheKeys : x # k => entry'[x] = entry[x]
      /\ val'[c] = Held(c) /\ DOMAIN val' = Call /\ \A d \in Call : d # c => val'[d] = val[d]
  BY <1>2 DEF CallInv, RowsOK
<1>4. RowsOK'
  BY <1>2, <1>3 DEF CallInv, RowsOK
<1>5. ASSUME NEW d \in Call PROVE CallOK(d)'
  <2>1. CallOK(d)
    BY DEF CallInv
  <2>2. CASE d = c
    BY <1>2, <2>1, <2>2 DEF CallOK
  <2>3. CASE d # c
    BY <1>2, <1>3, <2>1, <2>3 DEF CallOK
  <2> QED BY <2>2, <2>3
<1>6. FetchOK'
  <2>1. ASSUME NEW d \in Call, val'[d] # NoFetch
        PROVE  Next1(d, CacheKeys)' /\ (val'[d] = Held(d) \/ val'[d].is = "full")
    <3>1. CASE d = c
      BY <1>1, <1>2, <1>3, <3>1 DEF Next1
    <3>2. CASE d # c
      BY <1>2, <1>3, <2>1, <3>2 DEF CallInv, FetchOK, Next1
    <3> QED BY <3>1, <3>2
  <2>2. ASSUME NEW d \in Call, val'[d].is = "full", Head(todo'[d]) \in Typed
        PROVE  val'[d].value \in ValueOf(Head(todo'[d]))
    <3>1. d # c
      BY <1>3, <2>2, EntryFacts
    <3> QED BY <1>2, <1>3, <2>2, <3>1 DEF CallInv, FetchOK
  <2>3. ASSUME NEW x \in CacheKeys
        PROVE  \/ entry'[x] = Absent
               \/ \E d \in Call : entry'[x] = Held(d) /\ val'[d] # NoFetch /\ Head(todo'[d]) = x
               \/ entry'[x].is = "full" /\ (x \in Typed => entry'[x].value \in ValueOf(x))
    <3>1. CASE x = k
      BY <1>1, <1>2, <1>3, <3>1, EntryFacts
    <3>2. CASE x # k
      <4>1. \/ entry[x] = Absent
            \/ \E d \in Call : entry[x] = Held(d) /\ val[d] # NoFetch /\ Head(todo[d]) = x
            \/ entry[x].is = "full" /\ (x \in Typed => entry[x].value \in ValueOf(x))
        BY DEF CallInv, FetchOK, Cached
      <4>2. ASSUME NEW d \in Call, entry[x] = Held(d), val[d] # NoFetch, Head(todo[d]) = x
            PROVE  entry'[x] = Held(d) /\ val'[d] # NoFetch /\ Head(todo'[d]) = x
        <5>1. d # c
          BY <1>2, <4>2
        <5> QED BY <1>2, <1>3, <3>2, <4>2, <5>1
      <4> QED BY <1>3, <3>2, <4>1, <4>2
    <3> QED BY <3>1, <3>2
  <2> QED BY <2>1, <2>2, <2>3 DEF FetchOK, Cached
<1>7. ASSUME NEW x \in CacheKeys, Stale(x)' PROVE Stale(x)
  <2>1. DbValue(x)' = DbValue(x)
    BY <1>2, DbSame
  <2>2. ASSUME NEW d \in Call, entry'[x] = Held(d), val'[d].is = "full" PROVE d # c /\ x # k
    <3>1. d # c
      BY <1>3, <2>2, EntryFacts
    <3>2. x # k
      BY <1>3, <2>2, <3>1, EntryFacts
    <3> QED BY <3>1, <3>2
  <2>3. entry'[x].is = "full" => x # k
    BY <1>3, EntryFacts
  <2> QED BY <1>3, <1>7, <2>1, <2>2, <2>3 DEF Stale, Cached
<1>8. FreshInv'
  BY <1>2, <1>7 DEF FreshInv, Excused
<1> QED BY <1>4, <1>5, <1>6, <1>8 DEF CallInv

LEMMA FetchLoadKept ==
    ASSUME CallInv, FreshInv, NEW c \in Call, FetchLoad(c)
    PROVE  CallInv' /\ FreshInv'
<1>1. val[c] # NoFetch /\ val[c] = Held(c)
  BY EntryFacts DEF FetchLoad
<1>2. PICK k \in CacheKeys : k = Head(todo[c])
  BY <1>1 DEF CallInv, FetchOK, Next1
<1>3. /\ val' = [val EXCEPT ![c] = Full(DbValue(k))] /\ entry' = entry
      /\ op' = op /\ todo' = todo /\ got' = got /\ ask' = ask /\ abandoned' = abandoned
      /\ member' = member /\ info' = info /\ maxSeq' = maxSeq
  BY <1>2 DEF FetchLoad, dbVars, seqVars, histVars
<1>4. PICK v : v = DbValue(k)
  OBVIOUS
<1>5. /\ val'[c] = Full(v) /\ DOMAIN val' = Call /\ \A d \in Call : d # c => val'[d] = val[d]
  BY <1>3, <1>4 DEF CallInv, RowsOK
<1>6. RowsOK'
  BY <1>3, <1>5 DEF CallInv, RowsOK
<1>7. ASSUME NEW d \in Call PROVE CallOK(d)'
  <2>1. CallOK(d)
    BY DEF CallInv
  <2>2. CASE d = c
    BY <1>1, <1>3, <2>1, <2>2 DEF CallOK
  <2>3. CASE d # c
    BY <1>3, <1>5, <2>1, <2>3 DEF CallOK
  <2> QED BY <2>2, <2>3
<1>8. FetchOK'
  <2>1. ASSUME NEW d \in Call, val'[d] # NoFetch
        PROVE  Next1(d, CacheKeys)' /\ (val'[d] = Held(d) \/ val'[d].is = "full")
    <3>1. CASE d = c
      <4>1. Next1(c, CacheKeys)
        BY <1>1 DEF CallInv, FetchOK
      <4> QED BY <1>3, <1>5, <3>1, <4>1, EntryFacts DEF Next1
    <3>2. CASE d # c
      BY <1>3, <1>5, <2>1, <3>2 DEF CallInv, FetchOK, Next1
    <3> QED BY <3>1, <3>2
  <2>2. ASSUME NEW d \in Call, val'[d].is = "full", Head(todo'[d]) \in Typed
        PROVE  val'[d].value \in ValueOf(Head(todo'[d]))
    <3>1. CASE d = c
      <4>1. k \in Typed /\ Head(todo'[d]) = k
        BY <1>2, <1>3, <2>2, <3>1
      <4>2. v \in ValueOf(k)
        BY <1>4, <4>1, DbTyped DEF CallInv
      <4> QED BY <1>5, <3>1, <4>1, <4>2, EntryFacts
    <3>2. CASE d # c
      BY <1>3, <1>5, <2>2, <3>2 DEF CallInv, FetchOK
    <3> QED BY <3>1, <3>2
  <2>3. ASSUME NEW x \in CacheKeys
        PROVE  \/ entry'[x] = Absent
               \/ \E d \in Call : entry'[x] = Held(d) /\ val'[d] # NoFetch /\ Head(todo'[d]) = x
               \/ entry'[x].is = "full" /\ (x \in Typed => entry'[x].value \in ValueOf(x))
    <3>1. \/ entry[x] = Absent
          \/ \E d \in Call : entry[x] = Held(d) /\ val[d] # NoFetch /\ Head(todo[d]) = x
          \/ entry[x].is = "full" /\ (x \in Typed => entry[x].value \in ValueOf(x))
      BY DEF CallInv, FetchOK, Cached
    <3>2. ASSUME NEW d \in Call, val[d] # NoFetch PROVE val'[d] # NoFetch
      <4>1. Full(v) # NoFetch
        BY EntryFacts
      <4> QED BY <1>5, <3>2, <4>1
    <3> QED BY <1>3, <3>1, <3>2
  <2> QED BY <2>1, <2>2, <2>3 DEF FetchOK, Cached
<1>9. ASSUME NEW x \in CacheKeys, entry[x] = Held(c) PROVE x = k
  <2>1. \/ entry[x] = Absent
        \/ \E d \in Call : entry[x] = Held(d) /\ Head(todo[d]) = x
        \/ entry[x].is = "full"
    BY DEF CallInv, FetchOK, Cached
  <2> QED BY <1>2, <1>9, <2>1, EntryFacts
<1>10. ASSUME NEW x \in CacheKeys, Stale(x)' PROVE Stale(x)
  <2>1. DbValue(x)' = DbValue(x)
    BY <1>3, DbSame
  <2>2. ASSUME NEW d \in Call, entry'[x] = Held(d), val'[d].is = "full", val'[d].value # DbValue(x)
        PROVE  d # c
    <3> SUFFICES ASSUME d = c PROVE FALSE
      OBVIOUS
    <3>1. x = k
      BY <1>3, <1>9, <2>2
    <3> QED BY <1>4, <1>5, <2>2, <3>1, EntryFacts
  <2> QED BY <1>3, <1>5, <1>10, <2>1, <2>2 DEF Stale, Cached
<1>11. FreshInv'
  BY <1>3, <1>10 DEF FreshInv, Excused
<1> QED BY <1>6, <1>7, <1>8, <1>11 DEF CallInv

LEMMA ExpireKept ==
    ASSUME CallInv, FreshInv, NEW k \in CacheKeys, Expire(k)
    PROVE  CallInv' /\ FreshInv'
<1>1. /\ entry' = [entry EXCEPT ![k] = Absent] /\ abandoned' = abandoned
      /\ op' = op /\ todo' = todo /\ got' = got /\ val' = val /\ ask' = ask
      /\ member' = member /\ info' = info /\ maxSeq' = maxSeq
  BY DEF Expire, dbVars, seqVars, callVars, histVars
<1>2. entry'[k] = Absent /\ DOMAIN entry' = CacheKeys /\ \A x \in CacheKeys : x # k => entry'[x] = entry[x]
  BY <1>1 DEF CallInv, RowsOK
<1>3. RowsOK'
  BY <1>1, <1>2 DEF CallInv, RowsOK
<1>4. FetchOK'
  <2>1. \A x \in CacheKeys : entry'[x] = Absent \/ entry'[x] = entry[x]
    BY <1>2
  <2> QED BY <1>1, <2>1 DEF CallInv, FetchOK, Cached, Next1
<1>5. ASSUME NEW x \in CacheKeys, Stale(x)' PROVE Stale(x)
  <2>1. DbValue(x)' = DbValue(x)
    BY <1>1, DbSame
  <2>2. x # k
    BY <1>2, <1>5, EntryFacts DEF Stale, Cached
  <2> QED BY <1>1, <1>2, <1>5, <2>1, <2>2 DEF Stale, Cached
<1>6. FreshInv'
  BY <1>1, <1>5 DEF FreshInv, Excused
<1> QED BY <1>1, <1>3, <1>4, <1>6, CallsStill DEF CallInv

LEMMA SendMsgKept ==
    ASSUME CallInv, FreshInv, SendMsg
    PROVE  CallInv' /\ FreshInv'
<1>1. /\ entry' = entry /\ abandoned' = abandoned
      /\ op' = op /\ todo' = todo /\ got' = got /\ val' = val /\ ask' = ask
      /\ member' = member /\ info' = info /\ maxSeq' = maxSeq + 1
  BY DEF SendMsg, dbVars, callVars, histVars
<1>2. RowsOK'
  BY <1>1 DEF CallInv, RowsOK
<1>3. FetchOK'
  BY <1>1 DEF CallInv, FetchOK, Cached, Next1
<1>4. ASSUME NEW x \in CacheKeys, Stale(x)' PROVE Stale(x)
  BY <1>1, <1>4, DbSame, StaleSame
<1>5. FreshInv'
  BY <1>1, <1>4 DEF FreshInv, Excused
<1> QED BY <1>1, <1>2, <1>3, <1>5, CallsStill DEF CallInv

LEMMA IdleFacts ==
    ASSUME NEW c \in Call, CallOK(c)
    PROVE  /\ op[c].kind \notin Kinds => /\ op[c] = NoRequest /\ todo[c] = <<>> /\ got[c] = Nothing
                                         /\ val[c] = NoFetch
           /\ op[c] = NoRequest => op[c].kind = "none" /\ op[c].kind \notin Kinds
           /\ op[c].kind = "none" \/ IsRequest(op[c])
           /\ op[c].kind # "none" => todo[c] # <<>>
<1>1. NoRequest.kind = "none" /\ "none" \notin Kinds
  BY DEF NoRequest, Kinds
<1> QED BY <1>1 DEF CallOK, IsRequest

LEMMA StartKept ==
    ASSUME CallInv, FreshInv, NEW c \in Call, Start(c)
    PROVE  CallInv' /\ FreshInv'
<1>1. PICK o \in ask :
        /\ ask' = ask \ {o}
        /\ op' = [op EXCEPT ![c] = o]
        /\ todo' = [todo EXCEPT ![c] = Follow(o, Nothing, Begin)]
  BY DEF Start
<1>2. /\ entry' = entry /\ abandoned' = abandoned /\ got' = got /\ val' = val
      /\ member' = member /\ info' = info /\ maxSeq' = maxSeq
  BY DEF Start, dbVars, seqVars
<1>3. op[c] = NoRequest /\ todo[c] = <<>> /\ got[c] = Nothing /\ val[c] = NoFetch
  <2>1. CallOK(c)
    BY DEF CallInv
  <2> QED BY <2>1, IdleFacts DEF Start, Idle
<1>4. IsRequest(o)
  BY DEF CallInv, RowsOK
<1>5. PICK t : t = Follow(o, Nothing, Begin)
  OBVIOUS
<1>6. Ready(o, t, Nothing) /\ t # <<>>
  BY <1>4, <1>5, BeginReady
<1>7. /\ op'[c] = o /\ todo'[c] = t /\ DOMAIN op' = Call /\ DOMAIN todo' = Call
      /\ \A d \in Call : d # c => op'[d] = op[d] /\ todo'[d] = todo[d]
  BY <1>1, <1>5 DEF CallInv, RowsOK
<1>8. RowsOK'
  BY <1>1, <1>2, <1>7 DEF CallInv, RowsOK
<1>9. GotOK(o, Nothing)
  BY DEF GotOK, Nothing
<1>10. ASSUME NEW d \in Call PROVE CallOK(d)'
  <2>1. CASE d = c
    BY <1>2, <1>3, <1>4, <1>6, <1>7, <1>9, <2>1 DEF CallOK, Ready
  <2>2. CASE d # c
    <3>1. CallOK(d)
      BY DEF CallInv
    <3> QED BY <1>2, <1>7, <2>2, <3>1 DEF CallOK
  <2> QED BY <2>1, <2>2
<1>11. FetchOK'
  <2>1. ASSUME NEW d \in Call, val[d] # NoFetch PROVE todo'[d] = todo[d] /\ d # c
    BY <1>3, <1>7, <2>1
  <2>2. ASSUME NEW d \in Call, val'[d] # NoFetch
        PROVE  Next1(d, CacheKeys)' /\ (val'[d] = Held(d) \/ val'[d].is = "full")
    BY <1>2, <2>1, <2>2 DEF CallInv, FetchOK, Next1
  <2>3. ASSUME NEW d \in Call, val'[d].is = "full", Head(todo'[d]) \in Typed
        PROVE  val'[d].value \in ValueOf(Head(todo'[d]))
    <3>1. val[d] # NoFetch
      BY <1>2, <2>3, EntryFacts
    <3> QED BY <1>2, <2>1, <2>3, <3>1 DEF CallInv, FetchOK
  <2>4. ASSUME NEW x \in CacheKeys
        PROVE  \/ entry'[x] = Absent
               \/ \E d \in Call : entry'[x] = Held(d) /\ val'[d] # NoFetch /\ Head(todo'[d]) = x
               \/ entry'[x].is = "full" /\ (x \in Typed => entry'[x].value \in ValueOf(x))
    <3>1. \/ entry[x] = Absent
          \/ \E d \in Call : entry[x] = Held(d) /\ val[d] # NoFetch /\ Head(todo[d]) = x
          \/ entry[x].is = "full" /\ (x \in Typed => entry[x].value \in ValueOf(x))
      BY DEF CallInv, FetchOK, Cached
    <3> QED BY <1>2, <2>1, <3>1
  <2> QED BY <2>2, <2>3, <2>4 DEF FetchOK, Cached
<1>12. ASSUME NEW x \in CacheKeys, Stale(x)' PROVE Stale(x)
  BY <1>2, <1>12, DbSame, StaleSame
<1>13. ASSUME NEW x \in CacheKeys, NEW d \in Call, Owes(op[d], todo[d], x) PROVE Owes(op'[d], todo'[d], x)
  <2>1. d # c
    BY <1>3, <1>13 DEF Owes
  <2> QED BY <1>7, <1>13, <2>1
<1>14. FreshInv'
  BY <1>2, <1>12, <1>13 DEF FreshInv, Excused
<1> QED BY <1>8, <1>10, <1>11, <1>14 DEF CallInv

-----------------------------------------------------------------------------
(* The cache.                                                               *)

FreshCalls == CallInv /\ FreshInv

LEMMA FreshStart == Init => FreshCalls
<1> SUFFICES ASSUME Init PROVE FreshCalls
  OBVIOUS
<1>1. PICK s \in Scenario :
        /\ member = [u \in User |-> [role |-> s.role[u], muted |-> FALSE]]
        /\ ask = s.ask
  BY DEF Init
<1>2. s.role \in [User -> Roles \cup {"none"}] /\ \A o \in s.ask : IsRequest(o)
  BY ConstantsAssumption
<1>3. /\ op = [c \in Call |-> NoRequest] /\ todo = [c \in Call |-> <<>>]
      /\ got = [c \in Call |-> Nothing] /\ val = [c \in Call |-> NoFetch]
      /\ entry = [k \in CacheKeys |-> Absent] /\ maxSeq = 1
  BY DEF Init
<1>4. member \in [User -> Row]
  <2>1. ASSUME NEW u \in User PROVE [role |-> s.role[u], muted |-> FALSE] \in Row
    <3>1. s.role[u] \in Roles \cup {"none"}
      BY <1>2
    <3> QED BY <3>1, RowFacts DEF NoRow
  <2> QED BY <1>1, <2>1
<1>5. RowsOK
  BY <1>1, <1>2, <1>3, <1>4 DEF RowsOK
<1>6. FetchOK
  BY <1>3, EntryFacts DEF FetchOK
<1>7. \A c \in Call : CallOK(c)
  BY <1>3 DEF CallOK
<1>8. FreshInv
  BY <1>3, EntryFacts DEF FreshInv, Stale, Cached
<1> QED BY <1>5, <1>6, <1>7, <1>8 DEF FreshCalls, CallInv

LEMMA FreshNext ==
    ASSUME FreshCalls, [Next]_vars
    PROVE  FreshCalls'
<1>0. CallInv /\ FreshInv
  BY DEF FreshCalls
<1>1. CASE SendMsg
  BY <1>0, <1>1, SendMsgKept DEF FreshCalls
<1>2. ASSUME NEW k \in CacheKeys, Expire(k) PROVE FreshCalls'
  BY <1>0, <1>2, ExpireKept DEF FreshCalls
<1>3. ASSUME NEW c \in Call, Start(c) PROVE FreshCalls'
  BY <1>0, <1>3, StartKept DEF FreshCalls
<1>4. ASSUME NEW c \in Call, Serve(c) PROVE FreshCalls'
  <2>1. CASE CacheHit(c)
    BY <1>0, <2>1, CacheHitKept DEF FreshCalls
  <2>2. CASE FetchLock(c)
    BY <1>0, <2>2, FetchLockKept DEF FreshCalls
  <2>3. CASE FetchLoad(c)
    BY <1>0, <2>3, FetchLoadKept DEF FreshCalls
  <2>4. CASE FetchStore(c)
    BY <1>0, <2>4, FetchStoreKept DEF FreshCalls
  <2>5. CASE ReadStored(c)
    BY <1>0, <2>5, ReadStoredKept DEF FreshCalls
  <2>6. CASE FlushKey(c)
    BY <1>0, <2>6, FlushKeyKept DEF FreshCalls
  <2>7. CASE CreateMember(c)
    BY <1>0, <2>7, CreateKept DEF FreshCalls
  <2>8. CASE DeleteMember(c)
    BY <1>0, <2>8, DeleteKept DEF FreshCalls
  <2>9. CASE DeleteMembers(c)
    BY <1>0, <2>9, DeleteAllKept DEF FreshCalls
  <2>10. CASE Demote(c)
    BY <1>0, <2>10, DemoteKept DEF FreshCalls
  <2>11. CASE Promote(c)
    BY <1>0, <2>11, PromoteKept DEF FreshCalls
  <2>12. CASE SetRole(c)
    BY <1>0, <2>12, SetRoleKept DEF FreshCalls
  <2>13. CASE SetMuted(c)
    BY <1>0, <2>13, SetMutedKept DEF FreshCalls
  <2>14. CASE SetStatus(c) \/ SetVerify(c)
    BY <1>0, <2>14, InfoKept DEF FreshCalls
  <2>15. CASE QuietWrite(c)
    BY <1>0, <2>15, QuietKept DEF FreshCalls
  <2> QED BY <1>4, <2>1, <2>2, <2>3, <2>4, <2>5, <2>6, <2>7, <2>8, <2>9, <2>10, <2>11, <2>12, <2>13,
             <2>14, <2>15 DEF Serve, QuietWrite
<1>5. CASE UNCHANGED vars
  <2>1. /\ entry' = entry /\ abandoned' = abandoned
        /\ op' = op /\ todo' = todo /\ got' = got /\ val' = val /\ ask' = ask
        /\ member' = member /\ info' = info /\ maxSeq' = maxSeq
    BY <1>5 DEF vars, dbVars, seqVars, callVars, histVars
  <2>2. RowsOK' /\ FetchOK'
    BY <1>0, <2>1 DEF CallInv, RowsOK, FetchOK, Cached, Next1
  <2>3. \A k \in CacheKeys : Stale(k)' => Stale(k)
    BY <2>1, DbSame, StaleSame
  <2>4. FreshInv'
    BY <1>0, <2>1, <2>3 DEF FreshInv, Excused
  <2> QED BY <1>0, <2>1, <2>2, <2>4, CallsStill DEF FreshCalls, CallInv
<1> QED BY <1>1, <1>2, <1>3, <1>4, <1>5 DEF Next

(***************************************************************************)
(* Whatever calls run, an entry or a running fetch that differs from its   *)
(* row is one whose deletion some call still owes: it has written the row  *)
(* and comes to ExecDel without a command that could end it (the reads and *)
(* writes of controller/group.go and cache/group.go, in their order).      *)
(***************************************************************************)
THEOREM FreshCallsHold == Spec => []FreshCalls
BY FreshStart, FreshNext, PTL DEF Spec

\* What a call owes it has still to delete, and it has written the row.
LEMMA OwesPending ==
    ASSUME NEW c \in Call, CallOK(c), NEW k, Owes(op[c], todo[c], k)
    PROVE  Pending(c, k)
<1>1. todo[c] # <<>>
  BY DEF Owes
<1>2. todo[c] \in Seq(Commands)
  BY <1>1 DEF CallOK, Plan
<1>3. Has(todo[c], FlushOf(k)) /\ (Head(todo[c]) = FlushOf(k) \/ Passes(op[c], k, Head(todo[c])))
  BY <1>1, <1>2, TailOwes
<1>4. Head(todo[c])[1] # "write" \/ Head(todo[c]) \in {Write("promote"), Write("deleteAll")}
  BY <1>3, Tags DEF Passes, IsWrite
<1> QED BY <1>3, <1>4 DEF Pending, Has, FlushOf

(***************************************************************************)
(* CacheFresh: an entry that differs from its row is about to be deleted   *)
(* by the call that wrote the row, but for the keys of the two calls that  *)
(* skip the deletion, for every number of users and of calls at once.      *)
(***************************************************************************)
THEOREM CacheFreshHolds == Spec => []CacheFresh
<1>1. FreshCalls => CacheFresh
  <2> SUFFICES ASSUME FreshCalls, NEW k \in CacheKeys, Cached(k), entry[k].value # DbValue(k),
                      k \notin abandoned
               PROVE  \E c \in Call : Pending(c, k)
    BY DEF CacheFresh
  <2>1. Stale(k)
    BY DEF Stale
  <2>2. PICK c \in Call : Owes(op[c], todo[c], k)
    BY <2>1 DEF FreshCalls, FreshInv, Excused
  <2> QED BY <2>2, OwesPending DEF FreshCalls, CallInv
<1> QED BY <1>1, FreshCallsHold, PTL

-----------------------------------------------------------------------------
(* Messages of silenced users.                                              *)

\* Beside a barred send nothing is stale.
LEMMA BarredFresh ==
    ASSUME CallInv, FreshInv, BarredInv, barred # {}, abandoned = {}, NEW k \in CacheKeys
    PROVE  ~Stale(k)
<1>1. \A d \in Call : op[d].kind \in {"none", "send"}
  BY DEF BarredInv, BarredOK
<1>2. ASSUME NEW d \in Call PROVE ~Owes(op[d], todo[d], k)
  <2>1. CallOK(d)
    BY DEF CallInv
  <2>2. CASE op[d].kind = "none"
    <3>1. todo[d] = <<>>
      BY <2>1, <2>2, IdleFacts DEF Kinds
    <3> QED BY <3>1 DEF Owes
  <2>3. CASE op[d].kind = "send"
    <3>1. OfKind(op[d], todo[d])
      BY <2>1, <2>3, IdleFacts DEF CallOK, Plan
    <3>2. \A i \in DOMAIN todo[d] : todo[d][i] # FlushOf(k)
      BY <2>3, <3>1, Tags DEF OfKind, IsFlush
    <3> QED BY <3>2 DEF Owes
  <2> QED BY <1>1, <2>2, <2>3
<1> QED BY <1>2 DEF FreshInv, Excused

\* A step of a send.
LEMMA SendMove ==
    ASSUME CallInv, BarredInv, NEW c, op[c].kind = "send", NEW rest, NEW g, Moves(c, rest, g),
           info' = info, member' = member, abandoned' = abandoned,
           c \in barred /\ abandoned = {} /\ rest # <<>> =>
               (Info \in DOMAIN g => g[Info] = info) /\ Member(op[c].by) \notin DOMAIN g
    PROVE  BarredInv'
<1>1. /\ c \in Call /\ val'[c] = NoFetch
      /\ \A d \in Call : d # c => /\ op'[d] = op[d] /\ todo'[d] = todo[d] /\ got'[d] = got[d]
                                  /\ val'[d] = val[d]
      /\ \/ todo'[c] # <<>> /\ op'[c] = op[c] /\ got'[c] = g /\ barred' = barred
         \/ todo'[c] = <<>> /\ op'[c] = NoRequest /\ barred' = barred \ {c}
      /\ todo'[c] = rest \/ rest = <<Decide>>
  BY GoStep DEF Moves, CallInv
<1>2. NoRequest.kind = "none"
  BY DEF NoRequest
<1> SUFFICES ASSUME NEW b \in barred' PROVE BarredOK(b)'
  BY DEF BarredInv
<1>3. b \in barred /\ BarredOK(b) /\ b \in Call
  BY <1>1 DEF BarredInv, BarredOK
<1>4. op'[b] = op[b] /\ (b = c => todo'[c] # <<>> /\ got'[c] = g)
  BY <1>1, <1>3
<1>5. \A d \in Call : op'[d].kind \in {"none", "send"}
  BY <1>1, <1>2, <1>3 DEF BarredOK
<1>6. Silenced(op[b].by)'
  BY <1>3, <1>4 DEF Silenced, BarredOK
<1>7. CASE b = c
  <2>1. rest # <<>>
    BY <1>1, <1>4, <1>7
  <2>2. val'[b].is # "full"
    BY <1>1, <1>7, EntryFacts
  <2> QED BY <1>3, <1>4, <1>5, <1>6, <1>7, <2>1, <2>2 DEF BarredOK
<1>8. CASE b # c
  <2>1. got'[b] = got[b] /\ val'[b] = val[b] /\ todo'[b] = todo[b]
    BY <1>1, <1>3, <1>8
  <2>2. \A k \in CacheKeys : DbValue(k)' = DbValue(k)
    BY DbSame
  <2> QED BY <1>3, <1>4, <1>5, <1>6, <2>1, <2>2 DEF BarredOK
<1> QED BY <1>7, <1>8

\* A send reads what the rows say; a silenced sender's own row ends it.
LEMMA SendRead ==
    ASSUME CallInv, BarredInv, NEW c \in Call, op[c].kind = "send", todo[c] # <<>>,
           NEW v, NEW rest, NEW g, ReadMove(c, v, rest, g),
           info' = info, member' = member, abandoned' = abandoned,
           c \in barred /\ abandoned = {} /\ Head(todo[c]) \in CacheKeys => v = DbValue(Head(todo[c]))
    PROVE  BarredInv'
<1>1. PICK k, o : k = Head(todo[c]) /\ o = op[c]
  OBVIOUS
<1>2. Moves(c, rest, g) /\ g = Put(got[c], k, v) /\ (rest = <<>> \/ Follow(o, g, k) # Error)
  BY <1>1 DEF ReadMove
<1>3. IsRequest(o) /\ o.by \in User
  BY <1>1, <1>2 DEF Moves, IsRequest
<1>4. DOMAIN g = DOMAIN got[c] \cup {k} /\ g[k] = v /\ \A x \in DOMAIN got[c] : x # k => g[x] = got[c][x]
  BY <1>2 DEF Put
<1>5. ASSUME c \in barred, abandoned = {}, rest # <<>>
      PROVE  (Info \in DOMAIN g => g[Info] = info) /\ Member(o.by) \notin DOMAIN g
  <2>1. /\ Info \in DOMAIN got[c] => got[c][Info] = info
        /\ Member(o.by) \notin DOMAIN got[c] /\ Silenced(o.by)
    BY <1>1, <1>5 DEF BarredInv, BarredOK
  <2>2. k \in CacheKeys => v = DbValue(k)
    BY <1>1, <1>5
  <2>3. Info \in DOMAIN g => g[Info] = info
    <3>1. CASE k = Info
      BY <1>4, <2>2, <3>1, DbValues, CommandFacts
    <3>2. CASE k # Info
      BY <1>4, <2>1, <3>2
    <3> QED BY <3>1, <3>2
  <2>4. k # Member(o.by)
    <3> SUFFICES ASSUME k = Member(o.by) PROVE FALSE
      OBVIOUS
    <3>1. Info \in DOMAIN got[c]
      <4>1. CallOK(c)
        BY DEF CallInv
      <4>2. NeedsMet(o, todo[c], got[c]) /\ todo[c] \in Seq(Commands)
        BY <1>1, <4>1 DEF CallOK, Plan
      <4>3. 1 \in DOMAIN todo[c] /\ todo[c][1] = k
        BY <1>1, <4>2, TailFacts
      <4>4. <<Member(o.by), Info>> \in Needs(o)
        BY <1>1 DEF Needs
      <4>5. ReadBefore(todo[c], got[c], Member(o.by), Info)
        BY <4>2, <4>4 DEF NeedsMet
      <4>6. ~\E i \in 1 .. 1 - 1 : todo[c][i] = Info
        OBVIOUS
      <4> QED BY <4>3, <4>5, <4>6 DEF ReadBefore
    <3>2. g[Info] = info /\ g[Member(o.by)] = member[o.by]
      BY <1>3, <1>4, <2>2, <2>3, <3>1, DbValues, CommandFacts
    <3>3. ~MaySend(info, member[o.by])
      BY <2>1 DEF Silenced, MaySend, AtLeastAdmin
    <3>4. Follow(o, g, Member(o.by)) = Error
      BY <1>1, <1>3, <3>2, <3>3, EndsCall
    <3> QED BY <1>2, <1>5, <3>4
  <2> QED BY <1>4, <2>1, <2>3, <2>4
<1> QED BY <1>1, <1>2, <1>5, SendMove

\* The steps of a call never bar a send; only sends run beside one that is.
LEMMA ServeBarred ==
    ASSUME BarredInv, NEW c \in Call, Serve(c), op[c].kind \notin {"none", "send"}
    PROVE  BarredInv'
<1>1. \A rest, g : Go(c, rest, g) => barred' \subseteq barred
  BY DEF Go
<1>2. \A v : Deliver(c, v) => \E rest, g : Go(c, rest, g)
  BY DEF Deliver
<1>3. \A u, row : UpdateRow(c, u, row) => \E rest, g : Go(c, rest, g)
  BY DEF UpdateRow, Done, Failed
<1>4. barred' \subseteq barred
  <2>1. CASE CacheHit(c) \/ FetchStore(c) \/ ReadStored(c)
    BY <1>1, <1>2, <2>1 DEF CacheHit, FetchStore, ReadStored
  <2>2. CASE FetchLock(c) \/ FetchLoad(c)
    BY <2>2 DEF FetchLock, FetchLoad, histVars
  <2>3. CASE FlushKey(c) \/ CreateMember(c) \/ DeleteMember(c) \/ DeleteMembers(c)
    BY <1>1, <2>3 DEF FlushKey, CreateMember, DeleteMember, DeleteMembers, Done, Failed
  <2>4. CASE Demote(c) \/ Promote(c) \/ SetRole(c) \/ SetMuted(c)
    BY <1>1, <1>3, <2>4 DEF Demote, Promote, SetRole, SetMuted
  <2>5. CASE SetStatus(c) \/ SetVerify(c)
    BY <1>1, <2>5 DEF SetStatus, SetVerify, Done
  <2>6. CASE QuietWrite(c)
    BY <1>1, <2>6, QuietFacts
  <2> QED BY <2>1, <2>2, <2>3, <2>4, <2>5, <2>6 DEF Serve, QuietWrite
<1>5. barred = {}
  BY DEF BarredInv, BarredOK
<1> QED BY <1>4, <1>5 DEF BarredInv

LEMMA BarredNext ==
    ASSUME CallInv, FreshInv, BarredInv, [Next]_vars
    PROVE  BarredInv'
<1>1. ASSUME op' = op, todo' = todo, got' = got, val' = val, barred' = barred, abandoned' = abandoned,
             info' = info, member' = member
      PROVE  BarredInv'
  <2>1. \A k \in CacheKeys : DbValue(k)' = DbValue(k)
    BY <1>1, DbSame
  <2> SUFFICES ASSUME NEW b \in barred PROVE BarredOK(b)'
    BY <1>1 DEF BarredInv
  <2>2. BarredOK(b)
    BY DEF BarredInv
  <2>3. Silenced(op[b].by)'
    BY <1>1, <2>2 DEF Silenced, BarredOK
  <2> QED BY <1>1, <2>1, <2>2, <2>3 DEF BarredOK
<1>2. CASE SendMsg \/ UNCHANGED vars \/ \E k \in CacheKeys : Expire(k)
  BY <1>1, <1>2 DEF SendMsg, Expire, vars, dbVars, callVars, histVars
<1>3. ASSUME NEW c \in Call, Start(c) PROVE BarredInv'
  <2>1. PICK o \in ask :
          /\ op' = [op EXCEPT ![c] = o]
          /\ todo' = [todo EXCEPT ![c] = Follow(o, Nothing, Begin)]
          /\ barred' = IF o.kind # "send" THEN {}
                       ELSE IF ~Silenced(o.by)
                               \/ \E d \in Call : op[d].kind \notin {"none", "send"}
                       THEN barred ELSE barred \cup {c}
    BY <1>3 DEF Start
  <2>2. /\ got' = got /\ val' = val /\ abandoned' = abandoned /\ info' = info /\ member' = member
    BY <1>3 DEF Start, dbVars
  <2>3. /\ op[c] = NoRequest /\ got[c] = Nothing /\ val[c] = NoFetch /\ op[c].kind = "none"
    <3>1. CallOK(c)
      BY DEF CallInv
    <3> QED BY <1>3, <3>1, IdleFacts DEF Start, Idle
  <2>4. /\ op'[c] = o /\ \A d \in Call : d # c => op'[d] = op[d] /\ todo'[d] = todo[d]
    BY <2>1 DEF CallInv, RowsOK
  <2>5. \A k \in CacheKeys : DbValue(k)' = DbValue(k)
    BY <2>2, DbSame
  <2> SUFFICES ASSUME NEW b \in barred' PROVE BarredOK(b)'
    BY DEF BarredInv
  <2>6. o.kind = "send"
    BY <2>1
  <2>7. CASE b \in barred
    <3>1. BarredOK(b) /\ b # c
      BY <2>3, <2>7 DEF BarredInv, BarredOK
    <3>2. op'[b] = op[b] /\ todo'[b] = todo[b] /\ \A d \in Call : op'[d].kind \in {"none", "send"}
      BY <2>4, <2>6, <3>1 DEF BarredOK
    <3>3. Silenced(op[b].by)'
      BY <2>2, <3>1, <3>2 DEF Silenced, BarredOK
    <3> QED BY <2>2, <2>5, <3>1, <3>2, <3>3 DEF BarredOK
  <2>8. CASE b \notin barred
    <3>1. b = c /\ Silenced(o.by) /\ \A d \in Call : op[d].kind \in {"none", "send"}
      BY <2>1, <2>8
    <3>2. \A d \in Call : op'[d].kind \in {"none", "send"}
      BY <2>4, <2>6, <3>1
    <3>3. Silenced(op[c].by)'
      BY <2>2, <2>4, <3>1 DEF Silenced
    <3>4. DOMAIN got'[c] = {} /\ val'[c].is # "full"
      BY <2>2, <2>3, EntryFacts DEF Nothing
    <3> QED BY <2>4, <2>6, <3>1, <3>2, <3>3, <3>4 DEF BarredOK
  <2> QED BY <2>7, <2>8
<1>4. ASSUME NEW c \in Call, Serve(c), op[c].kind = "send" PROVE BarredInv'
  <2>0. CallOK(c)
    BY DEF CallInv
  <2>1. CASE CacheHit(c)
    <3>1. PICK rest, g : ReadMove(c, entry[Head(todo[c])].value, rest, g)
      BY <2>1, CacheHitKept
    <3>2. /\ info' = info /\ member' = member /\ abandoned' = abandoned /\ todo[c] # <<>>
          /\ Head(todo[c]) \in CacheKeys /\ Cached(Head(todo[c]))
      BY <2>1 DEF CacheHit, dbVars, Next1
    <3>3. c \in barred /\ abandoned = {} => entry[Head(todo[c])].value = DbValue(Head(todo[c]))
      BY <3>2, BarredFresh DEF Stale
    <3> QED BY <1>4, <3>1, <3>2, <3>3, SendRead
  <2>2. CASE FetchStore(c)
    <3>1. PICK rest, g : ReadMove(c, val[c].value, rest, g)
      BY <2>2, FetchStoreKept
    <3>2. /\ info' = info /\ member' = member /\ abandoned' = abandoned /\ val[c].is = "full"
      BY <2>2 DEF FetchStore, dbVars
    <3>3. todo[c] # <<>>
      BY <1>4, <2>0, IdleFacts
    <3>4. c \in barred /\ abandoned = {} /\ Head(todo[c]) \in CacheKeys => val[c].value = DbValue(Head(todo[c]))
      BY <3>2 DEF BarredInv, BarredOK
    <3> QED BY <1>4, <3>1, <3>2, <3>3, <3>4, SendRead
  <2>3. CASE ReadStored(c)
    <3>1. PICK rest, g : ReadMove(c, DbValue(Head(todo[c])), rest, g)
      BY <2>3, ReadStoredKept
    <3>2. info' = info /\ member' = member /\ abandoned' = abandoned /\ todo[c] # <<>>
      BY <2>3 DEF ReadStored, dbVars
    <3> QED BY <1>4, <3>1, <3>2, SendRead
  <2>4. CASE FetchLock(c) \/ FetchLoad(c)
    <3>1. /\ op' = op /\ todo' = todo /\ got' = got /\ barred' = barred /\ abandoned' = abandoned
          /\ info' = info /\ member' = member
      BY <2>4 DEF FetchLock, FetchLoad, dbVars, histVars
    <3>2. /\ \A d \in Call : d # c => val'[d] = val[d]
          /\ val'[c] = Held(c) \/ val'[c] = Full(DbValue(Head(todo[c])))
      BY <2>4 DEF FetchLock, FetchLoad, CallInv, RowsOK
    <3>3. \A k \in CacheKeys : DbValue(k)' = DbValue(k)
      BY <3>1, DbSame
    <3> SUFFICES ASSUME NEW b \in barred PROVE BarredOK(b)'
      BY <3>1 DEF BarredInv
    <3>4. BarredOK(b)
      BY DEF BarredInv
    <3>5. Silenced(op[b].by)'
      BY <3>1, <3>4 DEF Silenced, BarredOK
    <3>6. ASSUME NEW k \in CacheKeys, val'[b].is = "full", Head(todo[b]) = k, abandoned = {}
          PROVE  val'[b].value = DbValue(k)
      <4>1. CASE b = c
        BY <3>2, <3>6, <4>1, EntryFacts
      <4>2. CASE b # c
        BY <3>2, <3>4, <3>6, <4>2 DEF BarredOK
      <4> QED BY <4>1, <4>2
    <3> QED BY <3>1, <3>3, <3>4, <3>5, <3>6 DEF BarredOK
  <2>5. CASE Queue(c)
    <3>1. /\ At(c, "queue") /\ Go(c, Tail(todo[c]), got[c]) /\ entry' = entry /\ maxSeq' = maxSeq
          /\ info' = info /\ member' = member /\ abandoned' = abandoned
      BY <2>5 DEF Queue, Done, dbVars, seqVars
    <3>2. \A k \in CacheKeys : DbValue(k)' = DbValue(k)
      BY <3>1, DbSame
    <3>3. member' \in [User -> Row]
      BY <3>1 DEF CallInv, RowsOK
    <3>4. Moves(c, Tail(todo[c]), got[c])
      BY <3>1, <3>2, <3>3, WriteKept
    <3>5. c \in barred /\ abandoned = {} =>
             (Info \in DOMAIN got[c] => got[c][Info] = info) /\ Member(op[c].by) \notin DOMAIN got[c]
      BY DEF BarredInv, BarredOK
    <3> QED BY <1>4, <3>1, <3>4, <3>5, SendMove
  <2>6. CASE FlushKey(c) \/ DeleteMembers(c)
    BY <1>4, <2>6, FlushKeyKept, DeleteAllKept
  <2>7. CASE \E w : At(c, w) /\ w # "queue"
    BY <1>4, <2>7, AtFacts
  <2>8. /\ CreateMember(c) \/ DeleteMember(c) \/ Demote(c) \/ Promote(c) \/ SetRole(c) \/ SetMuted(c)
           \/ SetStatus(c) \/ SetVerify(c) => \E w : At(c, w) /\ w # "queue"
    BY DEF CreateMember, DeleteMember, Demote, Promote, SetRole, SetMuted, SetStatus, SetVerify
  <2>9. DelRequest(c) \/ AddRequest(c) \/ Handle(c) \/ PutConversation(c) \/ SetConvMax(c)
           \/ SetUserMin(c) \/ SetHasRead(c) => \E w : At(c, w) /\ w # "queue"
    BY DEF DelRequest, AddRequest, Handle, PutConversation, SetConvMax, SetUserMin, SetHasRead
  <2> QED BY <1>4, <2>1, <2>2, <2>3, <2>4, <2>5, <2>6, <2>7, <2>8, <2>9 DEF Serve
<1>5. ASSUME NEW c \in Call, Serve(c) PROVE BarredInv'
  <2>1. CASE op[c].kind \notin {"none", "send"}
    BY <1>5, <2>1, ServeBarred
  <2>2. CASE op[c].kind = "none"
    <3>1. CallOK(c)
      BY DEF CallInv
    <3>2. todo[c] = <<>> /\ val[c] = NoFetch
      BY <2>2, <3>1, IdleFacts DEF Kinds
    <3>3. ~Serve(c)
      <4>1. NoFetch # Held(c) /\ NoFetch.is # "full"
        BY EntryFacts
      <4> QED BY <3>2, <4>1 DEF Serve, CacheHit, FetchLock, FetchLoad, FetchStore, ReadStored, FlushKey,
             CreateMember, DeleteMember, DeleteMembers, Demote, Promote, SetRole, SetMuted, SetStatus,
             SetVerify, DelRequest, AddRequest, Handle, PutConversation, SetConvMax, SetUserMin,
             SetHasRead, Queue, At, Next1
    <3> QED BY <1>5, <3>3
  <2> QED BY <1>4, <1>5, <2>1, <2>2
<1> QED BY <1>2, <1>3, <1>5 DEF Next

SendInv == FreshCalls /\ BarredInv

LEMMA SendInvHolds == Spec => []SendInv
<1>1. Init => SendInv
  BY FreshStart DEF Init, SendInv, BarredInv
<1>2. SendInv /\ [Next]_vars => SendInv'
  <2> SUFFICES ASSUME SendInv, [Next]_vars PROVE SendInv'
    OBVIOUS
  <2>1. FreshCalls /\ CallInv /\ FreshInv /\ BarredInv
    BY DEF SendInv, FreshCalls
  <2> QED BY <2>1, FreshNext, BarredNext DEF SendInv
<1> QED BY <1>1, <1>2, PTL DEF Spec

(***************************************************************************)
(* SilencedCannotSend: a send that began when the rows forbade it, with no *)
(* other call running then or since, never reaches MsgToMQ: every row that *)
(* messageVerification reads, cached or fetched, is the one in MongoDB.    *)
(***************************************************************************)
THEOREM SilencedCannotSendHolds == Spec => []SilencedCannotSend
<1>1. SendInv => SilencedCannotSend
  <2> SUFFICES ASSUME SendInv, abandoned = {}, NEW c \in barred, At(c, "queue") PROVE FALSE
    BY DEF SilencedCannotSend
  <2>1. BarredOK(c)
    BY DEF SendInv, BarredInv
  <2>2. c \in Call /\ op[c].kind = "send" /\ Member(op[c].by) \notin DOMAIN got[c]
    BY <2>1 DEF BarredOK
  <2>3. \A n \in Needs(op[c]) : n[1] = Write("queue") => n[2] \in DOMAIN got[c]
    BY <2>2, AtFacts DEF SendInv, FreshCalls
  <2>4. <<Write("queue"), Member(op[c].by)>> \in Needs(op[c])
    BY <2>2 DEF Needs
  <2> QED BY <2>2, <2>3, <2>4
<1> QED BY <1>1, SendInvHolds, PTL

-----------------------------------------------------------------------------
(* Joining and leaving.                                                     *)

\* What the writes of a call that has passed its checks are.
LEMMA DecideShape ==
    ASSUME NEW o, IsRequest(o), NEW g, \A n \in Needs(o) : n[1] = Decide => n[2] \in DOMAIN g,
           NEW t, t = Follow(o, g, Decide)
    PROVE  /\ Shape(o, t)
           /\ Has(t, Write("conv")) /\ ~Has(t, Write("create")) =>
                 o.kind = "approve" /\ Member(o.user) \in DOMAIN g /\ g[Member(o.user)] # NoRow
           /\ Has(t, Write("convMax")) => Has(t, Write("delete"))
<1>0. \A w \in Writes : Has(t, Write(w)) <=> w \in WritesOf(t)
  BY DEF WritesOf
<1>1. {"create", "conv", "delete", "convMax"} \subseteq Writes
  BY DEF Writes
<1>2. OfKind(o, t)
  BY DecideReady DEF Ready, Plan
<1>3. CASE o.kind \in {"join", "invite"}
  <2>1. MaxKey \in DOMAIN g
    <3>1. <<Decide, MaxKey>> \in Needs(o)
      BY <1>3 DEF Needs
    <3> QED BY <3>1
  <2>2. Admits(t)
    BY <1>3, <2>1, FollowsJoin, AdmitPlan
  <2>3. /\ WritesOf(t) \subseteq WritesFor(o)
        /\ "conv" \in WritesOf(t) => "create" \in WritesOf(t)
        /\ "convMax" \notin WritesOf(t)
    BY <1>3, <2>2 DEF Admits, WritesFor, AdmitWrites
  <2> QED BY <1>0, <1>1, <1>3, <2>3 DEF Shape
<1>4. CASE o.kind = "approve"
  <2>0. Member(o.user) \in DOMAIN g
    <3>1. <<Decide, Member(o.user)>> \in Needs(o)
      BY <1>4 DEF Needs
    <3> QED BY <3>1
  <2>1. PICK X, Y :
          /\ X = IF g[Member(o.user)] = NoRow
                 THEN <<Write("create")>> \o Flush(<<Member(o.user), Ids>>) ELSE <<>>
          /\ Y = MakeConv(o.user)
    OBVIOUS
  <2>2. t = <<Write("handle")>> \o X \o Y
    BY <1>4, <2>1, FollowsJoin
  <2>3. Y # <<>>
    BY <2>1 DEF MakeConv
  <2>4. X = <<Write("create")>> \o Flush(<<Member(o.user), Ids>>) \/ X = <<>>
    BY <2>1
  <2>5. /\ "create" \in WritesOf(t) <=> X # <<>>
        /\ WritesOf(t) \subseteq {"handle", "create", "conv"}
        /\ \A i \in DOMAIN t : t[i] = Write("handle") => i = 1
    BY <1>4, <2>1, <2>2, <2>3, <2>4, ApprovePlan
  <2>6. Shape(o, t)
    BY <1>0, <1>4, <2>5 DEF Shape, WritesFor
  <2>7. <<Write("create")>> \o Flush(<<Member(o.user), Ids>>) # <<>>
    <3>1. o.user \in User
      BY DEF IsRequest
    <3>2. <<Member(o.user), Ids>> \in Seq(CacheKeys)
      BY <3>1, CommandFacts
    <3>3. WritesOf(<<Write("create")>> \o Flush(<<Member(o.user), Ids>>)) = {"create"}
      BY <1>1, <3>2, WritesBlock
    <3> QED BY <3>3, WritesShort
  <2>8. ~Has(t, Write("create")) => g[Member(o.user)] # NoRow
    BY <1>0, <1>1, <2>1, <2>5, <2>7
  <2>9. ~Has(t, Write("convMax"))
    BY <1>0, <1>1, <2>5
  <2> QED BY <1>4, <2>0, <2>6, <2>8, <2>9
<1>5. CASE o.kind \in LeaveKinds
  <2>1. WritesOf(t) = {"delete", "convMax"}
    BY <1>5, FollowsOthers, LeavePlan
  <2>2. Shape(o, t)
    BY <1>0, <1>5, <2>1 DEF Shape, WritesFor, LeaveKinds
  <2> QED BY <1>0, <1>1, <2>1, <2>2
<1>6. CASE o.kind \notin JoinKinds \cup LeaveKinds
  <2>1. ~Has(t, Write("conv")) /\ ~Has(t, Write("convMax"))
    BY <1>2, <1>6 DEF OfKind
  <2>2. Shape(o, t)
    BY <1>6 DEF Shape, WritesFor, JoinKinds
  <2> QED BY <2>1, <2>2
<1> QED BY <1>3, <1>4, <1>5, <1>6 DEF JoinKinds

\* From t a call goes on with rest: it has no new writes; it has still to do all but the first.
Fewer(t, rest) == \A w : Has(rest, Write(w)) => Has(t, Write(w))
Goes(t, rest)  == \A w : Has(t, Write(w)) => Has(rest, Write(w)) \/ Head(t) = Write(w)

\* What a step of call c is to the calls about u.
LEMMA MoveMarks ==
    ASSUME CallInv, NEW c, NEW rest, NEW g, Moves(c, rest, g), Shape(op[c], todo[c]), todo[c] # <<>>,
           Fewer(todo[c], rest), Goes(todo[c], rest) \/ rest = <<>>,
           op[c].kind = "approve" => ~Has(rest, Write("handle")), NEW u
    PROVE  /\ Shape(op'[c], todo'[c])
           /\ Opening(c, u)' => \/ Opening(c, u) \/ (At(c, "create") /\ op[c].user = u)
                                \/ /\ Serves(c, u, JoinKinds) /\ Member(u) \in DOMAIN g
                                   /\ g[Member(u)] # NoRow
           /\ Closing(c, u)' => Closing(c, u) \/ (At(c, "delete") /\ op[c].user = u)
           /\ Goes(todo[c], rest) =>
                 /\ WillOpen(c, u) /\ ~At(c, "conv") => WillOpen(c, u)'
                 /\ Closing(c, u) /\ ~At(c, "convMax") => Closing(c, u)'
                 /\ Hiding(c, u) /\ ~At(c, "userMin") => Hiding(c, u)'
           /\ \A K \in {JoinKinds, LeaveKinds} : Serves(c, u, K)' => Serves(c, u, K)
           /\ \A k : Owes(op[c], rest, k) => op'[c] = op[c] /\ Owes(op'[c], todo'[c], k)
           /\ \A k : k \in DOMAIN got'[c] => k \in DOMAIN g /\ got'[c][k] = g[k]
           /\ val'[c] = NoFetch /\ c \in Call
           /\ \A d \in Call : d # c => /\ op'[d] = op[d] /\ todo'[d] = todo[d] /\ got'[d] = got[d]
                                       /\ val'[d] = val[d] /\ began'[d] = began[d]
           /\ (op'[c] = op[c] /\ (todo'[c] = rest \/ rest = <<Decide>>)) \/ op'[c] = NoRequest
<1>0. c \in Call /\ IsRequest(op[c]) /\ Ready(op[c], rest, g) /\ RowsOK
  BY DEF Moves, CallInv
<1>1. /\ val'[c] = NoFetch
      /\ \A k : Owes(op[c], rest, k) => Owes(op'[c], todo'[c], k)
      /\ \A d \in Call : d # c => /\ op'[d] = op[d] /\ todo'[d] = todo[d] /\ got'[d] = got[d]
                                  /\ val'[d] = val[d] /\ began'[d] = began[d]
      /\ \/ todo'[c] # <<>> /\ op'[c] = op[c] /\ got'[c] = g
         \/ todo'[c] = <<>> /\ op'[c] = NoRequest /\ got'[c] = Nothing
      /\ \/ todo'[c] = rest
         \/ rest = <<Decide>> /\ todo'[c] = Follow(op[c], g, Decide)
  BY <1>0, GoStep DEF Moves
<1>2. \A w : ~Has(<<Decide>>, Write(w)) /\ ~Has(<<>>, Write(w))
  BY HasShort, Tags
<1>3. NoRequest.kind = "none" /\ "none" \notin JoinKinds \cup LeaveKinds
  BY DEF NoRequest, JoinKinds, LeaveKinds
<1>4. \A k : Owes(op[c], rest, k) => op'[c] = op[c] /\ Owes(op'[c], todo'[c], k)
  BY <1>1 DEF Owes
<1>5. \A k : k \in DOMAIN got'[c] => k \in DOMAIN g /\ got'[c][k] = g[k]
  BY <1>1 DEF Nothing
<1>6. \A K \in {JoinKinds, LeaveKinds} : Serves(c, u, K)' => Serves(c, u, K) /\ op'[c] = op[c]
  BY <1>1, <1>3 DEF Serves
<1>7. ASSUME todo'[c] = Follow(op[c], g, Decide), rest = <<Decide>>
      PROVE  /\ Shape(op[c], todo'[c])
             /\ Has(todo'[c], Write("conv")) /\ ~Has(todo'[c], Write("create")) =>
                   /\ op[c].kind = "approve" /\ Member(op[c].user) \in DOMAIN g
                   /\ g[Member(op[c].user)] # NoRow
             /\ Has(todo'[c], Write("convMax")) => Has(todo'[c], Write("delete"))
  <2>1. \A a \in Needs(op[c]) : a[1] = Decide => a[2] \in DOMAIN g
    <3> SUFFICES ASSUME NEW a \in Needs(op[c]), a[1] = Decide PROVE a[2] \in DOMAIN g
      OBVIOUS
    <3>1. ReadBefore(rest, g, Decide, a[2])
      BY <1>0 DEF Ready, NeedsMet
    <3>2. 1 \in DOMAIN rest /\ rest[1] = Decide /\ ~\E i \in 1 .. 1 - 1 : rest[i] = a[2]
      BY <1>7
    <3> QED BY <3>1, <3>2 DEF ReadBefore
  <2> QED BY <1>0, <1>7, <2>1, DecideShape
<1>8. Shape(op'[c], todo'[c])
  <2>1. CASE op'[c] = NoRequest /\ todo'[c] = <<>>
    BY <1>2, <1>3, <2>1 DEF Shape
  <2>2. CASE op'[c] = op[c] /\ todo'[c] = rest
    <3>1. \A w \in Writes : Has(rest, Write(w)) => w \in WritesFor(op[c])
      BY DEF Fewer, Shape
    <3> QED BY <2>2, <3>1 DEF Shape, Has
  <2>3. CASE op'[c] = op[c] /\ rest = <<Decide>> /\ todo'[c] = Follow(op[c], g, Decide)
    BY <1>7, <2>3
  <2> QED BY <1>1, <2>1, <2>2, <2>3
<1>9. ASSUME Opening(c, u)'
      PROVE  \/ Opening(c, u) \/ (At(c, "create") /\ op[c].user = u)
             \/ Serves(c, u, JoinKinds) /\ Member(u) \in DOMAIN g /\ g[Member(u)] # NoRow
  <2>1. Serves(c, u, JoinKinds) /\ Has(todo'[c], Write("conv")) /\ ~Has(todo'[c], Write("create"))
    BY <1>6, <1>9 DEF Opening
  <2>2. op[c].user = u
    BY <2>1 DEF Serves
  <2>3. CASE todo'[c] = rest
    <3>1. rest # <<>>
      BY <1>2, <2>1, <2>3
    <3>2. Has(todo[c], Write("conv"))
      BY <2>1, <2>3 DEF Fewer
    <3>3. Has(todo[c], Write("create")) => Head(todo[c]) = Write("create")
      BY <2>1, <2>3, <3>1 DEF Goes
    <3> QED BY <2>1, <2>2, <3>2, <3>3 DEF Opening, At
  <2>4. CASE rest = <<Decide>> /\ todo'[c] = Follow(op[c], g, Decide)
    BY <1>7, <2>1, <2>2, <2>4
  <2> QED BY <1>1, <2>3, <2>4
<1>10. ASSUME Closing(c, u)' PROVE Closing(c, u) \/ (At(c, "delete") /\ op[c].user = u)
  <2>1. Serves(c, u, LeaveKinds) /\ Has(todo'[c], Write("convMax")) /\ ~Has(todo'[c], Write("delete"))
    BY <1>6, <1>10 DEF Closing
  <2>2. op[c].user = u
    BY <2>1 DEF Serves
  <2>3. todo'[c] = rest
    BY <1>1, <1>7, <2>1
  <2>4. rest # <<>>
    BY <1>2, <2>1, <2>3
  <2>5. Has(todo[c], Write("convMax"))
    BY <2>1, <2>3 DEF Fewer
  <2>6. Has(todo[c], Write("delete")) => Head(todo[c]) = Write("delete")
    BY <2>1, <2>3, <2>4 DEF Goes
  <2> QED BY <2>1, <2>2, <2>5, <2>6 DEF Closing, At
<1>11. ASSUME Goes(todo[c], rest), NEW w, Has(todo[c], Write(w)), ~At(c, w)
       PROVE  Has(todo'[c], Write(w)) /\ todo'[c] = rest /\ op'[c] = op[c]
  <2>1. Has(rest, Write(w))
    BY <1>11 DEF Goes, At
  <2>2. todo'[c] = rest /\ rest # <<>>
    BY <1>1, <1>2, <2>1
  <2> QED BY <1>1, <2>1, <2>2
<1>12. ASSUME Goes(todo[c], rest)
       PROVE  /\ WillOpen(c, u) /\ ~At(c, "conv") => WillOpen(c, u)'
              /\ Closing(c, u) /\ ~At(c, "convMax") => Closing(c, u)'
              /\ Hiding(c, u) /\ ~At(c, "userMin") => Hiding(c, u)'
  <2>1. ASSUME WillOpen(c, u), ~At(c, "conv") PROVE WillOpen(c, u)'
    <3>1. /\ Serves(c, u, JoinKinds) /\ Has(todo[c], Write("conv"))
          /\ \A w \in {"create", "handle", "addRequest"} : ~Has(todo[c], Write(w))
      BY <2>1 DEF WillOpen, Opening
    <3>2. Has(todo'[c], Write("conv")) /\ todo'[c] = rest /\ op'[c] = op[c]
      BY <1>11, <1>12, <2>1, <3>1
    <3>3. \A w \in {"create", "handle", "addRequest"} : ~Has(todo'[c], Write(w))
      BY <3>1, <3>2 DEF Fewer
    <3>4. Serves(c, u, JoinKinds)'
      BY <3>1, <3>2 DEF Serves
    <3> QED BY <3>2, <3>3, <3>4 DEF WillOpen, Opening
  <2>2. ASSUME Closing(c, u), ~At(c, "convMax") PROVE Closing(c, u)'
    <3>1. /\ Serves(c, u, LeaveKinds) /\ Has(todo[c], Write("convMax")) /\ ~Has(todo[c], Write("delete"))
      BY <2>2 DEF Closing
    <3>2. Has(todo'[c], Write("convMax")) /\ todo'[c] = rest /\ op'[c] = op[c]
      BY <1>11, <1>12, <2>2, <3>1
    <3>3. ~Has(todo'[c], Write("delete"))
      BY <3>1, <3>2 DEF Fewer
    <3>4. Serves(c, u, LeaveKinds)'
      BY <3>1, <3>2 DEF Serves
    <3> QED BY <3>2, <3>3, <3>4 DEF Closing
  <2>3. ASSUME Hiding(c, u), ~At(c, "userMin") PROVE Hiding(c, u)'
    <3>1. /\ Serves(c, u, {"join", "invite"}) /\ Has(todo[c], Write("userMin"))
          /\ \A w \in {"create", "addRequest"} : ~Has(todo[c], Write(w))
      BY <2>3 DEF Hiding
    <3>2. Has(todo'[c], Write("userMin")) /\ todo'[c] = rest /\ op'[c] = op[c]
      BY <1>11, <1>12, <2>3, <3>1
    <3>3. \A w \in {"create", "addRequest"} : ~Has(todo'[c], Write(w))
      BY <3>1, <3>2 DEF Fewer
    <3>4. Serves(c, u, {"join", "invite"})'
      BY <3>1, <3>2 DEF Serves
    <3> QED BY <3>2, <3>3, <3>4 DEF Hiding
  <2> QED BY <2>1, <2>2, <2>3
<1>13. (op'[c] = op[c] /\ (todo'[c] = rest \/ rest = <<Decide>>)) \/ op'[c] = NoRequest
  BY <1>1
<1> QED BY <1>0, <1>1, <1>4, <1>5, <1>6, <1>8, <1>9, <1>10, <1>12, <1>13

\* The first write of joining or of leaving: what comes after it.
LEMMA FirstWrites ==
    ASSUME CallInv, NEW c \in Call, NEW w, At(c, w)
    PROVE  /\ w = "create" => /\ op[c].kind \in JoinKinds /\ Has(Tail(todo[c]), Write("conv"))
                              /\ ~Has(Tail(todo[c]), Write("create"))
                              /\ ~Has(Tail(todo[c]), Write("addRequest"))
                              /\ op[c].kind # "approve" => Has(Tail(todo[c]), Write("userMin"))
           /\ w = "conv" => op[c].kind \in JoinKinds /\ ~Has(todo[c], Write("create"))
           /\ w = "userMin" => op[c].kind \in {"join", "invite"} /\ ~Has(todo[c], Write("create"))
           /\ w = "delete" => /\ op[c].kind \in LeaveKinds /\ Has(Tail(todo[c]), Write("convMax"))
                              /\ ~Has(Tail(todo[c]), Write("delete"))
           /\ w = "convMax" => op[c].kind \in LeaveKinds /\ ~Has(todo[c], Write("delete"))
           /\ Goes(todo[c], Tail(todo[c])) /\ Fewer(todo[c], Tail(todo[c]))
<1>1. PICK o, t, r : o = op[c] /\ t = todo[c] /\ r = Tail(t)
  OBVIOUS
<1>2. t # <<>> /\ Head(t) = Write(w)
  BY <1>1 DEF At
<1>3. Plan(o, t) /\ Has(t, Write(w)) /\ t \in Seq(Commands)
  BY <1>1, AtFacts
<1>4. Ordered(t) /\ Complete(o, t) /\ OfKind(o, t)
  BY <1>3 DEF Plan
<1>5. PICK n \in Nat \ {0} : n = Len(t)
  BY <1>2, <1>3
<1>6. /\ DOMAIN t = 1 .. n /\ t[1] = Write(w)
      /\ DOMAIN r = 1 .. n - 1 /\ r \in Seq(Commands)
      /\ \A i \in 1 .. n - 1 : r[i] = t[i + 1]
  BY <1>1, <1>2, <1>3, <1>5, TailFacts
<1>7. \A v, x : Write(v) = Write(x) => v = x
  BY Tags
<1>8. Goes(t, r) /\ Fewer(t, r)
  BY <1>1, <1>2, <1>3, TailHas DEF Goes, Fewer
<1>9. ASSUME NEW x, NEW Y, x \in Y, Marked(t, x, Y)
      PROVE  /\ Has(r, x) => t[1] \notin Y
             /\ Has(t, x) /\ t[1] \in Y => t[1] = x
  <2>1. ASSUME NEW i \in DOMAIN t, t[i] = x, t[1] \in Y PROVE i = 1
    <3>1. 1 \in DOMAIN t
      BY <1>6
    <3>2. i <= 1
      BY <1>9, <2>1, <3>1 DEF Marked
    <3> QED BY <1>6, <3>2
  <2>2. ASSUME Has(r, x), t[1] \in Y PROVE FALSE
    <3>1. PICK i \in DOMAIN r : r[i] = x
      BY <2>2 DEF Has
    <3>2. i + 1 \in DOMAIN t /\ t[i + 1] = x /\ i + 1 # 1
      BY <1>6, <3>1
    <3> QED BY <2>1, <2>2, <3>2
  <2> QED BY <2>1, <2>2 DEF Has
<1>10. Marked(t, Write("create"), JoinMarks) /\ Marked(t, Write("delete"), LeaveMarks)
  BY <1>4 DEF Ordered
<1>11. /\ w \in {"create", "conv", "userMin", "addRequest"} => t[1] \in JoinMarks
       /\ w \in {"delete", "convMax"} => t[1] \in LeaveMarks
       /\ Write("create") \in JoinMarks /\ Write("delete") \in LeaveMarks
  BY <1>6 DEF JoinMarks, LeaveMarks
<1>12. /\ w \in {"create", "conv", "userMin"} => ~Has(r, Write("create"))
       /\ w \in {"delete", "convMax"} => ~Has(r, Write("delete"))
  BY <1>9, <1>10, <1>11
<1>13. /\ w \in {"conv", "userMin"} => ~Has(t, Write("create"))
       /\ w = "convMax" => ~Has(t, Write("delete"))
  BY <1>2, <1>7, <1>8, <1>12 DEF Goes
<1>14. CASE w = "create"
  <2>1. /\ Has(t, Write("conv")) /\ ~Has(t, Write("addRequest"))
        /\ o.kind # "approve" => Has(t, Write("userMin"))
    BY <1>3, <1>4, <1>14 DEF Complete
  <2>2. /\ Has(r, Write("conv")) /\ ~Has(r, Write("addRequest"))
        /\ o.kind # "approve" => Has(r, Write("userMin"))
    BY <1>2, <1>7, <1>8, <1>14, <2>1 DEF Goes, Fewer
  <2>3. o.kind \in JoinKinds
    BY <1>3, <1>4, <1>14 DEF OfKind
  <2> QED BY <1>1, <1>8, <1>12, <1>14, <2>2, <2>3
<1>15. CASE w = "delete"
  <2>1. Has(r, Write("convMax"))
    BY <1>2, <1>3, <1>4, <1>7, <1>8, <1>15 DEF Goes, Complete
  <2>2. o.kind \in LeaveKinds
    BY <1>3, <1>4, <1>15 DEF OfKind
  <2> QED BY <1>1, <1>8, <1>12, <1>15, <2>1, <2>2
<1>16. CASE w \notin {"create", "delete"}
  <2>1. /\ w = "conv" => o.kind \in JoinKinds
        /\ w = "convMax" => o.kind \in LeaveKinds
        /\ w = "userMin" => o.kind \in {"join", "invite"}
    BY <1>3, <1>4 DEF OfKind
  <2> QED BY <1>1, <1>8, <1>13, <1>16, <2>1
<1> QED BY <1>14, <1>15, <1>16

LEMMA NoBoth == JoinKinds \cap LeaveKinds = {}
BY DEF JoinKinds, LeaveKinds

\* A step of call c, as far as u is concerned, keeps what is said of u.
LEMMA WindowStep ==
    ASSUME CallInv, NEW c, NEW rest, NEW g, Moves(c, rest, g), Shape(op[c], todo[c]), todo[c] # <<>>,
           Fewer(todo[c], rest), Goes(todo[c], rest) \/ rest = <<>>,
           op[c].kind = "approve" => ~Has(rest, Write("handle")),
           NEW u \in User, WindowOf(u),
           ~Goes(todo[c], rest) => ~WillOpen(c, u) /\ ~Closing(c, u),
           \/ member[u] = NoRow <=> member'[u] = NoRow
           \/ At(c, "create") /\ op[c].user = u /\ rest = Tail(todo[c])
           \/ At(c, "delete") /\ op[c].user = u /\ rest = Tail(todo[c]),
           At(c, "create") /\ op[c].user = u => member'[u] # NoRow,
           At(c, "delete") /\ op[c].user = u => member'[u] = NoRow,
           \/ convMax'[u] = convMax[u]
           \/ op[c].user = u /\ (At(c, "conv") \/ At(c, "convMax")),
           At(c, "conv") /\ op[c].user = u => convMax'[u] = 0,
           At(c, "convMax") /\ op[c].user = u => convMax'[u] # 0,
           member[u] = NoRow /\ Ghost(u)' => Ghost(u),
           Ghost(u)' /\ Serves(c, u, LeaveKinds) /\ Owes(op[c], todo[c], Member(u)) =>
               Owes(op[c], rest, Member(u)),
           Serves(c, u, JoinKinds) /\ Member(u) \in DOMAIN g /\ g[Member(u)] # NoRow => member[u] # NoRow
    PROVE  WindowOf(u)'
<1>1. /\ Opening(c, u)' => \/ Opening(c, u) \/ (At(c, "create") /\ op[c].user = u)
                           \/ /\ Serves(c, u, JoinKinds) /\ Member(u) \in DOMAIN g
                              /\ g[Member(u)] # NoRow
      /\ Closing(c, u)' => Closing(c, u) \/ (At(c, "delete") /\ op[c].user = u)
      /\ Goes(todo[c], rest) =>
                 /\ WillOpen(c, u) /\ ~At(c, "conv") => WillOpen(c, u)'
                 /\ Closing(c, u) /\ ~At(c, "convMax") => Closing(c, u)'
      /\ \A K \in {JoinKinds, LeaveKinds} : Serves(c, u, K)' => Serves(c, u, K)
      /\ \A k : Owes(op[c], rest, k) => op'[c] = op[c] /\ Owes(op'[c], todo'[c], k)
      /\ \A k : k \in DOMAIN got'[c] => k \in DOMAIN g /\ got'[c][k] = g[k]
      /\ val'[c] = NoFetch /\ c \in Call
      /\ \A d \in Call : d # c => /\ op'[d] = op[d] /\ todo'[d] = todo[d] /\ got'[d] = got[d]
                                  /\ val'[d] = val[d]
      /\ (op'[c] = op[c] /\ (todo'[c] = rest \/ rest = <<Decide>>)) \/ op'[c] = NoRequest
  BY MoveMarks
<1>2. ASSUME NEW d \in Call, d # c
      PROVE  /\ Opening(d, u)' <=> Opening(d, u)
             /\ WillOpen(d, u)' <=> WillOpen(d, u)
             /\ Closing(d, u)' <=> Closing(d, u)
             /\ \A K : Serves(d, u, K)' <=> Serves(d, u, K)
  BY <1>1, <1>2 DEF Opening, WillOpen, Closing, Serves
<1>3. ASSUME NEW d \in Call, Serves(d, u, JoinKinds), NEW e \in Call, Serves(e, u, LeaveKinds)
      PROVE  FALSE
  BY <1>3 DEF WindowOf, Running, Serves
<1>4. Serves(c, u, JoinKinds) => ~Serves(c, u, LeaveKinds)
  BY <1>1, <1>3
<1>5. ASSUME NEW w, At(c, w), op[c].user = u
      PROVE  /\ w = "create" => Serves(c, u, JoinKinds)
             /\ w = "conv" => Serves(c, u, JoinKinds) /\ Opening(c, u)
             /\ w = "delete" => Serves(c, u, LeaveKinds)
             /\ w = "convMax" => Serves(c, u, LeaveKinds) /\ Closing(c, u)
  <2>1. Has(todo[c], Write(w))
    BY <1>1, <1>5, AtFacts
  <2>2. /\ w = "create" => op[c].kind \in JoinKinds
        /\ w = "conv" => op[c].kind \in JoinKinds /\ ~Has(todo[c], Write("create"))
        /\ w = "delete" => op[c].kind \in LeaveKinds
        /\ w = "convMax" => op[c].kind \in LeaveKinds /\ ~Has(todo[c], Write("delete"))
    BY <1>1, <1>5, FirstWrites
  <2> QED BY <1>5, <2>1, <2>2 DEF Serves, Opening, Closing
<1>6. ASSUME NEW v, NEW w, At(c, v), At(c, w) PROVE v = w
  BY <1>6, Tags DEF At
\* The rows and the limits, by the call that changes them.
<1>7. ASSUME member[u] = NoRow, member'[u] # NoRow
      PROVE  At(c, "create") /\ op[c].user = u /\ rest = Tail(todo[c]) /\ Serves(c, u, JoinKinds)
  BY <1>5, <1>7
<1>8. ASSUME member[u] # NoRow, member'[u] = NoRow
      PROVE  At(c, "delete") /\ op[c].user = u /\ rest = Tail(todo[c]) /\ Serves(c, u, LeaveKinds)
  BY <1>5, <1>8
<1>9. ASSUME NEW w, w = "create" \/ w = "delete", At(c, w), op[c].user = u, rest = Tail(todo[c])
      PROVE  /\ w = "create" => WillOpen(c, u)'
             /\ w = "delete" => Closing(c, u)'
  <2>1. /\ w = "create" => /\ Has(rest, Write("conv")) /\ ~Has(rest, Write("create"))
                           /\ ~Has(rest, Write("addRequest"))
        /\ w = "delete" => Has(rest, Write("convMax")) /\ ~Has(rest, Write("delete"))
    BY <1>1, <1>9, FirstWrites
  <2>2. rest # <<>> /\ rest # <<Decide>>
    <3>1. \A v : ~Has(<<>>, Write(v)) /\ ~Has(<<Decide>>, Write(v))
      BY HasShort, Tags
    <3> QED BY <1>9, <2>1, <3>1
  <2>3. op'[c] = op[c] /\ todo'[c] = rest
    BY <2>2, GoStep DEF Moves, CallInv
  <2>4. ~Has(rest, Write("handle")) \/ w = "delete"
    <3> SUFFICES ASSUME w = "create", op[c].kind # "approve", Has(rest, Write("handle")) PROVE FALSE
      BY <1>9
    <3>1. Has(todo[c], Write("handle")) /\ "handle" \in Writes /\ op[c].kind \in {"join", "invite"}
      BY <1>5, <1>9 DEF Fewer, Writes, Serves, JoinKinds
    <3>2. "handle" \in AdmitWrites
      BY <3>1 DEF Shape, WritesFor
    <3> QED BY <3>2 DEF AdmitWrites
  <2>5. /\ w = "create" => Serves(c, u, JoinKinds)'
        /\ w = "delete" => Serves(c, u, LeaveKinds)'
    BY <1>5, <1>9, <2>3 DEF Serves
  <2> QED BY <1>9, <2>1, <2>3, <2>4, <2>5 DEF WillOpen, Opening, Closing
\* The parts of WindowOf.
<1>11. ~(Running(u, JoinKinds) /\ Running(u, LeaveKinds))'
  <2> SUFFICES ASSUME NEW d \in Call, Serves(d, u, JoinKinds)', NEW e \in Call, Serves(e, u, LeaveKinds)'
               PROVE  FALSE
    BY DEF Running, Serves
  <2> QED BY <1>1, <1>2, <1>3
<1>12. ASSUME member'[u] # NoRow, convMax'[u] # 0 PROVE \E d \in Call : WillOpen(d, u)'
  <2>1. CASE member[u] = NoRow
    BY <1>1, <1>7, <1>9, <1>12, <2>1
  <2>2. CASE member[u] # NoRow /\ convMax[u] # 0
    <3>1. PICK d \in Call : WillOpen(d, u)
      BY <2>2 DEF WindowOf
    <3>2. CASE d = c
      <4>1. op[c].user = u
        BY <3>1, <3>2 DEF WillOpen, Opening, Serves
      <4> QED BY <1>1, <1>12, <3>1, <3>2, <4>1
    <3> QED BY <1>2, <3>1, <3>2
  <2>3. CASE member[u] # NoRow /\ convMax[u] = 0
    <3>1. At(c, "convMax") /\ op[c].user = u
      BY <1>12, <2>3
    <3>2. Closing(c, u)
      BY <1>5, <3>1
    <3> QED BY <1>1, <2>3, <3>2 DEF WindowOf
  <2> QED BY <2>1, <2>2, <2>3
<1>13. ASSUME member'[u] = NoRow, convMax'[u] = 0 PROVE \E d \in Call : Closing(d, u)'
  <2>1. CASE member[u] # NoRow
    BY <1>1, <1>8, <1>9, <1>13, <2>1
  <2>2. CASE member[u] = NoRow /\ convMax[u] = 0
    <3>1. PICK d \in Call : Closing(d, u)
      BY <2>2 DEF WindowOf
    <3>2. CASE d = c
      <4>1. op[c].user = u
        BY <3>1, <3>2 DEF Closing, Serves
      <4> QED BY <1>1, <1>13, <3>1, <3>2, <4>1
    <3> QED BY <1>2, <3>1, <3>2
  <2>3. CASE member[u] = NoRow /\ convMax[u] # 0
    <3>1. At(c, "conv") /\ op[c].user = u
      BY <1>13, <2>3
    <3>2. Opening(c, u)
      BY <1>5, <3>1
    <3> QED BY <1>1, <2>3, <3>2 DEF WindowOf
  <2> QED BY <2>1, <2>2, <2>3
<1>14. ASSUME NEW d \in Call, Opening(d, u)' PROVE member'[u] # NoRow
  <2>0. Serves(d, u, JoinKinds)
    <3>1. Serves(d, u, JoinKinds)'
      BY <1>14 DEF Opening
    <3> QED BY <1>1, <1>2, <3>1
  <2>1. member[u] # NoRow => member'[u] # NoRow
    BY <1>1, <1>3, <1>8, <2>0
  <2>2. Opening(d, u) => member[u] # NoRow
    BY DEF WindowOf
  <2> QED BY <1>1, <1>2, <1>14, <2>1, <2>2
<1>15. ASSUME NEW d \in Call, Closing(d, u)' PROVE member'[u] = NoRow
  <2>0. Serves(d, u, LeaveKinds)
    <3>1. Serves(d, u, LeaveKinds)'
      BY <1>15 DEF Closing
    <3> QED BY <1>1, <1>2, <3>1
  <2>1. member[u] = NoRow => member'[u] = NoRow
    BY <1>1, <1>3, <1>7, <2>0
  <2>2. Closing(d, u) => member[u] = NoRow
    BY DEF WindowOf
  <2> QED BY <1>1, <1>2, <1>15, <2>1, <2>2
<1>16. ASSUME member'[u] = NoRow, Ghost(u)'
       PROVE  \E d \in Call : Serves(d, u, LeaveKinds)' /\ Owes(op'[d], todo'[d], Member(u))
  <2>1. CASE member[u] # NoRow
    <3>1. At(c, "delete") /\ op[c].user = u /\ rest = Tail(todo[c]) /\ Serves(c, u, LeaveKinds)
      BY <1>8, <1>16, <2>1
    <3>2. Plan(op[c], todo[c]) /\ Head(todo[c]) = Write("delete")
      BY <1>1, <3>1, AtFacts DEF At
    <3>3. Member(u) \in Touches(op[c], Head(todo[c]))
      BY <3>1, <3>2, TouchFacts
    <3>4. Owes(op[c], rest, Member(u))
      BY <3>1, <3>2, <3>3, OwesAfter
    <3>5. op'[c] = op[c] /\ Owes(op'[c], todo'[c], Member(u))
      BY <1>1, <3>4
    <3>6. Serves(c, u, LeaveKinds)'
      BY <3>1, <3>5 DEF Serves
    <3> QED BY <1>1, <3>5, <3>6
  <2>2. CASE member[u] = NoRow
    <3>1. PICK d \in Call : Serves(d, u, LeaveKinds) /\ Owes(op[d], todo[d], Member(u))
      BY <1>16, <2>2 DEF WindowOf
    <3>2. CASE d = c
      <4>1. op'[c] = op[c] /\ Owes(op'[c], todo'[c], Member(u))
        BY <1>1, <1>16, <3>1, <3>2
      <4>2. Serves(c, u, LeaveKinds)'
        BY <3>1, <3>2, <4>1 DEF Serves
      <4> QED BY <1>1, <4>1, <4>2
    <3>3. CASE d # c
      <4>1. Serves(d, u, LeaveKinds)' /\ op'[d] = op[d] /\ todo'[d] = todo[d]
        BY <1>1, <1>2, <3>1, <3>3
      <4> QED BY <3>1, <4>1
    <3> QED BY <3>2, <3>3
  <2> QED BY <2>1, <2>2
<1>17. ASSUME NEW d \in Call, Serves(d, u, JoinKinds)'
       PROVE  /\ Member(u) \in DOMAIN got'[d] /\ got'[d][Member(u)] # NoRow => member'[u] # NoRow
              /\ val'[d].is = "full" /\ Head(todo'[d]) = Member(u) /\ val'[d].value # NoRow => member'[u] # NoRow
  <2>0. Serves(d, u, JoinKinds)
    BY <1>1, <1>2, <1>17
  <2>1. member[u] # NoRow => member'[u] # NoRow
    BY <1>1, <1>3, <1>8, <2>0
  <2>2. /\ Member(u) \in DOMAIN got[d] /\ got[d][Member(u)] # NoRow => member[u] # NoRow
        /\ val[d].is = "full" /\ Head(todo[d]) = Member(u) /\ val[d].value # NoRow => member[u] # NoRow
    BY <2>0 DEF WindowOf
  <2>3. CASE d = c
    <3>1. val'[c].is # "full"
      BY <1>1, EntryFacts
    <3> QED BY <1>1, <2>0, <2>1, <2>3, <3>1
  <2>4. CASE d # c
    BY <1>1, <2>1, <2>2, <2>4
  <2> QED BY <2>3, <2>4
<1> QED BY <1>11, <1>12, <1>13, <1>14, <1>15, <1>16, <1>17 DEF WindowOf

LEMMA WindowAll ==
    ASSUME WindowInv, NEW c \in Call, torn \subseteq torn', DOMAIN convMax' = User, Shape(op'[c], todo'[c]),
           \A d \in Call : d # c => op'[d] = op[d] /\ todo'[d] = todo[d],
           \A u \in User \ torn' : WindowOf(u) => WindowOf(u)'
    PROVE  WindowInv'
<1>1. \A d \in Call : Shape(op'[d], todo'[d])
  BY DEF WindowInv
<1>2. \A u \in User \ torn' : WindowOf(u)'
  BY DEF WindowInv
<1> QED BY <1>1, <1>2 DEF WindowInv

\* A call at a write, which it does or which ends it.
LEMMA WriteMoves ==
    ASSUME CallInv, NEW c \in Call, NEW w, At(c, w),
           NEW rest, rest = Tail(todo[c]) \/ rest = <<>>, Go(c, rest, got[c])
    PROVE  /\ Moves(c, rest, got[c]) /\ todo[c] # <<>> /\ val[c] = NoFetch
           /\ Fewer(todo[c], rest) /\ (rest = Tail(todo[c]) => Goes(todo[c], rest))
<1>1. todo[c] # <<>> /\ Head(todo[c]) = Write(w)
  BY DEF At
<1>2. Head(todo[c]) \notin CacheKeys
  BY <1>1, Tags DEF CacheKeys
<1>3. /\ val[c] = NoFetch /\ IsRequest(op[c]) /\ Plan(op[c], todo[c]) /\ NeedsMet(op[c], todo[c], got[c])
      /\ GotOK(op[c], got[c]) /\ todo[c] \in Seq(Commands)
  BY <1>1, <1>2, NoFetchThere DEF Plan
<1>4. Head(todo[c]) \notin Reads
  BY <1>1, ReadTags, Tags DEF IsWrite
<1>5. Ready(op[c], Tail(todo[c]), got[c])
  BY <1>1, <1>3, <1>4, PlanTail, NeedsTail DEF Ready
<1>6. Moves(c, rest, got[c])
  BY <1>3, <1>5, EmptyReady DEF Moves
<1>7. Goes(todo[c], Tail(todo[c])) /\ Fewer(todo[c], Tail(todo[c]))
  BY FirstWrites
<1>8. Fewer(todo[c], <<>>)
  BY DEF Fewer, Has
<1> QED BY <1>1, <1>3, <1>6, <1>7, <1>8

\* An answer to a request begins with its first write.
LEMMA HandleGone ==
    ASSUME NEW o, NEW t \in Seq(Commands), t # <<>>, Shape(o, t), o.kind = "approve"
    PROVE  ~Has(Tail(t), Write("handle"))
<1> SUFFICES ASSUME Has(Tail(t), Write("handle")) PROVE FALSE
  OBVIOUS
<1>1. PICK n \in Nat \ {0} : n = Len(t)
  OBVIOUS
<1>2. PICK r : r = Tail(t)
  OBVIOUS
<1>3. DOMAIN t = 1 .. n /\ DOMAIN r = 1 .. n - 1 /\ \A i \in 1 .. n - 1 : r[i] = t[i + 1]
  BY <1>1, <1>2, TailFacts
<1>4. PICK i \in 1 .. n - 1 : r[i] = Write("handle")
  BY <1>2, <1>3 DEF Has
<1>5. i + 1 \in DOMAIN t /\ t[i + 1] = Write("handle")
  BY <1>3, <1>4
<1>6. i + 1 = 1
  BY <1>5 DEF Shape
<1> QED BY <1>4, <1>6

\* Writes that are none of joining and leaving.
LEMMA KindWrites ==
    ASSUME CallInv, NEW c \in Call, NEW w \in Writes, At(c, w), Shape(op[c], todo[c])
    PROVE  /\ op[c].kind \in LeaveKinds => w \in {"delete", "convMax"}
           /\ op[c].kind \in JoinKinds => w \in AdmitWrites \cup {"handle"}
           /\ op[c].kind \in {"join", "invite"} => w \in AdmitWrites
<1>1. Has(todo[c], Write(w))
  BY AtFacts
<1>2. w \in WritesFor(op[c])
  BY <1>1 DEF Shape
<1> QED BY <1>2 DEF WritesFor, AdmitWrites, JoinKinds, LeaveKinds

LEMMA WindowWrite ==
    ASSUME CallInv, NEW c \in Call, NEW w \in Writes, At(c, w), Shape(op[c], todo[c]),
           NEW rest, rest = Tail(todo[c]) \/ rest = <<>>, Go(c, rest, got[c]), entry' = entry,
           NEW u \in User, WindowOf(u),
           rest # Tail(todo[c]) => w \notin {"delete", "convMax", "userMin", "hasRead", "delRequest"}
                                   /\ (w = "conv" => op[c].user # u),
           w \notin {"create", "delete"} \/ op[c].user # u => (member[u] = NoRow <=> member'[u] = NoRow),
           w = "create" /\ op[c].user = u => /\ member'[u] # NoRow
                                             /\ rest # Tail(todo[c]) => member[u] # NoRow,
           w = "delete" /\ op[c].user = u => member'[u] = NoRow,
           w \notin {"conv", "convMax"} \/ op[c].user # u => convMax'[u] = convMax[u],
           w = "conv" /\ op[c].user = u => convMax'[u] = 0,
           w = "convMax" /\ op[c].user = u => convMax'[u] # 0
    PROVE  WindowOf(u)'
<1>1. /\ Moves(c, rest, got[c]) /\ todo[c] # <<>> /\ val[c] = NoFetch
      /\ Fewer(todo[c], rest) /\ (rest = Tail(todo[c]) => Goes(todo[c], rest))
  BY WriteMoves
<1>2. ASSUME NEW v, At(c, v) PROVE v = w
  BY <1>2, Tags DEF At
<1>3. /\ op[c].kind \in LeaveKinds => w \in {"delete", "convMax"}
      /\ op[c].kind \in JoinKinds => w \in AdmitWrites \cup {"handle"}
  BY KindWrites
<1>4. Has(todo[c], Write(w)) /\ todo[c] \in Seq(Commands) /\ Head(todo[c]) = Write(w)
  BY AtFacts DEF At
<1>5. op[c].kind = "approve" => ~Has(rest, Write("handle"))
  <2>1. ~Has(<<>>, Write("handle"))
    BY DEF Has
  <2> QED BY <1>1, <1>4, <2>1, HandleGone
<1>6. ASSUME ~Goes(todo[c], rest) PROVE ~WillOpen(c, u) /\ ~Closing(c, u)
  <2>1. rest # Tail(todo[c])
    BY <1>1, <1>6
  <2>2. ASSUME WillOpen(c, u) PROVE FALSE
    <3>1. /\ op[c].kind \in JoinKinds /\ op[c].user = u
          /\ ~Has(todo[c], Write("create")) /\ ~Has(todo[c], Write("handle"))
          /\ ~Has(todo[c], Write("addRequest"))
      BY <2>2 DEF WillOpen, Opening, Serves
    <3>2. w \notin {"create", "handle", "addRequest"}
      BY <1>4, <3>1
    <3> QED BY <1>3, <2>1, <3>1, <3>2 DEF AdmitWrites
  <2>3. ASSUME Closing(c, u) PROVE FALSE
    BY <1>3, <2>1, <2>3 DEF Closing, Serves
  <2> QED BY <2>2, <2>3
<1>7. \A d \in Call : val'[d] = val[d]
  BY <1>1, GoStep DEF Moves, CallInv
<1>8. Ghost(u)' => Ghost(u)
  BY <1>7 DEF Ghost, Cached
<1>9. ~(Serves(c, u, LeaveKinds) /\ Owes(op[c], todo[c], Member(u)))
  <2> SUFFICES ASSUME op[c].kind \in LeaveKinds, Owes(op[c], todo[c], Member(u)) PROVE FALSE
    BY DEF Serves
  <2>1. Write(w) = FlushOf(Member(u)) \/ Passes(op[c], Member(u), Write(w))
    BY <1>1, <1>4, TailOwes
  <2>2. IsWrite(Write(w)) /\ Write(w) # FlushOf(Member(u))
    BY Tags DEF IsWrite
  <2>3. w \in {"deleteAll", "promote"}
    BY <2>1, <2>2, Tags DEF Passes
  <2> QED BY <1>3, <2>3
<1>10. Serves(c, u, JoinKinds) /\ Member(u) \in DOMAIN got[c] /\ got[c][Member(u)] # NoRow => member[u] # NoRow
  BY DEF WindowOf
<1>11. /\ \/ member[u] = NoRow <=> member'[u] = NoRow
          \/ At(c, "create") /\ op[c].user = u /\ rest = Tail(todo[c])
          \/ At(c, "delete") /\ op[c].user = u /\ rest = Tail(todo[c])
       /\ At(c, "create") /\ op[c].user = u => member'[u] # NoRow
       /\ At(c, "delete") /\ op[c].user = u => member'[u] = NoRow
  BY <1>2
<1>12. /\ \/ convMax'[u] = convMax[u]
          \/ op[c].user = u /\ (At(c, "conv") \/ At(c, "convMax"))
       /\ At(c, "conv") /\ op[c].user = u => convMax'[u] = 0
       /\ At(c, "convMax") /\ op[c].user = u => convMax'[u] # 0
  BY <1>2
<1> QED BY <1>1, <1>5, <1>6, <1>8, <1>9, <1>10, <1>11, <1>12, WindowStep

LEMMA ShapeWrite ==
    ASSUME CallInv, NEW c \in Call, NEW w \in Writes, At(c, w), Shape(op[c], todo[c]),
           NEW rest, rest = Tail(todo[c]) \/ rest = <<>>, Go(c, rest, got[c])
    PROVE  /\ Shape(op'[c], todo'[c])
           /\ \A d \in Call : d # c => op'[d] = op[d] /\ todo'[d] = todo[d]
<1>1. /\ Moves(c, rest, got[c]) /\ todo[c] # <<>> /\ val[c] = NoFetch
      /\ Fewer(todo[c], rest) /\ (rest = Tail(todo[c]) => Goes(todo[c], rest))
  BY WriteMoves
<1>2. todo[c] \in Seq(Commands)
  BY AtFacts
<1>3. op[c].kind = "approve" => ~Has(rest, Write("handle"))
  <2>1. ~Has(<<>>, Write("handle"))
    BY DEF Has
  <2> QED BY <1>1, <1>2, <2>1, HandleGone
<1> QED BY <1>1, <1>3, MoveMarks

\* A write that is neither of joining nor of leaving.
LEMMA WindowPlain ==
    ASSUME CallInv, WindowInv, NEW c \in Call, NEW w \in Writes, At(c, w),
           w \notin {"create", "delete", "conv", "convMax"},
           NEW rest, rest = Tail(todo[c]) \/ rest = <<>>, Go(c, rest, got[c]), entry' = entry,
           rest # Tail(todo[c]) => w \notin {"userMin", "hasRead", "delRequest"},
           RowsStay, convMax' = convMax, torn' = torn
    PROVE  WindowInv'
<1>1. Shape(op[c], todo[c]) /\ DOMAIN convMax' = User
  BY DEF WindowInv
<1>2. /\ Shape(op'[c], todo'[c])
      /\ \A d \in Call : d # c => op'[d] = op[d] /\ todo'[d] = todo[d]
  BY <1>1, ShapeWrite
<1>3. ASSUME NEW u \in User, WindowOf(u) PROVE WindowOf(u)'
  <2>1. member[u] = NoRow <=> member'[u] = NoRow
    BY DEF RowsStay
  <2> QED BY <1>1, <1>3, <2>1, WindowWrite
<1> QED BY <1>1, <1>2, <1>3, WindowAll

LEMMA WindowRows ==
    ASSUME CallInv, FreshInv, WindowInv, NEW c \in Call,
           Demote(c) \/ Promote(c) \/ SetRole(c) \/ SetMuted(c)
    PROVE  WindowInv'
<1>1. /\ entry' = entry /\ convMax' = convMax /\ torn' = torn
      /\ \E w \in {"demote", "promote", "setRole", "setMuted"} : At(c, w)
      /\ \E u, row : UpdateRow(c, u, row)
  BY DEF Demote, Promote, SetRole, SetMuted, seqVars
<1>2. PICK w \in {"demote", "promote", "setRole", "setMuted"} : At(c, w)
  BY <1>1
<1>3. PICK rest : (rest = Tail(todo[c]) \/ rest = <<>>) /\ Go(c, rest, got[c])
  BY <1>1 DEF UpdateRow, Done, Failed
<1>4. RowsStay
  BY DemoteKept, PromoteKept, SetRoleKept, SetMutedKept
<1>5. w \in Writes
  BY DEF Writes
<1> QED BY <1>1, <1>2, <1>3, <1>4, <1>5, WindowPlain

LEMMA WindowOthers ==
    ASSUME CallInv, WindowInv, NEW c \in Call,
           \/ SetStatus(c) \/ SetVerify(c) \/ DelRequest(c) \/ AddRequest(c) \/ Handle(c)
           \/ SetUserMin(c) \/ SetHasRead(c) \/ Queue(c)
    PROVE  WindowInv'
<1>1. /\ entry' = entry /\ convMax' = convMax /\ torn' = torn /\ member' = member
  BY DEF SetStatus, SetVerify, DelRequest, AddRequest, Handle, SetUserMin, SetHasRead, Queue, seqVars, dbVars
<1>2. RowsStay
  BY <1>1 DEF RowsStay
<1>3. CASE \E w \in {"addRequest", "handle"} : At(c, w) /\ (AddRequest(c) \/ Handle(c))
  <2>1. PICK w \in {"addRequest", "handle"} : At(c, w) /\ (AddRequest(c) \/ Handle(c))
    BY <1>3
  <2>2. PICK rest : (rest = Tail(todo[c]) \/ rest = <<>>) /\ Go(c, rest, got[c])
    BY <2>1 DEF AddRequest, Handle, Done, Failed
  <2>3. w \in Writes
    BY DEF Writes
  <2> QED BY <1>1, <1>2, <2>1, <2>2, <2>3, WindowPlain
<1>4. CASE \E w \in {"setStatus", "setVerify", "delRequest", "userMin", "hasRead", "queue"} : At(c, w) /\ Done(c)
  <2>1. PICK w \in {"setStatus", "setVerify", "delRequest", "userMin", "hasRead", "queue"} : At(c, w) /\ Done(c)
    BY <1>4
  <2>2. w \in Writes /\ Go(c, Tail(todo[c]), got[c])
    BY <2>1 DEF Writes, Done
  <2> QED BY <1>1, <1>2, <2>1, <2>2, WindowPlain
<1> QED BY <1>3, <1>4 DEF SetStatus, SetVerify, DelRequest, AddRequest, Handle, SetUserMin, SetHasRead, Queue

LEMMA WindowCreate ==
    ASSUME CallInv, WindowInv, NEW c \in Call, CreateMember(c)
    PROVE  WindowInv'
<1>1. /\ At(c, "create") /\ "create" \in Writes /\ entry' = entry /\ convMax' = convMax /\ torn' = torn
      /\ Shape(op[c], todo[c]) /\ DOMAIN convMax' = User /\ op[c].user \in User /\ member \in [User -> Row]
  BY AtFacts DEF CreateMember, seqVars, Writes, WindowInv, CallInv, RowsOK
<1>2. PICK rest : /\ rest = Tail(todo[c]) \/ rest = <<>>
                  /\ Go(c, rest, got[c])
                  /\ member'[op[c].user] # NoRow
                  /\ rest # Tail(todo[c]) => member[op[c].user] # NoRow
                  /\ \A u \in User : u # op[c].user => member'[u] = member[u]
  <2>1. CASE member[op[c].user] # NoRow
    <3>1. Go(c, <<>>, got[c]) /\ member' = member
      BY <2>1 DEF CreateMember, Failed
    <3> QED BY <2>1, <3>1
  <2>2. CASE member[op[c].user] = NoRow
    <3>1. PICK row : row = [role |-> "ordinary", muted |-> FALSE]
      OBVIOUS
    <3>2. Go(c, Tail(todo[c]), got[c]) /\ member' = [member EXCEPT ![op[c].user] = row]
      BY <2>2, <3>1 DEF CreateMember, Done
    <3>3. row # NoRow
      BY <3>1, RowFacts DEF Roles
    <3>4. /\ member'[op[c].user] # NoRow
          /\ \A u \in User : u # op[c].user => member'[u] = member[u]
      BY <1>1, <3>2, <3>3
    <3> QED BY <3>2, <3>4
  <2> QED BY <2>1, <2>2
<1>3. /\ Shape(op'[c], todo'[c])
      /\ \A d \in Call : d # c => op'[d] = op[d] /\ todo'[d] = todo[d]
  BY <1>1, <1>2, ShapeWrite
<1>4. ASSUME NEW u \in User, WindowOf(u) PROVE WindowOf(u)'
  BY <1>1, <1>2, <1>4, WindowWrite
<1> QED BY <1>1, <1>3, <1>4, WindowAll

LEMMA WindowDelete ==
    ASSUME CallInv, WindowInv, NEW c \in Call, DeleteMember(c)
    PROVE  WindowInv'
<1>1. /\ At(c, "delete") /\ "delete" \in Writes /\ entry' = entry /\ convMax' = convMax /\ torn' = torn
      /\ Shape(op[c], todo[c]) /\ DOMAIN convMax' = User /\ op[c].user \in User /\ member \in [User -> Row]
      /\ Go(c, Tail(todo[c]), got[c]) /\ member' = [member EXCEPT ![op[c].user] = NoRow]
  BY AtFacts DEF DeleteMember, Done, seqVars, Writes, WindowInv, CallInv, RowsOK
<1>2. /\ member'[op[c].user] = NoRow
      /\ \A u \in User : u # op[c].user => member'[u] = member[u]
  BY <1>1
<1>3. /\ Shape(op'[c], todo'[c])
      /\ \A d \in Call : d # c => op'[d] = op[d] /\ todo'[d] = todo[d]
  BY <1>1, ShapeWrite
<1>4. ASSUME NEW u \in User, WindowOf(u) PROVE WindowOf(u)'
  BY <1>1, <1>2, <1>4, WindowWrite
<1> QED BY <1>1, <1>3, <1>4, WindowAll

LEMMA WindowConv ==
    ASSUME CallInv, WindowInv, NEW c \in Call, PutConversation(c)
    PROVE  WindowInv'
<1>1. /\ At(c, "conv") /\ "conv" \in Writes /\ entry' = entry /\ member' = member
      /\ Shape(op[c], todo[c]) /\ DOMAIN convMax = User /\ op[c].user \in User
  BY AtFacts DEF PutConversation, dbVars, Writes, WindowInv
<1>2. PICK rest : /\ rest = Tail(todo[c]) \/ rest = <<>>
                  /\ Go(c, rest, got[c]) /\ DOMAIN convMax' = User
                  /\ \A u \in User : u # op[c].user => convMax'[u] = convMax[u]
                  /\ \/ torn' = torn /\ convMax'[op[c].user] = 0 /\ rest = Tail(todo[c])
                     \/ torn' = torn \cup {op[c].user}
  <2>1. CASE Failed(c) /\ torn' = torn \cup {op[c].user} /\ convMax' = convMax
    BY <1>1, <2>1 DEF Failed
  <2>2. CASE Done(c) /\ torn' = torn /\ convMax' = [convMax EXCEPT ![op[c].user] = 0]
    BY <1>1, <2>2 DEF Done
  <2> QED BY <2>1, <2>2 DEF PutConversation, LiftLimit
<1>3. /\ Shape(op'[c], todo'[c])
      /\ \A d \in Call : d # c => op'[d] = op[d] /\ todo'[d] = todo[d]
  BY <1>1, <1>2, ShapeWrite
<1>4. ASSUME NEW u \in User \ torn', WindowOf(u) PROVE WindowOf(u)'
  BY <1>1, <1>2, <1>4, WindowWrite
<1>5. torn \subseteq torn'
  BY <1>2
<1> QED BY <1>2, <1>3, <1>4, <1>5, WindowAll

LEMMA WindowConvMax ==
    ASSUME CallInv, WindowInv, NEW c \in Call, SetConvMax(c)
    PROVE  WindowInv'
<1>1. /\ At(c, "convMax") /\ "convMax" \in Writes /\ entry' = entry /\ member' = member /\ torn' = torn
      /\ Shape(op[c], todo[c]) /\ DOMAIN convMax = User /\ op[c].user \in User /\ GotOK(op[c], got[c])
      /\ Go(c, Tail(todo[c]), got[c])
      /\ convMax' = [convMax EXCEPT ![op[c].user] = IF @ = -1 THEN @ ELSE got[c][MaxKey]]
  BY AtFacts DEF SetConvMax, dbVars, Writes, WindowInv, Done
<1>2. got[c][MaxKey] \in Nat \ {0}
  <2>1. <<Write("convMax"), MaxKey>> \in Needs(op[c])
    BY DEF Needs
  <2>2. MaxKey \in DOMAIN got[c]
    BY <1>1, <2>1, AtFacts
  <2>3. MaxKey \in Typed /\ MaxKey \notin {Ids, Owners}
    BY Tags DEF Typed
  <2> QED BY <1>1, <2>2, <2>3 DEF GotOK, ValueOf
<1>3. /\ convMax'[op[c].user] # 0 /\ DOMAIN convMax' = User
      /\ \A u \in User : u # op[c].user => convMax'[u] = convMax[u]
  BY <1>1, <1>2
<1>4. /\ Shape(op'[c], todo'[c])
      /\ \A d \in Call : d # c => op'[d] = op[d] /\ todo'[d] = todo[d]
  BY <1>1, ShapeWrite
<1>5. ASSUME NEW u \in User, WindowOf(u) PROVE WindowOf(u)'
  BY <1>1, <1>3, <1>5, WindowWrite
<1> QED BY <1>1, <1>3, <1>4, <1>5, WindowAll

LEMMA WindowDeleteAll ==
    ASSUME CallInv, FreshInv, WindowInv, NEW c \in Call, DeleteMembers(c)
    PROVE  WindowInv'
<1>1. /\ At(c, "deleteAll") /\ "deleteAll" \in Writes /\ entry' = entry /\ convMax' = convMax
      /\ torn' = torn \cup { u \in User : member[u] # NoRow } /\ member' = [u \in User |-> NoRow]
      /\ Shape(op[c], todo[c]) /\ DOMAIN convMax' = User
  BY DEF DeleteMembers, seqVars, Writes, WindowInv
<1>2. PICK rest : /\ Moves(c, rest, got[c])
                  /\ \A w : Has(rest, Write(w)) <=> Has(Tail(todo[c]), Write(w))
  BY DeleteAllKept
<1>3. /\ Goes(todo[c], Tail(todo[c])) /\ Fewer(todo[c], Tail(todo[c]))
      /\ todo[c] # <<>> /\ todo[c] \in Seq(Commands) /\ val[c] = NoFetch
  <2>1. todo[c] # <<>> /\ Head(todo[c]) \notin CacheKeys
    BY <1>1, Tags DEF At, CacheKeys
  <2> QED BY <1>1, <2>1, FirstWrites, AtFacts, NoFetchThere
<1>4. Goes(todo[c], rest) /\ Fewer(todo[c], rest)
  BY <1>2, <1>3 DEF Goes, Fewer
<1>5. op[c].kind \notin JoinKinds \cup LeaveKinds
  <2>1. "deleteAll" \notin AdmitWrites \cup {"handle"} /\ "deleteAll" \notin {"delete", "convMax"}
    BY DEF AdmitWrites
  <2> QED BY <1>1, <2>1, KindWrites
<1>6. op[c].kind # "approve"
  BY <1>5 DEF JoinKinds
<1>7. /\ Shape(op'[c], todo'[c])
      /\ \A d \in Call : d # c => op'[d] = op[d] /\ todo'[d] = todo[d]
      /\ \A d \in Call : val'[d] = val[d]
  BY <1>1, <1>2, <1>3, <1>4, <1>6, MoveMarks
<1>8. ASSUME NEW u \in User \ torn', WindowOf(u) PROVE WindowOf(u)'
  <2>1. member[u] = NoRow /\ member'[u] = NoRow /\ convMax'[u] = convMax[u]
    BY <1>1
  <2>2. \A w : At(c, w) => w = "deleteAll"
    BY <1>1, Tags DEF At
  <2>3. Ghost(u)' => Ghost(u)
    BY <1>1, <1>7 DEF Ghost, Cached
  <2>4. ~Serves(c, u, JoinKinds) /\ ~Serves(c, u, LeaveKinds)
    BY <1>5 DEF Serves
  <2> QED BY <1>1, <1>2, <1>3, <1>4, <1>6, <1>8, <2>1, <2>2, <2>3, <2>4, WindowStep
<1>9. torn \subseteq torn'
  BY <1>1
<1> QED BY <1>1, <1>7, <1>8, <1>9, WindowAll

\* A command that writes nothing.
LEMMA TailGoes ==
    ASSUME NEW t \in Seq(Commands), t # <<>>
    PROVE  Goes(t, Tail(t)) /\ Fewer(t, Tail(t))
BY TailHas DEF Goes, Fewer

LEMMA WindowFlush ==
    ASSUME CallInv, FreshInv, WindowInv, NEW c \in Call, FlushKey(c)
    PROVE  WindowInv'
<1>1. /\ member' = member /\ convMax' = convMax /\ torn' = torn /\ todo[c] # <<>>
      /\ Shape(op[c], todo[c]) /\ DOMAIN convMax' = User
  BY DEF FlushKey, dbVars, seqVars, WindowInv
<1>2. PICK k \in CacheKeys : /\ Head(todo[c]) = FlushOf(k) /\ entry'[k] = Absent
                             /\ \A x \in CacheKeys : x # k => entry'[x] = entry[x]
  BY FlushKeyKept
<1>3. Moves(c, Tail(todo[c]), got[c])
  BY FlushKeyKept
<1>4. Plan(op[c], todo[c]) /\ todo[c] \in Seq(Commands) /\ val[c] = NoFetch
  <2>1. Head(todo[c]) \notin CacheKeys
    BY <1>2, Tags DEF CacheKeys
  <2> QED BY <1>1, <2>1, NoFetchThere DEF Plan
<1>5. Goes(todo[c], Tail(todo[c])) /\ Fewer(todo[c], Tail(todo[c]))
  BY <1>1, <1>4, TailGoes
<1>6. op[c].kind = "approve" => ~Has(Tail(todo[c]), Write("handle"))
  BY <1>1, <1>4, HandleGone
<1>7. /\ Shape(op'[c], todo'[c])
      /\ \A d \in Call : d # c => op'[d] = op[d] /\ todo'[d] = todo[d]
      /\ \A d \in Call : val'[d] = val[d]
  BY <1>1, <1>3, <1>4, <1>5, <1>6, MoveMarks
<1>8. ASSUME NEW u \in User, WindowOf(u) PROVE WindowOf(u)'
  <2>1. \A w : ~At(c, w)
    BY <1>2, Tags DEF At
  <2>2. Member(u) \in CacheKeys
    BY DEF CacheKeys
  <2>3. Ghost(u)' => k # Member(u)
    BY <1>2, EntryFacts DEF Ghost, Cached
  <2>4. Ghost(u)' => Ghost(u)
    BY <1>2, <1>7, <2>2, <2>3 DEF Ghost, Cached
  <2>5. ASSUME Ghost(u)', Owes(op[c], todo[c], Member(u)) PROVE Owes(op[c], Tail(todo[c]), Member(u))
    <3>1. Head(todo[c]) # FlushOf(Member(u))
      BY <1>2, <2>3, <2>5, Tags
    <3> QED BY <1>1, <1>4, <2>5, <3>1, TailOwes
  <2>6. Serves(c, u, JoinKinds) /\ Member(u) \in DOMAIN got[c] /\ got[c][Member(u)] # NoRow => member[u] # NoRow
    BY <1>8 DEF WindowOf
  <2> QED BY <1>1, <1>3, <1>5, <1>6, <1>8, <2>1, <2>4, <2>5, <2>6, WindowStep
<1> QED BY <1>1, <1>7, <1>8, WindowAll

LEMMA WindowRead ==
    ASSUME CallInv, WindowInv, NEW c \in Call, todo[c] # <<>>, Head(todo[c]) \in Reads,
           NEW v, NEW rest, NEW g, ReadMove(c, v, rest, g),
           member' = member, convMax' = convMax, torn' = torn,
           \A u \in User : member[u] = NoRow /\ Ghost(u)' => Ghost(u),
           \A u \in User : WindowOf(u) /\ Serves(c, u, JoinKinds) /\ Head(todo[c]) = Member(u) /\ v # NoRow =>
               member[u] # NoRow
    PROVE  WindowInv'
<1>1. Shape(op[c], todo[c]) /\ DOMAIN convMax' = User
  BY DEF WindowInv
<1>2. /\ Moves(c, rest, g) /\ g = Put(got[c], Head(todo[c]), v)
      /\ rest = Tail(todo[c]) \/ (ReadsOnly(todo[c]) /\ ReadsOnly(rest))
      /\ \A k : Owes(op[c], todo[c], k) => Owes(op[c], rest, k)
  BY DEF ReadMove
<1>3. todo[c] \in Seq(Commands)
  <2>1. CallOK(c)
    BY DEF CallInv
  <2> QED BY <2>1 DEF CallOK, Plan
<1>4. /\ Goes(todo[c], rest) /\ Fewer(todo[c], rest)
      /\ op[c].kind = "approve" => ~Has(rest, Write("handle"))
  <2>1. CASE rest = Tail(todo[c])
    BY <1>1, <1>3, <2>1, TailGoes, HandleGone
  <2>2. CASE ReadsOnly(todo[c]) /\ ReadsOnly(rest)
    <3>1. \A w : ~Has(todo[c], Write(w)) /\ ~Has(rest, Write(w))
      BY <2>2, ReadsOnlyMarks, Tags DEF IsWrite
    <3> QED BY <3>1 DEF Goes, Fewer
  <2> QED BY <1>2, <2>1, <2>2
<1>5. /\ Shape(op'[c], todo'[c])
      /\ \A d \in Call : d # c => op'[d] = op[d] /\ todo'[d] = todo[d]
  BY <1>1, <1>2, <1>4, MoveMarks
<1>6. ASSUME NEW u \in User, WindowOf(u) PROVE WindowOf(u)'
  <2>1. \A w : ~At(c, w)
    BY ReadTags, Tags DEF At, IsWrite
  <2>2. ASSUME Serves(c, u, JoinKinds), Member(u) \in DOMAIN g, g[Member(u)] # NoRow PROVE member[u] # NoRow
    <3>1. CASE Head(todo[c]) = Member(u)
      BY <1>2, <1>6, <2>2, <3>1 DEF Put
    <3>2. CASE Head(todo[c]) # Member(u)
      <4>1. Member(u) \in DOMAIN got[c] /\ got[c][Member(u)] # NoRow
        BY <1>2, <2>2, <3>2 DEF Put
      <4> QED BY <1>6, <2>2, <4>1 DEF WindowOf
    <3> QED BY <3>1, <3>2
  <2> QED BY <1>1, <1>2, <1>4, <1>6, <2>1, <2>2, WindowStep
<1> QED BY <1>1, <1>5, <1>6, WindowAll

LEMMA WindowReads ==
    ASSUME CallInv, FreshInv, WindowInv, NEW c \in Call, CacheHit(c) \/ FetchStore(c) \/ ReadStored(c)
    PROVE  WindowInv'
<1>1. member' = member /\ convMax' = convMax /\ torn' = torn
  BY DEF CacheHit, FetchStore, ReadStored, dbVars, seqVars
<1>3. CASE CacheHit(c)
  <2>1. PICK rest, g : ReadMove(c, entry[Head(todo[c])].value, rest, g)
    BY <1>3, CacheHitKept
  <2>2. todo[c] # <<>> /\ Head(todo[c]) \in CacheKeys /\ Cached(Head(todo[c])) /\ entry' = entry /\ val[c] = NoFetch
    BY <1>3 DEF CacheHit, Next1
  <2>3. \A d \in Call : val'[d] = val[d]
    BY <2>1, <2>2, GoStep DEF ReadMove, Moves, CallInv
  <2>4. \A u \in User : Ghost(u)' => Ghost(u)
    BY <2>2, <2>3 DEF Ghost, Cached
  <2>5. ASSUME NEW u \in User, WindowOf(u), Serves(c, u, JoinKinds), Head(todo[c]) = Member(u),
               entry[Head(todo[c])].value # NoRow, member[u] = NoRow
        PROVE  FALSE
    <3>1. Ghost(u)
      BY <2>2, <2>5 DEF Ghost
    <3>2. \E d \in Call : Serves(d, u, LeaveKinds)
      BY <2>5, <3>1 DEF WindowOf
    <3> QED BY <2>5, <3>2 DEF WindowOf, Running, Serves
  <2>6. Head(todo[c]) \in Reads
    BY <2>2, CommandFacts
  <2> QED BY <1>1, <2>1, <2>2, <2>4, <2>5, <2>6, WindowRead
<1>4. CASE FetchStore(c)
  <2>1. PICK rest, g : ReadMove(c, val[c].value, rest, g)
    BY <1>4, FetchStoreKept
  <2>2. PICK k : k \in CacheKeys /\ k = Head(todo[c])
    BY <1>4, EntryFacts DEF FetchStore, CallInv, FetchOK, Next1
  <2>3. /\ todo[c] # <<>> /\ val[c].is = "full" /\ DOMAIN entry = CacheKeys
        /\ entry' = [entry EXCEPT ![k] = IF @ = Held(c) THEN Stored(k, val[c].value) ELSE @]
    BY <1>4, <2>2, EntryFacts DEF FetchStore, StoreIfHeld, CallInv, RowsOK, FetchOK, Next1
  <2>4. /\ val'[c] = NoFetch
        /\ \A d \in Call : d # c => val'[d] = val[d]
    BY <2>1, GoStep DEF ReadMove, Moves, CallInv
  <2>5. Stored(k, val[c].value) = Absent \/ Stored(k, val[c].value) = Full(val[c].value)
    BY DEF Stored
  <2>6. ASSUME NEW u \in User, Ghost(u)' PROVE Ghost(u)
    <3>1. Member(u) \in CacheKeys
      BY DEF CacheKeys
    <3>2. CASE entry'[Member(u)] = entry[Member(u)]
      BY <2>4, <2>6, <3>2, EntryFacts DEF Ghost, Cached
    <3>3. CASE entry'[Member(u)] # entry[Member(u)]
      <4>1. /\ entry[Member(u)] = Held(c)
            /\ entry'[Member(u)] = Absent \/ entry'[Member(u)] = Full(val[c].value)
        BY <2>2, <2>3, <2>5, <3>1, <3>3
      <4>2. entry'[Member(u)].is = "full" /\ entry'[Member(u)].value # NoRow
        BY <2>6, <4>1, EntryFacts DEF Ghost, Cached
      <4>3. val[c].value # NoRow
        BY <4>1, <4>2, EntryFacts
      <4> QED BY <2>3, <4>1, <4>3 DEF Ghost
    <3> QED BY <3>2, <3>3
  <2>7. \A u \in User : WindowOf(u) /\ Serves(c, u, JoinKinds) /\ Head(todo[c]) = Member(u) /\ val[c].value # NoRow =>
               member[u] # NoRow
    BY <2>3 DEF WindowOf
  <2>8. Head(todo[c]) \in Reads
    BY <2>2, CommandFacts
  <2> QED BY <1>1, <2>1, <2>3, <2>6, <2>7, <2>8, WindowRead
<1>5. CASE ReadStored(c)
  <2>1. PICK rest, g : ReadMove(c, DbValue(Head(todo[c])), rest, g)
    BY <1>5, ReadStoredKept
  <2>2. /\ todo[c] # <<>> /\ Head(todo[c]) \notin CacheKeys /\ entry' = entry
        /\ Head(todo[c])[1] \in {"max", "hasRead", "request", "conv"}
    BY <1>5 DEF ReadStored
  <2>3. val[c] = NoFetch /\ Plan(op[c], todo[c])
    BY <2>2, NoFetchThere
  <2>4. \A d \in Call : val'[d] = val[d]
    BY <2>1, <2>3, GoStep DEF ReadMove, Moves, CallInv
  <2>5. \A u \in User : Ghost(u)' => Ghost(u)
    BY <2>2, <2>4 DEF Ghost, Cached
  <2>6. \A u \in User : Head(todo[c]) # Member(u)
    BY <2>2 DEF CacheKeys
  <2>7. Head(todo[c]) \in Reads
    <3>1. Head(todo[c]) \in Commands
      BY <2>2, <2>3, TailFacts DEF Plan
    <3> QED BY <2>2, <3>1, CommandKinds, Tags
  <2> QED BY <1>1, <2>1, <2>2, <2>5, <2>6, <2>7, WindowRead
<1> QED BY <1>3, <1>4, <1>5

\* Steps that change neither a call's plan nor the rows and limits.
LEMMA WindowStill ==
    ASSUME WindowInv, op' = op, todo' = todo, got' = got, member' = member, convMax' = convMax, torn' = torn,
           \A u \in User : member[u] = NoRow /\ Ghost(u)' => Ghost(u),
           \A d \in Call : \A u \in User :
               val'[d].is = "full" /\ Head(todo[d]) = Member(u) =>
                   val'[d] = val[d] \/ val'[d].value = member[u]
    PROVE  WindowInv'
<1>1. ASSUME NEW u \in User, WindowOf(u) PROVE WindowOf(u)'
  <2>1. /\ Running(u, JoinKinds)' <=> Running(u, JoinKinds)
        /\ Running(u, LeaveKinds)' <=> Running(u, LeaveKinds)
        /\ \A d \in Call : /\ WillOpen(d, u)' <=> WillOpen(d, u)
                           /\ Opening(d, u)' <=> Opening(d, u)
                           /\ Closing(d, u)' <=> Closing(d, u)
                           /\ Serves(d, u, JoinKinds)' <=> Serves(d, u, JoinKinds)
                           /\ Serves(d, u, LeaveKinds)' <=> Serves(d, u, LeaveKinds)
    BY DEF Running, WillOpen, Opening, Closing, Serves
  <2>2. /\ ~(Running(u, JoinKinds) /\ Running(u, LeaveKinds))
        /\ member[u] # NoRow /\ convMax[u] # 0 => \E c \in Call : WillOpen(c, u)
        /\ member[u] = NoRow /\ convMax[u] = 0 => \E c \in Call : Closing(c, u)
        /\ \A c \in Call : Opening(c, u) => member[u] # NoRow
        /\ \A c \in Call : Closing(c, u) => member[u] = NoRow
    BY <1>1 DEF WindowOf
  <2>3. member[u] = NoRow /\ Ghost(u)' =>
           \E c \in Call : Serves(c, u, LeaveKinds)' /\ Owes(op'[c], todo'[c], Member(u))
    BY <1>1, <2>1 DEF WindowOf
  <2>4. ASSUME NEW c \in Call, Serves(c, u, JoinKinds)
        PROVE  /\ Member(u) \in DOMAIN got[c] /\ got[c][Member(u)] # NoRow => member[u] # NoRow
               /\ val'[c].is = "full" /\ Head(todo[c]) = Member(u) /\ val'[c].value # NoRow => member[u] # NoRow
    BY <1>1, <2>4 DEF WindowOf
  <2> QED BY <2>1, <2>2, <2>3, <2>4 DEF WindowOf
<1> QED BY <1>1 DEF WindowInv

LEMMA WindowFetch ==
    ASSUME CallInv, WindowInv, NEW c \in Call, FetchLock(c) \/ FetchLoad(c)
    PROVE  WindowInv'
<1>1. /\ op' = op /\ todo' = todo /\ got' = got /\ member' = member /\ convMax' = convMax /\ torn' = torn
      /\ DOMAIN val = Call /\ DOMAIN entry = CacheKeys
  BY DEF FetchLock, FetchLoad, dbVars, seqVars, histVars, CallInv, RowsOK
<1>2. CASE FetchLock(c)
  <2>1. /\ val' = [val EXCEPT ![c] = Held(c)] /\ Head(todo[c]) \in CacheKeys /\ val[c] = NoFetch
        /\ entry' = [entry EXCEPT ![Head(todo[c])] = Held(c)]
    BY <1>2 DEF FetchLock, Next1
  <2>2. /\ val'[c].is # "full"
        /\ \A d \in Call : d # c => val'[d] = val[d]
    BY <1>1, <2>1, EntryFacts
  <2>3. ASSUME NEW u \in User, Ghost(u)' PROVE Ghost(u)
    <3>1. Member(u) \in CacheKeys
      BY DEF CacheKeys
    <3>2. entry'[Member(u)] = entry[Member(u)] \/ entry'[Member(u)] = Held(c)
      BY <1>1, <2>1, <3>1
    <3>3. CASE entry'[Member(u)] = entry[Member(u)]
      BY <2>2, <2>3, <3>3 DEF Ghost, Cached
    <3>4. CASE entry'[Member(u)] = Held(c)
      BY <2>2, <2>3, <3>4, EntryFacts DEF Ghost, Cached
    <3> QED BY <3>2, <3>3, <3>4
  <2> QED BY <1>1, <2>2, <2>3, WindowStill
<1>3. CASE FetchLoad(c)
  <2>1. /\ val' = [val EXCEPT ![c] = Full(DbValue(Head(todo[c])))] /\ entry' = entry /\ val[c] = Held(c)
    BY <1>3 DEF FetchLoad
  <2>2. /\ val'[c] = Full(DbValue(Head(todo[c])))
        /\ \A d \in Call : d # c => val'[d] = val[d]
    BY <1>1, <2>1
  <2>3. \A u \in User : Head(todo[c]) = Member(u) => val'[c].value = member[u]
    BY <2>2, EntryFacts, DbValues
  <2>4. ASSUME NEW u \in User, member[u] = NoRow, Ghost(u)' PROVE Ghost(u)
    <3>1. CASE Cached(Member(u))'
      BY <2>1, <2>4, <3>1, EntryFacts DEF Ghost, Cached
    <3>2. CASE ~Cached(Member(u))'
      <4>1. PICK d \in Call : entry[Member(u)] = Held(d) /\ val'[d].is = "full" /\ val'[d].value # NoRow
        BY <2>1, <2>4, <3>2 DEF Ghost
      <4>2. d # c
        <5>1. ASSUME d = c PROVE FALSE
          <6>1. Member(u) \in CacheKeys
            BY DEF CacheKeys
          <6>2. \/ entry[Member(u)] = Absent
                \/ \E e \in Call : entry[Member(u)] = Held(e) /\ Head(todo[e]) = Member(u)
                \/ entry[Member(u)].is = "full"
            BY <6>1 DEF CallInv, FetchOK, Cached
          <6>3. Head(todo[c]) = Member(u)
            BY <4>1, <5>1, <6>2, EntryFacts
          <6> QED BY <2>3, <2>4, <4>1, <5>1, <6>3
        <5> QED BY <5>1
      <4> QED BY <2>2, <4>1, <4>2 DEF Ghost
    <3> QED BY <3>1, <3>2
  <2> QED BY <1>1, <2>2, <2>3, <2>4, WindowStill
<1> QED BY <1>2, <1>3

LEMMA WindowExpire ==
    ASSUME CallInv, WindowInv, NEW k \in CacheKeys, Expire(k)
    PROVE  WindowInv'
<1>1. /\ op' = op /\ todo' = todo /\ got' = got /\ val' = val /\ member' = member /\ convMax' = convMax
      /\ torn' = torn /\ entry' = [entry EXCEPT ![k] = Absent] /\ DOMAIN entry = CacheKeys
  BY DEF Expire, dbVars, seqVars, callVars, histVars, CallInv, RowsOK
<1>2. ASSUME NEW u \in User, Ghost(u)' PROVE Ghost(u)
  <2>1. Member(u) \in CacheKeys
    BY DEF CacheKeys
  <2>2. entry'[Member(u)] = entry[Member(u)] \/ entry'[Member(u)] = Absent
    BY <1>1, <2>1
  <2> QED BY <1>1, <1>2, <2>2, EntryFacts DEF Ghost, Cached
<1> QED BY <1>1, <1>2, WindowStill

LEMMA WindowStart ==
    ASSUME CallInv, WindowInv, NEW c \in Call, Start(c)
    PROVE  WindowInv'
<1>1. PICK o \in ask :
          /\ op' = [op EXCEPT ![c] = o]
          /\ todo' = [todo EXCEPT ![c] = Follow(o, Nothing, Begin)]
          /\ torn' = torn \cup { u \in {o.user} :
                  \/ o.kind \in JoinKinds /\ Running(u, LeaveKinds)
                  \/ o.kind \in LeaveKinds /\ Running(u, JoinKinds) }
  BY DEF Start
<1>2. /\ got' = got /\ val' = val /\ member' = member /\ convMax' = convMax /\ entry' = entry
  BY DEF Start, dbVars, seqVars
<1>3. op[c] = NoRequest /\ got[c] = Nothing /\ val[c] = NoFetch /\ todo[c] = <<>>
  <2>1. CallOK(c)
    BY DEF CallInv
  <2> QED BY <2>1, IdleFacts DEF Start, Idle
<1>4. IsRequest(o) /\ DOMAIN op = Call /\ DOMAIN todo = Call
  BY DEF CallInv, RowsOK
<1>5. /\ op'[c] = o /\ todo'[c] = Follow(o, Nothing, Begin)
      /\ \A d \in Call : d # c => op'[d] = op[d] /\ todo'[d] = todo[d]
  BY <1>1, <1>4
<1>6. \A w : ~Has(todo'[c], Write(w))
  <2>1. ReadsOnly(todo'[c])
    BY <1>4, <1>5, BeginReady
  <2> QED BY <2>1, ReadsOnlyMarks, Tags DEF IsWrite
<1>7. Shape(op'[c], todo'[c])
  BY <1>6 DEF Shape, Has
<1>8. ASSUME NEW u \in User \ torn', WindowOf(u) PROVE WindowOf(u)'
  <2>0. NoRequest.kind = "none" /\ "none" \notin JoinKinds \cup LeaveKinds
    BY DEF NoRequest, JoinKinds, LeaveKinds
  <2>1. ASSUME NEW d \in Call, d # c
        PROVE  /\ Opening(d, u)' <=> Opening(d, u)
               /\ WillOpen(d, u)' <=> WillOpen(d, u)
               /\ Closing(d, u)' <=> Closing(d, u)
               /\ \A K : Serves(d, u, K)' <=> Serves(d, u, K)
               /\ Owes(op[d], todo[d], Member(u)) => Owes(op'[d], todo'[d], Member(u))
    BY <1>5, <2>1 DEF Opening, WillOpen, Closing, Serves
  <2>2. /\ ~Opening(c, u) /\ ~Closing(c, u) /\ ~WillOpen(c, u)
        /\ ~Serves(c, u, JoinKinds) /\ ~Serves(c, u, LeaveKinds)
    BY <1>3, <2>0 DEF Opening, Closing, WillOpen, Serves
  <2>3. ~Opening(c, u)' /\ ~Closing(c, u)'
    BY <1>6 DEF Opening, Closing
  <2>4. ~(Running(u, JoinKinds) /\ Running(u, LeaveKinds))'
    <3> SUFFICES ASSUME NEW d \in Call, Serves(d, u, JoinKinds)', NEW e \in Call, Serves(e, u, LeaveKinds)'
                 PROVE  FALSE
      BY DEF Running, Serves
    <3>1. CASE d # c /\ e # c
      <4>1. Serves(d, u, JoinKinds) /\ Serves(e, u, LeaveKinds)
        BY <2>1, <3>1
      <4> QED BY <1>8, <4>1 DEF WindowOf, Running, Serves
    <3>2. CASE d = c /\ e = c
      BY <3>2, NoBoth DEF Serves
    <3>3. CASE d = c /\ e # c
      <4>1. o.kind \in JoinKinds /\ o.user = u /\ Serves(e, u, LeaveKinds)
        BY <1>5, <2>1, <3>3 DEF Serves
      <4>2. Running(u, LeaveKinds)
        BY <4>1 DEF Running, Serves
      <4> QED BY <1>1, <1>8, <4>1, <4>2
    <3>4. CASE d # c /\ e = c
      <4>1. o.kind \in LeaveKinds /\ o.user = u /\ Serves(d, u, JoinKinds)
        BY <1>5, <2>1, <3>4 DEF Serves
      <4>2. Running(u, JoinKinds)
        BY <4>1 DEF Running, Serves
      <4> QED BY <1>1, <1>8, <4>1, <4>2
    <3> QED BY <3>1, <3>2, <3>3, <3>4
  <2>5. Ghost(u)' <=> Ghost(u)
    BY <1>2 DEF Ghost, Cached
  <2>6. /\ member[u] # NoRow /\ convMax[u] # 0 => \E d \in Call : WillOpen(d, u)'
        /\ member[u] = NoRow /\ convMax[u] = 0 => \E d \in Call : Closing(d, u)'
    <3>1. /\ member[u] # NoRow /\ convMax[u] # 0 => \E d \in Call : WillOpen(d, u)
          /\ member[u] = NoRow /\ convMax[u] = 0 => \E d \in Call : Closing(d, u)
      BY <1>8 DEF WindowOf
    <3> QED BY <2>1, <2>2, <3>1
  <2>7. /\ \A d \in Call : Opening(d, u)' => member[u] # NoRow
        /\ \A d \in Call : Closing(d, u)' => member[u] = NoRow
    <3>1. /\ \A d \in Call : Opening(d, u) => member[u] # NoRow
          /\ \A d \in Call : Closing(d, u) => member[u] = NoRow
      BY <1>8 DEF WindowOf
    <3> QED BY <2>1, <2>3, <3>1
  <2>8. member[u] = NoRow /\ Ghost(u) =>
           \E d \in Call : Serves(d, u, LeaveKinds)' /\ Owes(op'[d], todo'[d], Member(u))
    <3>1. member[u] = NoRow /\ Ghost(u) =>
             \E d \in Call : Serves(d, u, LeaveKinds) /\ Owes(op[d], todo[d], Member(u))
      BY <1>8 DEF WindowOf
    <3> QED BY <2>1, <2>2, <3>1
  <2>9. ASSUME NEW d \in Call, Serves(d, u, JoinKinds)'
        PROVE  /\ Member(u) \in DOMAIN got[d] /\ got[d][Member(u)] # NoRow => member[u] # NoRow
               /\ val[d].is = "full" /\ Head(todo'[d]) = Member(u) /\ val[d].value # NoRow => member[u] # NoRow
    <3>1. CASE d = c
      BY <1>3, <3>1, EntryFacts DEF Nothing
    <3>2. CASE d # c
      <4>1. Serves(d, u, JoinKinds) /\ todo'[d] = todo[d]
        BY <1>5, <2>1, <2>9, <3>2
      <4> QED BY <1>8, <4>1 DEF WindowOf
    <3> QED BY <3>1, <3>2
  <2> QED BY <1>2, <2>4, <2>5, <2>6, <2>7, <2>8, <2>9 DEF WindowOf
<1>9. torn \subseteq torn' /\ DOMAIN convMax' = User
  BY <1>1, <1>2 DEF WindowInv
<1> QED BY <1>5, <1>7, <1>8, <1>9, WindowAll

LEMMA WindowInit == Init => WindowInv
<1> SUFFICES ASSUME Init PROVE WindowInv
  OBVIOUS
<1>1. PICK s \in Scenario :
        /\ member = [u \in User |-> [role |-> s.role[u], muted |-> FALSE]]
        /\ convMax = [u \in User |-> IF s.role[u] = "none" THEN -1 ELSE 0]
  BY DEF Init
<1>2. s.role \in [User -> Roles \cup {"none"}]
  BY ConstantsAssumption
<1>3. /\ op = [c \in Call |-> NoRequest] /\ todo = [c \in Call |-> <<>>]
      /\ entry = [k \in CacheKeys |-> Absent]
  BY DEF Init
<1>4. NoRequest.kind = "none" /\ "none" \notin JoinKinds \cup LeaveKinds
  BY DEF NoRequest, JoinKinds, LeaveKinds
<1>5. \A c \in Call : Shape(op[c], todo[c])
  <2>1. \A x : ~Has(<<>>, x)
    BY DEF Has
  <2> QED BY <1>3, <1>4, <2>1 DEF Shape
<1>6. ASSUME NEW u \in User PROVE WindowOf(u)
  <2>1. \A c \in Call : ~Serves(c, u, JoinKinds) /\ ~Serves(c, u, LeaveKinds)
    BY <1>3, <1>4 DEF Serves
  <2>2. ~Running(u, JoinKinds)
    BY <2>1 DEF Running, Serves
  <2>3. ~Ghost(u)
    <3>1. Member(u) \in CacheKeys
      BY DEF CacheKeys
    <3> QED BY <1>3, <3>1, EntryFacts DEF Ghost, Cached
  <2>4. member[u] = NoRow <=> convMax[u] # 0
    <3>1. CASE s.role[u] = "none"
      <4>1. convMax[u] = -1
        BY <1>1, <3>1
      <4>2. member[u] = NoRow
        BY <1>1, <3>1 DEF NoRow
      <4> QED BY <4>1, <4>2
    <3>2. CASE s.role[u] # "none"
      <4>1. member[u].role # "none" /\ convMax[u] = 0
        BY <1>1, <3>2
      <4> QED BY <4>1, RowFacts
    <3> QED BY <3>1, <3>2
  <2> QED BY <2>1, <2>2, <2>3, <2>4 DEF WindowOf, Opening, Closing
<1> QED BY <1>1, <1>5, <1>6 DEF WindowInv

LEMMA WindowNext ==
    ASSUME CallInv, FreshInv, WindowInv, [Next]_vars
    PROVE  WindowInv'
<1>1. CASE SendMsg \/ UNCHANGED vars
  <2>1. /\ op' = op /\ todo' = todo /\ got' = got /\ val' = val /\ member' = member /\ convMax' = convMax
        /\ torn' = torn /\ entry' = entry
    BY <1>1 DEF SendMsg, vars, dbVars, seqVars, callVars, histVars
  <2>2. \A u \in User : Ghost(u)' => Ghost(u)
    BY <2>1 DEF Ghost, Cached
  <2> QED BY <2>1, <2>2, WindowStill
<1>2. ASSUME NEW k \in CacheKeys, Expire(k) PROVE WindowInv'
  BY <1>2, WindowExpire
<1>3. ASSUME NEW c \in Call, Start(c) PROVE WindowInv'
  BY <1>3, WindowStart
<1>4. ASSUME NEW c \in Call, Serve(c) PROVE WindowInv'
  <2>1. CASE CacheHit(c) \/ FetchStore(c) \/ ReadStored(c)
    BY <2>1, WindowReads
  <2>2. CASE FetchLock(c) \/ FetchLoad(c)
    BY <2>2, WindowFetch
  <2>3. CASE FlushKey(c)
    BY <2>3, WindowFlush
  <2>4. CASE CreateMember(c)
    BY <2>4, WindowCreate
  <2>5. CASE DeleteMember(c)
    BY <2>5, WindowDelete
  <2>6. CASE DeleteMembers(c)
    BY <2>6, WindowDeleteAll
  <2>7. CASE Demote(c) \/ Promote(c) \/ SetRole(c) \/ SetMuted(c)
    BY <2>7, WindowRows
  <2>8. CASE PutConversation(c)
    BY <2>8, WindowConv
  <2>9. CASE SetConvMax(c)
    BY <2>9, WindowConvMax
  <2>10. CASE \/ SetStatus(c) \/ SetVerify(c) \/ DelRequest(c) \/ AddRequest(c) \/ Handle(c)
              \/ SetUserMin(c) \/ SetHasRead(c) \/ Queue(c)
    BY <2>10, WindowOthers
  <2> QED BY <1>4, <2>1, <2>2, <2>3, <2>4, <2>5, <2>6, <2>7, <2>8, <2>9, <2>10 DEF Serve
<1> QED BY <1>1, <1>2, <1>3, <1>4 DEF Next

LimitInv == FreshCalls /\ WindowInv

LEMMA LimitInvHolds == Spec => []LimitInv
<1>1. Init => LimitInv
  BY FreshStart, WindowInit DEF LimitInv
<1>2. LimitInv /\ [Next]_vars => LimitInv'
  <2> SUFFICES ASSUME LimitInv, [Next]_vars PROVE LimitInv'
    OBVIOUS
  <2>1. FreshCalls /\ CallInv /\ FreshInv /\ WindowInv
    BY DEF LimitInv, FreshCalls
  <2> QED BY <2>1, FreshNext, WindowNext DEF LimitInv
<1> QED BY <1>1, <1>2, PTL DEF Spec

(***************************************************************************)
(* WindowFollowsMembership: once the calls about a user have returned, the *)
(* user reads without an upper limit exactly when the group has a row of   *)
(* them, but for the users whose joining and leaving overlapped and those  *)
(* a dismissal removed, for every number of users and of calls at once.    *)
(***************************************************************************)
THEOREM WindowFollowsMembershipHolds == Spec => []WindowFollowsMembership
<1>1. LimitInv => WindowFollowsMembership
  <2> SUFFICES ASSUME LimitInv, NEW u \in User \ torn, ~Running(u, JoinKinds \cup LeaveKinds)
               PROVE  member[u] # NoRow <=> convMax[u] = 0
    BY DEF WindowFollowsMembership
  <2>1. WindowOf(u)
    BY DEF LimitInv, WindowInv
  <2>2. \A c \in Call : ~WillOpen(c, u) /\ ~Closing(c, u)
    BY DEF Running, WillOpen, Opening, Closing, Serves
  <2> QED BY <2>1, <2>2 DEF WindowOf
<1> QED BY <1>1, LimitInvHolds, PTL

-----------------------------------------------------------------------------
(* The messages before the joining.                                         *)

\* There is no infinite descent in the naturals.
NatLess == { p \in Nat \X Nat : p[1] < p[2] }

LEMMA NatLessWellFounded == IsWellFoundedOn(NatLess, Nat)
<1>1. OpToRel(<, Nat) = NatLess
  BY DEF OpToRel, NatLess
<1> QED BY <1>1, NatLessThanWellFounded

LEMMA LeastFacts ==
    ASSUME NEW S, S \subseteq Nat, S # {}
    PROVE  Least(S) \in S /\ \A m \in S : Least(S) <= m
<1>1. PICK x \in S : \A y \in S : ~(<<y, x>> \in NatLess)
  BY WFMin, NatLessWellFounded
<1>2. ASSUME NEW y \in S PROVE x <= y
  <2>1. x \in Nat /\ y \in Nat
    OBVIOUS
  <2>2. y < x => <<y, x>> \in NatLess
    BY <2>1 DEF NatLess
  <2> QED BY <1>1, <2>1, <2>2
<1> QED BY <1>2 DEF Least

\* A step of call c.
LEMMA HistoryStep ==
    ASSUME CallInv, HistoryInv, NEW c, NEW rest, NEW g, Moves(c, rest, g), Shape(op[c], todo[c]),
           todo[c] # <<>>, Fewer(todo[c], rest), Goes(todo[c], rest) \/ rest = <<>>,
           op[c].kind = "approve" => ~Has(rest, Write("handle")),
           torn \subseteq torn', maxSeq' = maxSeq,
           asked' \in [User -> Int], userMin' \in [User -> Nat], \A u \in User : asked'[u] <= maxSeq,
           \A d \in Call : op[d].kind \in JoinKinds => asked'[op[d].user] <= began[d],
           op[c].kind \in JoinKinds /\ MaxKey \in DOMAIN g => began[c] <= g[MaxKey],
           \A u \in User \ torn' :
               userMin[u] > asked[u] \/ Hiding(c, u) => userMin'[u] > asked'[u] \/ Hiding(c, u)'
    PROVE  HistoryInv'
<1>0. c \in Call /\ IsRequest(op[c]) /\ Ready(op[c], rest, g) /\ RowsOK /\ Go(c, rest, g)
  BY DEF Moves, CallInv
<1>1. /\ \A d \in Call : d # c => /\ op'[d] = op[d] /\ todo'[d] = todo[d] /\ got'[d] = got[d]
                                  /\ began'[d] = began[d]
      /\ \/ op'[c] = op[c] /\ got'[c] = g /\ (c \in DOMAIN began => began'[c] = began[c])
         \/ op'[c] = NoRequest /\ (c \in DOMAIN began => began'[c] = 0)
      /\ DOMAIN began' = DOMAIN began
  BY <1>0, GoStep DEF Moves
<1>2. /\ began \in [Call -> Nat] /\ maxSeq \in Nat
      /\ \A d \in Call : began[d] <= maxSeq
      /\ \A d \in Call : op[d].kind \in JoinKinds =>
             (MaxKey \in DOMAIN got[d] => began[d] <= got[d][MaxKey])
      /\ \A u \in User \ torn : userMin[u] > asked[u] \/ \E d \in Call : Hiding(d, u)
  BY <1>0 DEF HistoryInv, Serves, RowsOK
<1>3. began' \in [Call -> Nat] /\ \A d \in Call : began'[d] <= maxSeq
  <2>1. ASSUME NEW d \in Call PROVE began'[d] \in Nat /\ began'[d] <= maxSeq
    <3>1. CASE d # c
      BY <1>1, <1>2, <3>1
    <3>2. CASE d = c
      <4>1. began'[c] = began[c] \/ began'[c] = 0
        BY <1>0, <1>1, <1>2
      <4> QED BY <1>2, <3>2, <4>1
    <3> QED BY <3>1, <3>2
  <2>2. began' = [d \in Call |-> began'[d]]
    BY <1>0, <1>1, <1>2 DEF Go
  <2> QED BY <2>1, <2>2
<1>4. NoRequest.kind = "none" /\ "none" \notin JoinKinds
  BY DEF NoRequest, JoinKinds
<1>5. ASSUME NEW d \in Call, op'[d].kind \in JoinKinds
      PROVE  /\ asked'[op'[d].user] <= began'[d]
             /\ MaxKey \in DOMAIN got'[d] => began'[d] <= got'[d][MaxKey]
  <2>1. CASE d # c
    BY <1>1, <1>2, <1>5, <2>1
  <2>2. CASE d = c
    <3>1. op'[c] = op[c] /\ got'[c] = g /\ began'[c] = began[c]
      BY <1>0, <1>1, <1>2, <1>4, <1>5, <2>2
    <3> QED BY <1>0, <1>5, <2>2, <3>1
  <2> QED BY <2>1, <2>2
<1>6. ASSUME NEW u \in User \ torn' PROVE userMin'[u] > asked'[u] \/ \E d \in Call : Hiding(d, u)'
  <2>1. CASE userMin[u] > asked[u] \/ Hiding(c, u)
    BY <1>0, <2>1
  <2>2. ASSUME NEW d \in Call, Hiding(d, u), d # c PROVE Hiding(d, u)'
    BY <1>1, <2>2 DEF Hiding, Serves
  <2> QED BY <1>2, <2>1, <2>2
<1> QED BY <1>2, <1>3, <1>5, <1>6 DEF HistoryInv, Serves

\* A write other than that of the lower limit.
LEMMA HistoryWrite ==
    ASSUME CallInv, WindowInv, HistoryInv, NEW c \in Call, NEW w \in Writes, At(c, w), w # "userMin",
           NEW rest, rest = Tail(todo[c]) \/ rest = <<>>, Go(c, rest, got[c]),
           torn \subseteq torn', maxSeq' = maxSeq, userMin' = userMin, asked' = asked,
           rest # Tail(todo[c]) => \/ w \notin {"conv", "hasRead", "delRequest"}
                                   \/ op[c].user \in torn'
    PROVE  HistoryInv'
<1>1. /\ Moves(c, rest, got[c]) /\ todo[c] # <<>>
      /\ Fewer(todo[c], rest) /\ (rest = Tail(todo[c]) => Goes(todo[c], rest))
  BY WriteMoves
<1>2. Shape(op[c], todo[c])
  BY DEF WindowInv
<1>3. Has(todo[c], Write(w)) /\ todo[c] \in Seq(Commands)
  BY AtFacts
<1>4. op[c].kind = "approve" => ~Has(rest, Write("handle"))
  <2>1. ~Has(<<>>, Write("handle"))
    BY DEF Has
  <2> QED BY <1>1, <1>2, <1>3, <2>1, HandleGone
<1>5. ~At(c, "userMin")
  BY Tags DEF At
<1>6. ASSUME NEW u \in User \ torn', Hiding(c, u) PROVE Hiding(c, u)'
  <2>1. Serves(c, u, {"join", "invite"}) /\ ~Has(todo[c], Write("create")) /\ ~Has(todo[c], Write("addRequest"))
    BY <1>6 DEF Hiding
  <2>2. w \in AdmitWrites \ {"create", "addRequest"} /\ op[c].user = u
    BY <1>2, <1>3, <2>1, KindWrites DEF Serves
  <2>3. rest = Tail(todo[c])
    BY <1>6, <2>2 DEF AdmitWrites
  <2> QED BY <1>1, <1>2, <1>4, <1>5, <1>6, <2>3, MoveMarks
<1>7. /\ asked' \in [User -> Int] /\ userMin' \in [User -> Nat] /\ \A u \in User : asked'[u] <= maxSeq
      /\ \A d \in Call : op[d].kind \in JoinKinds => asked'[op[d].user] <= began[d]
      /\ op[c].kind \in JoinKinds /\ MaxKey \in DOMAIN got[c] => began[c] <= got[c][MaxKey]
  BY DEF HistoryInv, Serves
<1> QED BY <1>1, <1>2, <1>4, <1>6, <1>7, HistoryStep

LEMMA HistoryWrites ==
    ASSUME CallInv, WindowInv, HistoryInv, NEW c \in Call,
           \/ DeleteMember(c) \/ Demote(c) \/ Promote(c) \/ SetRole(c) \/ SetMuted(c)
           \/ SetStatus(c) \/ SetVerify(c) \/ DelRequest(c) \/ AddRequest(c) \/ Handle(c)
           \/ PutConversation(c) \/ SetConvMax(c) \/ SetHasRead(c) \/ Queue(c)
    PROVE  HistoryInv'
<1>1. maxSeq' = maxSeq /\ userMin' = userMin /\ asked' = asked /\ torn \subseteq torn'
  BY DEF DeleteMember, Demote, Promote, SetRole, SetMuted, SetStatus, SetVerify, DelRequest, AddRequest,
         Handle, PutConversation, SetConvMax, SetHasRead, Queue, seqVars
<1>2. CASE Demote(c) \/ Promote(c) \/ SetRole(c) \/ SetMuted(c)
  <2>1. PICK w \in {"demote", "promote", "setRole", "setMuted"} : At(c, w)
    BY <1>2 DEF Demote, Promote, SetRole, SetMuted
  <2>2. \E u, row : UpdateRow(c, u, row)
    BY <1>2 DEF Demote, Promote, SetRole, SetMuted
  <2>3. PICK rest : (rest = Tail(todo[c]) \/ rest = <<>>) /\ Go(c, rest, got[c])
    BY <2>2 DEF UpdateRow, Done, Failed
  <2>4. w \in Writes
    BY DEF Writes
  <2> QED BY <1>1, <2>1, <2>3, <2>4, HistoryWrite
<1>3. CASE AddRequest(c) \/ Handle(c)
  <2>1. PICK w \in {"addRequest", "handle"} : At(c, w)
    BY <1>3 DEF AddRequest, Handle
  <2>2. PICK rest : (rest = Tail(todo[c]) \/ rest = <<>>) /\ Go(c, rest, got[c])
    BY <1>3 DEF AddRequest, Handle, Done, Failed
  <2>3. w \in Writes
    BY DEF Writes
  <2> QED BY <1>1, <2>1, <2>2, <2>3, HistoryWrite
<1>4. CASE PutConversation(c)
  <2>1. At(c, "conv") /\ "conv" \in Writes
    BY <1>4 DEF PutConversation, Writes
  <2>2. PICK rest : /\ rest = Tail(todo[c]) \/ rest = <<>>
                    /\ Go(c, rest, got[c]) /\ (rest = Tail(todo[c]) \/ op[c].user \in torn')
    BY <1>4 DEF PutConversation, Done, Failed
  <2> QED BY <1>1, <2>1, <2>2, HistoryWrite
<1>5. CASE \E w \in {"delete", "setStatus", "setVerify", "delRequest", "convMax", "hasRead", "queue"} :
              At(c, w) /\ Done(c)
  <2>1. PICK w \in {"delete", "setStatus", "setVerify", "delRequest", "convMax", "hasRead", "queue"} :
              At(c, w) /\ Done(c)
    BY <1>5
  <2>2. w \in Writes /\ Go(c, Tail(todo[c]), got[c])
    BY <2>1 DEF Writes, Done
  <2> QED BY <1>1, <2>1, <2>2, HistoryWrite
<1> QED BY <1>2, <1>3, <1>4, <1>5 DEF DeleteMember, SetStatus, SetVerify, DelRequest, SetConvMax, SetHasRead, Queue

\* The lower limit is set past what was there when the call began.
LEMMA HistoryUserMin ==
    ASSUME CallInv, WindowInv, HistoryInv, NEW c \in Call, SetUserMin(c)
    PROVE  HistoryInv'
<1>1. /\ At(c, "userMin") /\ Go(c, Tail(todo[c]), got[c]) /\ maxSeq' = maxSeq /\ asked' = asked /\ torn' = torn
      /\ userMin' = [userMin EXCEPT ![op[c].user] = got[c][MaxKey] + 1]
  BY DEF SetUserMin, NextSeq, Done
<1>2. /\ op[c].kind \in {"join", "invite"} /\ op[c].user \in User /\ todo[c] \in Seq(Commands)
      /\ GotOK(op[c], got[c])
  BY <1>1, FirstWrites, AtFacts
<1>3. /\ Moves(c, Tail(todo[c]), got[c]) /\ todo[c] # <<>> /\ Shape(op[c], todo[c])
      /\ Fewer(todo[c], Tail(todo[c])) /\ Goes(todo[c], Tail(todo[c]))
  BY <1>1, WriteMoves DEF WindowInv
<1>4. MaxKey \in DOMAIN got[c] /\ got[c][MaxKey] \in Nat \ {0}
  <2>1. <<Write("userMin"), MaxKey>> \in Needs(op[c])
    BY DEF Needs
  <2>2. MaxKey \in DOMAIN got[c]
    BY <1>1, <2>1, AtFacts
  <2>3. MaxKey \in Typed /\ MaxKey \notin {Ids, Owners}
    BY Tags DEF Typed
  <2> QED BY <1>2, <2>2, <2>3 DEF GotOK, ValueOf
<1>5. /\ asked \in [User -> Int] /\ userMin \in [User -> Nat] /\ began \in [Call -> Nat]
      /\ \A u \in User : asked[u] <= maxSeq
      /\ \A d \in Call : op[d].kind \in JoinKinds => asked[op[d].user] <= began[d]
      /\ op[c].kind \in JoinKinds /\ MaxKey \in DOMAIN got[c] => began[c] <= got[c][MaxKey]
  BY DEF HistoryInv, Serves
<1>6. op[c].kind \in JoinKinds /\ op[c].kind # "approve"
  BY <1>2 DEF JoinKinds
<1>7. userMin' \in [User -> Nat] /\ userMin'[op[c].user] = got[c][MaxKey] + 1
  BY <1>1, <1>2, <1>4, <1>5
<1>8. userMin'[op[c].user] > asked[op[c].user]
  <2>1. PICK a, b, m : a = asked[op[c].user] /\ b = began[c] /\ m = got[c][MaxKey]
    OBVIOUS
  <2>2. a \in Int /\ b \in Nat /\ m \in Nat /\ a <= b /\ b <= m
    BY <1>2, <1>4, <1>5, <1>6, <2>1
  <2>3. userMin'[op[c].user] = m + 1
    BY <1>7, <2>1
  <2> QED BY <2>1, <2>2, <2>3
<1>9. ASSUME NEW u \in User, userMin[u] > asked[u] \/ Hiding(c, u) PROVE userMin'[u] > asked'[u]
  <2>1. CASE u = op[c].user
    BY <1>1, <1>8, <2>1
  <2>2. CASE u # op[c].user
    <3>1. userMin'[u] = userMin[u] /\ ~Hiding(c, u)
      BY <1>1, <1>5, <2>2 DEF Hiding, Serves
    <3> QED BY <1>1, <1>9, <3>1
  <2> QED BY <2>1, <2>2
<1> QED BY <1>1, <1>3, <1>5, <1>6, <1>7, <1>9, HistoryStep

\* The user is let in: the call will set the lower limit.
LEMMA HistoryCreate ==
    ASSUME CallInv, WindowInv, HistoryInv, NEW c \in Call, CreateMember(c)
    PROVE  HistoryInv'
<1>1. /\ At(c, "create") /\ "create" \in Writes /\ maxSeq' = maxSeq /\ userMin' = userMin /\ torn' = torn
  BY DEF CreateMember, seqVars, Writes
<1>2. CASE member[op[c].user] # NoRow
  <2>1. Go(c, <<>>, got[c]) /\ asked' = asked
    BY <1>2 DEF CreateMember, Failed
  <2> QED BY <1>1, <2>1, HistoryWrite
<1>3. CASE member[op[c].user] = NoRow /\ op[c].kind = "approve"
  <2>1. Go(c, Tail(todo[c]), got[c]) /\ asked' = asked
    BY <1>3 DEF CreateMember, Done
  <2> QED BY <1>1, <2>1, HistoryWrite
<1>4. CASE member[op[c].user] = NoRow /\ op[c].kind # "approve"
  <2>1. PICK u : u = op[c].user
    OBVIOUS
  <2>2. PICK S : S = {began[c]} \cup
                { began[d] : d \in { d \in Call \ {c} : op[d].kind \in JoinKinds /\ op[d].user = u } }
    OBVIOUS
  <2>3. Go(c, Tail(todo[c]), got[c]) /\ asked' = [asked EXCEPT ![u] = Least(S)]
    BY <1>4, <2>1, <2>2 DEF CreateMember, Done
  <2>4. /\ asked \in [User -> Int] /\ userMin \in [User -> Nat] /\ began \in [Call -> Nat] /\ maxSeq \in Nat
        /\ \A v \in User : asked[v] <= maxSeq
        /\ \A d \in Call : began[d] <= maxSeq
        /\ \A d \in Call : op[d].kind \in JoinKinds => asked[op[d].user] <= began[d]
        /\ op[c].kind \in JoinKinds /\ MaxKey \in DOMAIN got[c] => began[c] <= got[c][MaxKey]
    BY DEF HistoryInv, Serves, CallInv, RowsOK
  <2>5. S \subseteq Nat /\ S # {} /\ \A n \in S : n <= maxSeq
    BY <2>2, <2>4
  <2>6. PICK l : l = Least(S)
    OBVIOUS
  <2>7. l \in S /\ l \in Nat /\ l <= maxSeq /\ \A m \in S : l <= m
    BY <2>5, <2>6, LeastFacts
  <2>8. /\ u \in User /\ op[c].kind \in JoinKinds /\ IsRequest(op[c])
        /\ Has(Tail(todo[c]), Write("userMin"))
        /\ ~Has(Tail(todo[c]), Write("create")) /\ ~Has(Tail(todo[c]), Write("addRequest"))
    BY <1>1, <1>4, <2>1, FirstWrites, AtFacts
  <2>9. /\ Moves(c, Tail(todo[c]), got[c]) /\ todo[c] # <<>> /\ Shape(op[c], todo[c])
        /\ Fewer(todo[c], Tail(todo[c])) /\ Goes(todo[c], Tail(todo[c]))
    BY <1>1, <2>3, WriteMoves DEF WindowInv
  <2>10. /\ asked' \in [User -> Int] /\ asked'[u] = l
         /\ \A v \in User : v # u => asked'[v] = asked[v]
    BY <2>3, <2>4, <2>6, <2>7, <2>8
  <2>11. \A v \in User : asked'[v] <= maxSeq
    BY <2>4, <2>7, <2>10
  <2>12. ASSUME NEW d \in Call, op[d].kind \in JoinKinds PROVE asked'[op[d].user] <= began[d]
    <3>1. CASE op[d].user = u
      <4>1. began[d] \in S
        BY <2>2, <2>12, <3>1
      <4> QED BY <2>7, <2>10, <3>1, <4>1
    <3>2. CASE op[d].user # u
      <4>1. op[d].user \in User
        <5>1. CallOK(d)
          BY DEF CallInv
        <5>2. NoRequest.kind = "none" /\ "none" \notin JoinKinds
          BY DEF NoRequest, JoinKinds
        <5> QED BY <2>12, <5>1, <5>2 DEF CallOK, IsRequest
      <4> QED BY <2>4, <2>10, <2>12, <3>2, <4>1
    <3> QED BY <3>1, <3>2
  <2>13. Hiding(c, u)'
    <3>1. \A w : ~Has(<<>>, Write(w)) /\ ~Has(<<Decide>>, Write(w))
      BY HasShort, Tags
    <3>2. Tail(todo[c]) # <<>> /\ Tail(todo[c]) # <<Decide>>
      BY <2>8, <3>1
    <3>3. /\ todo'[c] = Tail(todo[c]) \/ Tail(todo[c]) = <<Decide>>
          /\ op'[c] = op[c] \/ todo'[c] = <<>>
      BY <2>9, GoStep DEF Moves, CallInv
    <3>4. op'[c] = op[c] /\ todo'[c] = Tail(todo[c])
      BY <3>2, <3>3
    <3>5. op[c].kind \in {"join", "invite"}
      BY <1>4, <2>8 DEF JoinKinds
    <3> QED BY <2>1, <2>8, <3>4, <3>5 DEF Hiding, Serves
  <2>14. ASSUME NEW v \in User, userMin[v] > asked[v] \/ Hiding(c, v)
         PROVE  userMin'[v] > asked'[v] \/ Hiding(c, v)'
    <3>1. CASE v = u
      BY <2>13, <3>1
    <3>2. CASE v # u
      <4>1. ~Hiding(c, v)
        BY <2>1, <3>2 DEF Hiding, Serves
      <4> QED BY <1>1, <2>10, <2>14, <3>2, <4>1
    <3> QED BY <3>1, <3>2
  <2> QED BY <1>1, <1>4, <2>4, <2>9, <2>10, <2>11, <2>12, <2>14, HistoryStep
<1> QED BY <1>2, <1>3, <1>4

\* Steps of a call that leave the limits alone.
LEMMA HistoryQuiet ==
    ASSUME CallInv, HistoryInv, NEW c, NEW rest, NEW g, Moves(c, rest, g), Shape(op[c], todo[c]),
           todo[c] # <<>>, Fewer(todo[c], rest), Goes(todo[c], rest),
           op[c].kind = "approve" => ~Has(rest, Write("handle")), ~At(c, "userMin"),
           torn \subseteq torn', maxSeq' = maxSeq, userMin' = userMin, asked' = asked,
           MaxKey \in DOMAIN g => \/ g[MaxKey] = maxSeq
                                  \/ MaxKey \in DOMAIN got[c] /\ g[MaxKey] = got[c][MaxKey]
    PROVE  HistoryInv'
<1>1. c \in Call
  BY DEF Moves
<1>2. /\ asked' \in [User -> Int] /\ userMin' \in [User -> Nat] /\ \A u \in User : asked'[u] <= maxSeq
      /\ \A d \in Call : op[d].kind \in JoinKinds => asked'[op[d].user] <= began[d]
      /\ op[c].kind \in JoinKinds /\ MaxKey \in DOMAIN got[c] => began[c] <= got[c][MaxKey]
      /\ began[c] <= maxSeq
  BY <1>1 DEF HistoryInv, Serves
<1>3. op[c].kind \in JoinKinds /\ MaxKey \in DOMAIN g => began[c] <= g[MaxKey]
  BY <1>2
<1>4. ASSUME NEW u, Hiding(c, u) PROVE Hiding(c, u)'
  BY <1>4, MoveMarks
<1> QED BY <1>2, <1>3, <1>4, HistoryStep

LEMMA HistoryDeleteAll ==
    ASSUME CallInv, FreshInv, WindowInv, HistoryInv, NEW c \in Call, DeleteMembers(c)
    PROVE  HistoryInv'
<1>1. /\ At(c, "deleteAll") /\ "deleteAll" \in Writes /\ Shape(op[c], todo[c])
      /\ torn \subseteq torn' /\ maxSeq' = maxSeq /\ userMin' = userMin /\ asked' = asked
  BY DEF DeleteMembers, seqVars, Writes, WindowInv
<1>2. PICK rest : /\ Moves(c, rest, got[c])
                  /\ \A w : Has(rest, Write(w)) <=> Has(Tail(todo[c]), Write(w))
  BY DeleteAllKept
<1>3. Goes(todo[c], Tail(todo[c])) /\ Fewer(todo[c], Tail(todo[c])) /\ todo[c] # <<>>
  BY <1>1, FirstWrites DEF At
<1>4. Goes(todo[c], rest) /\ Fewer(todo[c], rest)
  BY <1>2, <1>3 DEF Goes, Fewer
<1>5. op[c].kind # "approve"
  <2>1. "deleteAll" \notin AdmitWrites \cup {"handle"} /\ "approve" \in JoinKinds
    BY DEF AdmitWrites, JoinKinds
  <2> QED BY <1>1, <2>1, KindWrites
<1>6. ~At(c, "userMin")
  BY <1>1, Tags DEF At
<1> QED BY <1>1, <1>2, <1>3, <1>4, <1>5, <1>6, HistoryQuiet

LEMMA HistoryFlush ==
    ASSUME CallInv, FreshInv, WindowInv, HistoryInv, NEW c \in Call, FlushKey(c)
    PROVE  HistoryInv'
<1>1. /\ torn' = torn /\ maxSeq' = maxSeq /\ userMin' = userMin /\ asked' = asked
      /\ todo[c] # <<>> /\ Shape(op[c], todo[c])
  BY DEF FlushKey, seqVars, WindowInv
<1>2. /\ Moves(c, Tail(todo[c]), got[c])
      /\ \E k \in CacheKeys : Head(todo[c]) = FlushOf(k)
  BY FlushKeyKept
<1>3. Head(todo[c]) \notin CacheKeys /\ ~At(c, "userMin")
  BY <1>2, Tags DEF CacheKeys, At
<1>4. todo[c] \in Seq(Commands)
  BY <1>1, <1>3, NoFetchThere DEF Plan
<1>5. /\ Goes(todo[c], Tail(todo[c])) /\ Fewer(todo[c], Tail(todo[c]))
      /\ op[c].kind = "approve" => ~Has(Tail(todo[c]), Write("handle"))
  BY <1>1, <1>4, TailGoes, HandleGone
<1> QED BY <1>1, <1>2, <1>3, <1>5, HistoryQuiet

LEMMA HistoryRead ==
    ASSUME CallInv, WindowInv, HistoryInv, NEW c \in Call, todo[c] # <<>>, Head(todo[c]) \in Reads,
           NEW v, NEW rest, NEW g, ReadMove(c, v, rest, g),
           torn' = torn, maxSeq' = maxSeq, userMin' = userMin, asked' = asked,
           Head(todo[c]) = MaxKey => v = maxSeq
    PROVE  HistoryInv'
<1>1. Shape(op[c], todo[c])
  BY DEF WindowInv
<1>2. /\ Moves(c, rest, g) /\ g = Put(got[c], Head(todo[c]), v)
      /\ rest = Tail(todo[c]) \/ (ReadsOnly(todo[c]) /\ ReadsOnly(rest))
  BY DEF ReadMove
<1>3. todo[c] \in Seq(Commands)
  <2>1. CallOK(c)
    BY DEF CallInv
  <2> QED BY <2>1 DEF CallOK, Plan
<1>4. /\ Goes(todo[c], rest) /\ Fewer(todo[c], rest)
      /\ op[c].kind = "approve" => ~Has(rest, Write("handle"))
  <2>1. CASE rest = Tail(todo[c])
    BY <1>1, <1>3, <2>1, TailGoes, HandleGone
  <2>2. CASE ReadsOnly(todo[c]) /\ ReadsOnly(rest)
    <3>1. \A w : ~Has(todo[c], Write(w)) /\ ~Has(rest, Write(w))
      BY <2>2, ReadsOnlyMarks, Tags DEF IsWrite
    <3> QED BY <3>1 DEF Goes, Fewer
  <2> QED BY <1>2, <2>1, <2>2
<1>5. ~At(c, "userMin")
  BY ReadTags, Tags DEF At, IsWrite
<1>6. MaxKey \in DOMAIN g => \/ g[MaxKey] = maxSeq
                             \/ MaxKey \in DOMAIN got[c] /\ g[MaxKey] = got[c][MaxKey]
  BY <1>2 DEF Put
<1> QED BY <1>1, <1>2, <1>4, <1>5, <1>6, HistoryQuiet

LEMMA HistoryReads ==
    ASSUME CallInv, FreshInv, WindowInv, HistoryInv, NEW c \in Call,
           CacheHit(c) \/ FetchStore(c) \/ ReadStored(c)
    PROVE  HistoryInv'
<1>1. torn' = torn /\ maxSeq' = maxSeq /\ userMin' = userMin /\ asked' = asked
  BY DEF CacheHit, FetchStore, ReadStored, seqVars
<1>2. MaxKey \notin CacheKeys
  BY Tags DEF CacheKeys
<1>3. CASE CacheHit(c)
  <2>1. todo[c] # <<>> /\ Head(todo[c]) \in CacheKeys /\ Head(todo[c]) \in Reads
    BY <1>3, CommandFacts DEF CacheHit, Next1
  <2>2. \E rest, g : ReadMove(c, entry[Head(todo[c])].value, rest, g)
    BY <1>3, CacheHitKept
  <2> QED BY <1>1, <1>2, <2>1, <2>2, HistoryRead
<1>4. CASE FetchStore(c)
  <2>1. todo[c] # <<>> /\ Head(todo[c]) \in CacheKeys
    BY <1>4, EntryFacts DEF FetchStore, CallInv, FetchOK, Next1
  <2>2. Head(todo[c]) \in Reads
    BY <2>1, CommandFacts
  <2>3. \E rest, g : ReadMove(c, val[c].value, rest, g)
    BY <1>4, FetchStoreKept
  <2> QED BY <1>1, <1>2, <2>1, <2>2, <2>3, HistoryRead
<1>5. CASE ReadStored(c)
  <2>1. /\ todo[c] # <<>> /\ Head(todo[c]) \notin CacheKeys
        /\ Head(todo[c])[1] \in {"max", "hasRead", "request", "conv"}
    BY <1>5 DEF ReadStored
  <2>2. Head(todo[c]) \in Reads
    <3>1. Plan(op[c], todo[c])
      BY <2>1, NoFetchThere
    <3>2. Head(todo[c]) \in Commands
      BY <2>1, <3>1, TailFacts DEF Plan
    <3> QED BY <2>1, <3>2, CommandKinds, Tags
  <2>3. \E rest, g : ReadMove(c, DbValue(Head(todo[c])), rest, g)
    BY <1>5, ReadStoredKept
  <2>4. Head(todo[c]) = MaxKey => DbValue(Head(todo[c])) = maxSeq
    BY DbValues
  <2> QED BY <1>1, <2>1, <2>2, <2>3, <2>4, HistoryRead
<1> QED BY <1>3, <1>4, <1>5

\* Steps that change no call's plan and none of the lower limits.
LEMMA HistoryStill ==
    ASSUME CallInv, HistoryInv, op' = op, todo' = todo, got' = got, torn' = torn, asked' = asked,
           userMin' = userMin, began' = began, maxSeq' \in Nat, maxSeq <= maxSeq'
    PROVE  HistoryInv'
<1>1. /\ asked \in [User -> Int] /\ userMin \in [User -> Nat] /\ began \in [Call -> Nat]
      /\ \A c \in Call : began[c] <= maxSeq
      /\ \A u \in User : asked[u] <= maxSeq
      /\ maxSeq \in Nat
  BY DEF HistoryInv, CallInv, RowsOK
<1>2. \A c \in Call : began[c] <= maxSeq'
  BY <1>1
<1>3. \A u \in User : asked[u] <= maxSeq'
  BY <1>1
<1>4. \A c \in Call : op[c].kind \in JoinKinds =>
           /\ asked[op[c].user] <= began[c]
           /\ MaxKey \in DOMAIN got[c] => began[c] <= got[c][MaxKey]
  BY DEF HistoryInv, Serves
<1>5. \A u \in User \ torn : userMin[u] > asked[u] \/ \E c \in Call : Hiding(c, u)
  BY DEF HistoryInv
<1>6. \A u \in User : \A c \in Call : Hiding(c, u)' <=> Hiding(c, u)
  BY DEF Hiding, Serves
<1> QED BY <1>1, <1>2, <1>3, <1>4, <1>5, <1>6 DEF HistoryInv, Serves

LEMMA HistoryStart ==
    ASSUME CallInv, HistoryInv, NEW c \in Call, Start(c)
    PROVE  HistoryInv'
<1>1. PICK o \in ask :
          /\ op' = [op EXCEPT ![c] = o]
          /\ todo' = [todo EXCEPT ![c] = Follow(o, Nothing, Begin)]
  BY DEF Start
<1>2. /\ got' = got /\ asked' = asked /\ userMin' = userMin /\ maxSeq' = maxSeq /\ torn \subseteq torn'
      /\ began' = [began EXCEPT ![c] = maxSeq]
  BY DEF Start, seqVars
<1>3. op[c] = NoRequest /\ got[c] = Nothing
  <2>1. CallOK(c)
    BY DEF CallInv
  <2> QED BY <2>1, IdleFacts DEF Start, Idle
<1>4. o.user \in User /\ DOMAIN op = Call /\ DOMAIN todo = Call /\ maxSeq \in Nat
  BY DEF CallInv, RowsOK, IsRequest
<1>5. /\ op'[c] = o
      /\ \A d \in Call : d # c => op'[d] = op[d] /\ todo'[d] = todo[d]
  BY <1>1, <1>4
<1>6. /\ asked \in [User -> Int] /\ userMin \in [User -> Nat] /\ began \in [Call -> Nat]
      /\ \A d \in Call : began[d] <= maxSeq
      /\ \A u \in User : asked[u] <= maxSeq
      /\ \A d \in Call : op[d].kind \in JoinKinds =>
             /\ asked[op[d].user] <= began[d]
             /\ MaxKey \in DOMAIN got[d] => began[d] <= got[d][MaxKey]
      /\ \A u \in User \ torn : userMin[u] > asked[u] \/ \E d \in Call : Hiding(d, u)
  BY DEF HistoryInv, Serves
<1>7. /\ began' \in [Call -> Nat] /\ began'[c] = maxSeq
      /\ \A d \in Call : d # c => began'[d] = began[d]
  BY <1>2, <1>4, <1>6
<1>8. \A d \in Call : began'[d] <= maxSeq
  BY <1>4, <1>6, <1>7
<1>9. ASSUME NEW d \in Call, op'[d].kind \in JoinKinds
      PROVE  /\ asked[op'[d].user] <= began'[d]
             /\ MaxKey \in DOMAIN got[d] => began'[d] <= got[d][MaxKey]
  <2>1. CASE d = c
    BY <1>3, <1>4, <1>5, <1>6, <1>7, <2>1 DEF Nothing
  <2>2. CASE d # c
    BY <1>5, <1>6, <1>7, <1>9, <2>2
  <2> QED BY <2>1, <2>2
<1>10. ASSUME NEW u \in User, NEW d \in Call, Hiding(d, u) PROVE Hiding(d, u)'
  <2>1. NoRequest.kind = "none" /\ "none" \notin {"join", "invite"}
    BY DEF NoRequest
  <2>2. d # c
    BY <1>3, <1>10, <2>1 DEF Hiding, Serves
  <2> QED BY <1>5, <1>10, <2>2 DEF Hiding, Serves
<1>11. \A u \in User \ torn' : userMin[u] > asked[u] \/ \E d \in Call : Hiding(d, u)'
  BY <1>2, <1>6, <1>10
<1> QED BY <1>2, <1>6, <1>7, <1>8, <1>9, <1>11 DEF HistoryInv, Serves

LEMMA HistoryInit == Init => HistoryInv
<1> SUFFICES ASSUME Init PROVE HistoryInv
  OBVIOUS
<1>1. /\ asked = [u \in User |-> -1] /\ userMin = [u \in User |-> 0] /\ began = [c \in Call |-> 0]
      /\ maxSeq = 1 /\ op = [c \in Call |-> NoRequest]
  BY DEF Init
<1>2. NoRequest.kind = "none" /\ "none" \notin JoinKinds
  BY DEF NoRequest, JoinKinds
<1>3. \A c \in Call : op[c].kind \notin JoinKinds
  BY <1>1, <1>2
<1>4. asked \in [User -> Int] /\ userMin \in [User -> Nat] /\ began \in [Call -> Nat]
  BY <1>1
<1>5. \A u \in User : asked[u] <= maxSeq /\ userMin[u] > asked[u]
  BY <1>1
<1>6. \A c \in Call : began[c] <= maxSeq
  BY <1>1
<1> QED BY <1>3, <1>4, <1>5, <1>6 DEF HistoryInv, Serves

LEMMA HistoryNext ==
    ASSUME CallInv, FreshInv, WindowInv, HistoryInv, [Next]_vars
    PROVE  HistoryInv'
<1>0. maxSeq \in Nat
  BY DEF CallInv, RowsOK
<1>1. CASE SendMsg \/ UNCHANGED vars
  <2>1. /\ op' = op /\ todo' = todo /\ got' = got /\ torn' = torn /\ asked' = asked
        /\ userMin' = userMin /\ began' = began
        /\ maxSeq' = maxSeq \/ maxSeq' = maxSeq + 1
    BY <1>1 DEF SendMsg, vars, seqVars, callVars, histVars
  <2>2. maxSeq' \in Nat /\ maxSeq <= maxSeq'
    BY <1>0, <2>1
  <2> QED BY <2>1, <2>2, HistoryStill
<1>2. ASSUME NEW k \in CacheKeys, Expire(k) PROVE HistoryInv'
  <2>1. /\ op' = op /\ todo' = todo /\ got' = got /\ torn' = torn /\ asked' = asked
        /\ userMin' = userMin /\ began' = began /\ maxSeq' = maxSeq
    BY <1>2 DEF Expire, seqVars, callVars, histVars
  <2>2. maxSeq' \in Nat /\ maxSeq <= maxSeq'
    BY <1>0, <2>1
  <2> QED BY <2>1, <2>2, HistoryStill
<1>3. ASSUME NEW c \in Call, Start(c) PROVE HistoryInv'
  BY <1>3, HistoryStart
<1>4. ASSUME NEW c \in Call, Serve(c) PROVE HistoryInv'
  <2>1. CASE CacheHit(c) \/ FetchStore(c) \/ ReadStored(c)
    BY <2>1, HistoryReads
  <2>2. CASE FetchLock(c) \/ FetchLoad(c)
    <3>1. /\ op' = op /\ todo' = todo /\ got' = got /\ torn' = torn /\ asked' = asked
          /\ userMin' = userMin /\ began' = began /\ maxSeq' = maxSeq
      BY <2>2 DEF FetchLock, FetchLoad, seqVars, histVars
    <3>2. maxSeq' \in Nat /\ maxSeq <= maxSeq'
      BY <1>0, <3>1
    <3> QED BY <3>1, <3>2, HistoryStill
  <2>3. CASE FlushKey(c)
    BY <2>3, HistoryFlush
  <2>4. CASE CreateMember(c)
    BY <2>4, HistoryCreate
  <2>5. CASE DeleteMembers(c)
    BY <2>5, HistoryDeleteAll
  <2>6. CASE SetUserMin(c)
    BY <2>6, HistoryUserMin
  <2>7. CASE \/ DeleteMember(c) \/ Demote(c) \/ Promote(c) \/ SetRole(c) \/ SetMuted(c)
             \/ SetStatus(c) \/ SetVerify(c) \/ DelRequest(c) \/ AddRequest(c) \/ Handle(c)
             \/ PutConversation(c) \/ SetConvMax(c) \/ SetHasRead(c) \/ Queue(c)
    BY <2>7, HistoryWrites
  <2> QED BY <1>4, <2>1, <2>2, <2>3, <2>4, <2>5, <2>6, <2>7 DEF Serve
<1> QED BY <1>1, <1>2, <1>3, <1>4 DEF Next

GroupInv == LimitInv /\ HistoryInv

LEMMA GroupInvHolds == Spec => []GroupInv
<1>1. Init => GroupInv
  BY FreshStart, WindowInit, HistoryInit DEF GroupInv, LimitInv
<1>2. GroupInv /\ [Next]_vars => GroupInv'
  <2> SUFFICES ASSUME GroupInv, [Next]_vars PROVE GroupInv'
    OBVIOUS
  <2>1. FreshCalls /\ CallInv /\ FreshInv /\ WindowInv /\ HistoryInv
    BY DEF GroupInv, LimitInv, FreshCalls
  <2> QED BY <2>1, FreshNext, WindowNext, HistoryNext DEF GroupInv, LimitInv
<1> QED BY <1>1, <1>2, PTL DEF Spec

(***************************************************************************)
(* HistoryHidden: a user who joined or was invited may read no message     *)
(* that was numbered before the call that let them in, or filed their      *)
(* request, began (GetMaxSeq before CreateGroup, SetConversationUserMinSeq *)
(* after it), once the calls about the user have returned, whatever calls  *)
(* ran at once and however many messages were sent meanwhile.              *)
(***************************************************************************)
THEOREM HistoryHiddenHolds == Spec => []HistoryHidden
<1>1. GroupInv => HistoryHidden
  <2> SUFFICES ASSUME GroupInv, NEW u \in User \ torn, ~Running(u, JoinKinds \cup LeaveKinds)
               PROVE  userMin[u] > asked[u]
    BY DEF HistoryHidden
  <2>1. \A c \in Call : ~Hiding(c, u)
    BY DEF Running, Hiding, Serves, JoinKinds
  <2> QED BY <2>1 DEF GroupInv, HistoryInv
<1> QED BY <1>1, GroupInvHolds, PTL

=============================================================================
