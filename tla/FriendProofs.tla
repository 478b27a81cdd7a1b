---------------------------- MODULE FriendProofs -----------------------------
(***************************************************************************)
(* Proofs about Friend, for any number of users, goroutines and requests   *)
(* and any rows to start from.                                             *)
(***************************************************************************)
EXTENDS Friend, Functions, TLAPS

-----------------------------------------------------------------------------
(* What a call has still to do, request by request.                         *)

FlushOf(k) == <<"flush", k>>
FlushBy(o)   == FlushOf(Friends(o.by))
FlushPeer(o) == FlushOf(Friends(o.peer))

ApplyTodo(o) ==
    {<<Friends(o.by), Friends(o.peer), Req(Pair(o)), Write("file")>>,
     <<Friends(o.peer), Req(Pair(o)), Write("file")>>,
     <<Req(Pair(o)), Write("file")>>,
     <<Write("file")>>}

BeforeAgree(o) ==
    {<<Req(Swap(Pair(o))), Write("agree"), Req(Pair(o)), Rows(Pair(o)), FlushBy(o), FlushPeer(o)>>,
     <<Write("agree"), Req(Pair(o)), Rows(Pair(o)), FlushBy(o), FlushPeer(o)>>}
BeforeRows(o) ==
    {<<Req(Pair(o)), Rows(Pair(o)), FlushBy(o), FlushPeer(o)>>,
     <<Write("agreeBack"), Rows(Pair(o)), FlushBy(o), FlushPeer(o)>>,
     <<Rows(Pair(o)), FlushBy(o), FlushPeer(o)>>}
AgreeInserts(o) ==
    {<<Insert(Pair(o)), Insert(Swap(Pair(o))), FlushBy(o), FlushPeer(o)>>,
     <<Insert(Pair(o)), FlushBy(o), FlushPeer(o)>>,
     <<Insert(Swap(Pair(o))), FlushBy(o), FlushPeer(o)>>}
AgreeFlushes(o) == {<<FlushBy(o), FlushPeer(o)>>, <<FlushPeer(o)>>}

RefuseTodo(o) == {<<Req(Swap(Pair(o))), Write("refuse")>>, <<Write("refuse")>>}

BeforeDelete(o) ==
    {<<Rows(Pair(o)), Write("delete"), FlushPeer(o), FlushBy(o)>>,
     <<Write("delete"), FlushPeer(o), FlushBy(o)>>}
ImportStart(o) == <<Insert(Pair(o)), Insert(Swap(Pair(o))), FlushPeer(o), FlushBy(o)>>
ImportMid(o)   == <<Insert(Swap(Pair(o))), FlushPeer(o), FlushBy(o)>>
PeerFlushes(o) == {<<FlushPeer(o), FlushBy(o)>>, <<FlushBy(o)>>}

FlushBlack(o) == <<FlushOf(Blacks(o.by))>>

SendChecks(o) ==
    {<<Blacks(o.by), Blacks(o.peer), Friends(o.peer), Friends(o.by), Write("queue")>>,
     <<Blacks(o.by), Blacks(o.peer), Write("queue")>>,
     <<Blacks(o.peer), Friends(o.peer), Friends(o.by), Write("queue")>>,
     <<Blacks(o.peer), Write("queue")>>}
SendPassed(o) ==
    {<<Friends(o.peer), Friends(o.by), Write("queue")>>,
     <<Friends(o.by), Write("queue")>>,
     <<Write("queue")>>}

BlackKinds == {"addBlack", "removeBlack"}

Plan(o, t) ==
    \/ o.kind = "apply"  /\ t \in ApplyTodo(o)
    \/ o.kind = "agree"  /\ t \in BeforeAgree(o) \cup BeforeRows(o) \cup AgreeInserts(o) \cup AgreeFlushes(o)
    \/ o.kind = "refuse" /\ t \in RefuseTodo(o)
    \/ o.kind = "delete" /\ t \in BeforeDelete(o) \cup PeerFlushes(o)
    \/ o.kind = "import" /\ t \in {ImportStart(o), ImportMid(o)} \cup PeerFlushes(o)
    \/ o.kind \in BlackKinds /\ t \in {<<Write(o.kind), FlushOf(Blacks(o.by))>>, FlushBlack(o)}
    \/ o.kind = "send"   /\ t \in SendChecks(o) \cup SendPassed(o)

\* A request the service can be given.
IsRequest(o) == o.kind \in Kinds /\ Pair(o) \in Pairs

-----------------------------------------------------------------------------
(* The inductive invariant.                                                 *)

Entries == {Absent} \cup { Held(c) : c \in Call } \cup { Full(v) : v \in SUBSET User }

RowsOK ==
    /\ friend \subseteq Pairs /\ black \subseteq Pairs
    /\ \A o \in ask : IsRequest(o)
    /\ entry \in [CacheKeys -> Entries]
    /\ val \in [Call -> Entries]
    /\ DOMAIN op = Call /\ DOMAIN todo = Call /\ DOMAIN got = Call

\* A call follows its plan.
PlanOK ==
    \A c \in Call :
        \/ op[c] = NoRequest /\ todo[c] = <<>> /\ got[c] = Nothing
        \/ IsRequest(op[c]) /\ Plan(op[c], todo[c])

\* A fetch runs for the key the call reads next.
FetchOK == \A c \in Call : val[c] # Absent => todo[c] # <<>> /\ Head(todo[c]) \in CacheKeys

\* What a call knows of the rows it adds.
GotOK ==
    \A c \in Call :
        /\ \A k \in DOMAIN got[c] : k[1] = "insert" =>
               todo[c] # <<>> /\ Head(todo[c])[1] \in {"insert", "flush"}
        /\ op[c].kind = "agree" /\ todo[c] \in AgreeInserts(op[c]) => Rows(Pair(op[c])) \in DOMAIN got[c]
        /\ op[c].kind = "import" /\ todo[c] = ImportMid(op[c]) => Insert(Pair(op[c])) \in DOMAIN got[c]

CallInv == RowsOK /\ PlanOK /\ FetchOK /\ GotOK

FriendRows(u) == { v \in User : <<u, v>> \in friend }

\* Call c has written a row of u's friend list and has still to delete the entry.
Owes(c, u) ==
    /\ FlushOf(Friends(u)) \in Range(todo[c])
    /\ \/ Head(todo[c])[1] = "flush"
       \/ \E p \in Pairs : p[1] = u /\ Insert(p) \in DOMAIN got[c]
Excused(u) == Friends(u) \in abandoned \/ \E c \in Call : Owes(c, u)

\* The value that is in the entry of k, or will be once the fetch that holds its lock stores it.
Incoming(k, v) ==
    \/ entry[k] = Full(v)
    \/ \E c \in Call : entry[k] = Held(c) /\ val[c] = Full(v) /\ Head(todo[c]) = k

FriendsFresh == \A u \in User : \A v \in SUBSET User :
    Incoming(Friends(u), v) /\ v # FriendRows(u) => Excused(u)

\* Call c has written the row of u about w and deletes the entry of the blacklist next.
Blocking(c, u, w) ==
    op[c].kind \in BlackKinds /\ Pair(op[c]) = <<u, w>> /\ todo[c] = FlushBlack(op[c])

BlacksFresh == \A u \in User : \A v \in SUBSET User : \A w \in User :
    Incoming(Blacks(u), v) /\ ~(w \in v <=> <<u, w>> \in black) => \E c \in Call : Blocking(c, u, w)

\* A send that began blocked is still to read the blacklist, and will find the sender there.
Barred(c) ==
    /\ c \in Call
    /\ op[c].kind = "send" /\ todo[c] \in SendChecks(op[c])
    /\ Swap(Pair(op[c])) \in black
    /\ ~Running(Swap(Pair(op[c])), BlackKinds)
    /\ Head(todo[c]) = Blacks(op[c].peer) =>
           \A v \in SUBSET User : val[c] = Full(v) => op[c].by \in v
BarredOK == \A c \in barred : Barred(c)

Adder(d, p) == op[d].kind \in {"agree", "import"} /\ Pair(op[d]) \in Both(p)
\* d is about to add rows, or agreed and is about to look which ones are missing.
Inserting(d) == todo[d] # <<>> /\ Head(todo[d])[1] = "insert"
Looking(d)   == op[d].kind = "agree" /\ todo[d] \in BeforeRows(op[d])

\* Nobody who adds rows of the pair leaves a missing one out.
Complete(d, p) ==
    Adder(d, p) /\ Inserting(d) => \A q \in Both(p) : q \in friend \/ Insert(q) \in Range(todo[d])
AddsMissing == \A p \in Pairs \ cut : \A d \in Call : Complete(d, p)

\* Someone adds exactly the missing rows, or will look for them.
Fills(d, p) ==
    /\ Adder(d, p)
    /\ \/ Looking(d)
       \/ Inserting(d) /\ \A q \in Both(p) : q \in friend => Insert(q) \notin Range(todo[d])
SomeoneAdds == \A p \in Pairs \ cut : Both(p) \subseteq friend \/ \E d \in Call : Fills(d, p)

FreshInv == FriendsFresh /\ BlacksFresh
BothInv  == AddsMissing /\ SomeoneAdds

-----------------------------------------------------------------------------
(* Facts about short sequences.                                             *)

LEMMA SeqEquality ==
    ASSUME NEW S, NEW s \in Seq(S), NEW t \in Seq(S), Len(s) = Len(t),
           \A i \in 1 .. Len(s) : s[i] = t[i]
    PROVE  s = t
OBVIOUS

LEMMA Tails ==
    /\ \A a : Tail(<<a>>) = <<>>
    /\ \A a, b : Tail(<<a, b>>) = <<b>>
    /\ \A a, b, c : Tail(<<a, b, c>>) = <<b, c>>
    /\ \A a, b, c, d : Tail(<<a, b, c, d>>) = <<b, c, d>>
    /\ \A a, b, c, d, e : Tail(<<a, b, c, d, e>>) = <<b, c, d, e>>
    /\ \A a, b, c, d, e, f : Tail(<<a, b, c, d, e, f>>) = <<b, c, d, e, f>>
OBVIOUS

LEMMA Heads ==
    /\ \A a : Head(<<a>>) = a /\ <<a>> # <<>>
    /\ \A a, b : Head(<<a, b>>) = a /\ <<a, b>> # <<>>
    /\ \A a, b, c : Head(<<a, b, c>>) = a /\ <<a, b, c>> # <<>>
    /\ \A a, b, c, d : Head(<<a, b, c, d>>) = a /\ <<a, b, c, d>> # <<>>
    /\ \A a, b, c, d, e : Head(<<a, b, c, d, e>>) = a /\ <<a, b, c, d, e>> # <<>>
    /\ \A a, b, c, d, e, f : Head(<<a, b, c, d, e, f>>) = a /\ <<a, b, c, d, e, f>> # <<>>
OBVIOUS

LEMMA Ranges ==
    /\ \A a : Range(<<a>>) = {a}
    /\ \A a, b : Range(<<a, b>>) = {a, b}
    /\ \A a, b, c : Range(<<a, b, c>>) = {a, b, c}
    /\ \A a, b, c, d : Range(<<a, b, c, d>>) = {a, b, c, d}
    /\ \A a, b, c, d, e : Range(<<a, b, c, d, e>>) = {a, b, c, d, e}
    /\ \A a, b, c, d, e, f : Range(<<a, b, c, d, e, f>>) = {a, b, c, d, e, f}
<1>1. \A a : Range(<<a>>) = {a}
  BY DEF Range
<1>2. \A a, b : Range(<<a, b>>) = {a, b}
  BY DEF Range
<1>3. \A a, b, c : Range(<<a, b, c>>) = {a, b, c}
  BY DEF Range
<1>4. \A a, b, c, d : Range(<<a, b, c, d>>) = {a, b, c, d}
  BY DEF Range
<1>5. \A a, b, c, d, e : Range(<<a, b, c, d, e>>) = {a, b, c, d, e}
  BY DEF Range
<1>6. \A a, b, c, d, e, f : Range(<<a, b, c, d, e, f>>) = {a, b, c, d, e, f}
  BY DEF Range
<1> QED BY <1>1, <1>2, <1>3, <1>4, <1>5, <1>6

LEMMA EmptyFirst ==
    /\ <<>> \o <<>> = <<>>
    /\ \A a : <<>> \o <<a>> = <<a>>
    /\ \A a, b : <<>> \o <<a, b>> = <<a, b>>
    /\ \A a, b, c : <<>> \o <<a, b, c>> = <<a, b, c>>
    /\ \A a, b, c, d : <<>> \o <<a, b, c, d>> = <<a, b, c, d>>
    /\ \A a, b, c, d, e : <<>> \o <<a, b, c, d, e>> = <<a, b, c, d, e>>
<1>1. ASSUME NEW S, NEW s \in Seq(S) PROVE <<>> \o s = s
  OBVIOUS
<1>2. \A a, b, c, d, e :
          /\ <<>> \in Seq({a}) /\ <<a>> \in Seq({a}) /\ <<a, b>> \in Seq({a, b})
          /\ <<a, b, c>> \in Seq({a, b, c}) /\ <<a, b, c, d>> \in Seq({a, b, c, d})
          /\ <<a, b, c, d, e>> \in Seq({a, b, c, d, e})
  OBVIOUS
<1> QED BY <1>1, <1>2

LEMMA EmptyLast ==
    /\ \A a : <<a>> \o <<>> = <<a>>
    /\ \A a, b : <<a, b>> \o <<>> = <<a, b>>
<1>1. ASSUME NEW S, NEW s \in Seq(S) PROVE s \o <<>> = s
  OBVIOUS
<1>2. \A a, b : <<a>> \in Seq({a, b}) /\ <<a, b>> \in Seq({a, b})
  OBVIOUS
<1> QED BY <1>1, <1>2

LEMMA TwoConcat ==
    ASSUME NEW a, NEW b
    PROVE  <<a>> \o <<b>> = <<a, b>>
<1> DEFINE S == {a, b}
           s == <<a>> \o <<b>>
           t == <<a, b>>
<1>1. s \in Seq(S) /\ Len(s) = 2 /\ t \in Seq(S) /\ Len(t) = 2
  OBVIOUS
<1>2. s[1] = a /\ s[2] = b
  OBVIOUS
<1>3. \A i \in 1 .. 2 : s[i] = t[i]
  BY <1>2
<1> HIDE DEF S, s, t
<1>4. s = t
  BY <1>1, <1>3, SeqEquality
<1> QED BY <1>4 DEF s, t

LEMMA ThreeConcat1 ==
    ASSUME NEW a, NEW b, NEW c
    PROVE  <<a>> \o <<b, c>> = <<a, b, c>>
<1> DEFINE S == {a, b, c}
           s == <<a>> \o <<b, c>>
           t == <<a, b, c>>
<1>1. s \in Seq(S) /\ Len(s) = 3 /\ t \in Seq(S) /\ Len(t) = 3
  OBVIOUS
<1>2. s[1] = a /\ s[2] = b /\ s[3] = c
  OBVIOUS
<1>3. \A i \in 1 .. 3 : s[i] = t[i]
  BY <1>2
<1> HIDE DEF S, s, t
<1>4. s = t
  BY <1>1, <1>3, SeqEquality
<1> QED BY <1>4 DEF s, t

LEMMA ThreeConcat2 ==
    ASSUME NEW a, NEW b, NEW c
    PROVE  <<a, b>> \o <<c>> = <<a, b, c>>
<1> DEFINE S == {a, b, c}
           s == <<a, b>> \o <<c>>
           t == <<a, b, c>>
<1>1. s \in Seq(S) /\ Len(s) = 3 /\ t \in Seq(S) /\ Len(t) = 3
  OBVIOUS
<1>2. s[1] = a /\ s[2] = b /\ s[3] = c
  OBVIOUS
<1>3. \A i \in 1 .. 3 : s[i] = t[i]
  BY <1>2
<1> HIDE DEF S, s, t
<1>4. s = t
  BY <1>1, <1>3, SeqEquality
<1> QED BY <1>4 DEF s, t

LEMMA FourConcat1 ==
    ASSUME NEW a, NEW b, NEW c, NEW d
    PROVE  <<a>> \o <<b, c, d>> = <<a, b, c, d>>
<1> DEFINE S == {a, b, c, d}
           s == <<a>> \o <<b, c, d>>
           t == <<a, b, c, d>>
<1>1. s \in Seq(S) /\ Len(s) = 4 /\ t \in Seq(S) /\ Len(t) = 4
  OBVIOUS
<1>2. s[1] = a /\ s[2] = b /\ s[3] = c /\ s[4] = d
  OBVIOUS
<1>3. \A i \in 1 .. 4 : s[i] = t[i]
  BY <1>2
<1> HIDE DEF S, s, t
<1>4. s = t
  BY <1>1, <1>3, SeqEquality
<1> QED BY <1>4 DEF s, t

LEMMA FourConcat2 ==
    ASSUME NEW a, NEW b, NEW c, NEW d
    PROVE  <<a, b>> \o <<c, d>> = <<a, b, c, d>>
<1> DEFINE S == {a, b, c, d}
           s == <<a, b>> \o <<c, d>>
           t == <<a, b, c, d>>
<1>1. s \in Seq(S) /\ Len(s) = 4 /\ t \in Seq(S) /\ Len(t) = 4
  OBVIOUS
<1>2. s[1] = a /\ s[2] = b /\ s[3] = c /\ s[4] = d
  OBVIOUS
<1>3. \A i \in 1 .. 4 : s[i] = t[i]
  BY <1>2
<1> HIDE DEF S, s, t
<1>4. s = t
  BY <1>1, <1>3, SeqEquality
<1> QED BY <1>4 DEF s, t

LEMMA FiveConcat ==
    ASSUME NEW a, NEW b, NEW c, NEW d, NEW e
    PROVE  <<a, b, c, d>> \o <<e>> = <<a, b, c, d, e>>
<1> DEFINE S == {a, b, c, d, e}
           s == <<a, b, c, d>> \o <<e>>
           t == <<a, b, c, d, e>>
<1>1. s \in Seq(S) /\ Len(s) = 5 /\ t \in Seq(S) /\ Len(t) = 5
  OBVIOUS
<1>2. s[1] = a /\ s[2] = b /\ s[3] = c /\ s[4] = d /\ s[5] = e
  OBVIOUS
<1>3. \A i \in 1 .. 5 : s[i] = t[i]
  BY <1>2
<1> HIDE DEF S, s, t
<1>4. s = t
  BY <1>1, <1>3, SeqEquality
<1> QED BY <1>4 DEF s, t

LEMMA SixConcat ==
    ASSUME NEW a, NEW b, NEW c, NEW d, NEW e, NEW f
    PROVE  <<a, b, c, d>> \o <<e, f>> = <<a, b, c, d, e, f>>
<1> DEFINE S == {a, b, c, d, e, f}
           s == <<a, b, c, d>> \o <<e, f>>
           t == <<a, b, c, d, e, f>>
<1>1. s \in Seq(S) /\ Len(s) = 6 /\ t \in Seq(S) /\ Len(t) = 6
  OBVIOUS
<1>2. s[1] = a /\ s[2] = b /\ s[3] = c /\ s[4] = d /\ s[5] = e /\ s[6] = f
  OBVIOUS
<1>3. \A i \in 1 .. 6 : s[i] = t[i]
  BY <1>2
<1> HIDE DEF S, s, t
<1>4. s = t
  BY <1>1, <1>3, SeqEquality
<1> QED BY <1>4 DEF s, t


-----------------------------------------------------------------------------
(* Plans: a call starts with one, and a step leads from one to the next.    *)

LEMMA FlushTuple ==
    ASSUME NEW a, NEW b
    PROVE  Flush(<<a>>) = <<FlushOf(a)>> /\ Flush(<<a, b>>) = <<FlushOf(a), FlushOf(b)>>
BY DEF Flush, FlushOf

\* The two users of a request differ, and so do the keys about them.
LEMMA RequestFacts ==
    ASSUME NEW o, IsRequest(o)
    PROVE  /\ o.by \in User /\ o.peer \in User /\ o.by # o.peer
           /\ Pair(o) \in Pairs /\ Swap(Pair(o)) \in Pairs /\ Pair(o) # Swap(Pair(o))
           /\ Pair(o)[1] = o.by /\ Pair(o)[2] = o.peer
           /\ Swap(Pair(o))[1] = o.peer /\ Swap(Pair(o))[2] = o.by
           /\ Swap(Swap(Pair(o))) = Pair(o)
<1>1. <<o.by, o.peer>> \in User \X User /\ o.by # o.peer
  BY DEF IsRequest, Pair, Pairs
<1> QED BY <1>1 DEF Pair, Pairs, Swap

\* The two parts of a command.
LEMMA Words ==
    /\ \A u : Friends(u)[1] = "friends" /\ Friends(u)[2] = u
    /\ \A u : Blacks(u)[1] = "blacks" /\ Blacks(u)[2] = u
    /\ \A p : Req(p)[1] = "request" /\ Req(p)[2] = p
    /\ \A p : Rows(p)[1] = "rows" /\ Rows(p)[2] = p
    /\ \A p : Insert(p)[1] = "insert" /\ Insert(p)[2] = p
    /\ \A w : Write(w)[1] = "write" /\ Write(w)[2] = w
    /\ \A k : FlushOf(k)[1] = "flush" /\ FlushOf(k)[2] = k
    /\ \A o : FlushBy(o)[1] = "flush" /\ FlushPeer(o)[1] = "flush"
BY DEF Friends, Blacks, Req, Rows, Insert, Write, FlushOf, FlushBy, FlushPeer

\* The first words of what is to do next.
LEMMA PlanHeads ==
    ASSUME NEW o, IsRequest(o), NEW t
    PROVE  /\ Plan(o, t) => t # <<>>
           /\ t \in ApplyTodo(o) => Head(t)[1] \in {"friends", "request", "write"}
           /\ t \in BeforeAgree(o) \cup BeforeRows(o) => Head(t)[1] \in {"request", "write", "rows"}
           /\ t \in AgreeInserts(o) => Head(t)[1] = "insert"
           /\ t \in AgreeFlushes(o) \cup PeerFlushes(o) => Head(t)[1] = "flush"
           /\ t \in RefuseTodo(o) => Head(t)[1] \in {"request", "write"}
           /\ t \in BeforeDelete(o) => Head(t)[1] \in {"rows", "write"}
           /\ t \in {ImportStart(o), ImportMid(o)} => Head(t)[1] = "insert"
           /\ t = <<Write(o.kind), FlushOf(Blacks(o.by))>> => Head(t)[1] = "write"
           /\ t = FlushBlack(o) => Head(t)[1] = "flush"
           /\ t \in SendChecks(o) => Head(t)[1] = "blacks"
           /\ t \in SendPassed(o) => Head(t)[1] \in {"friends", "write"}
<1> USE DEF Friends, Blacks, Req, Rows, Write, Insert, FlushOf, FlushBy, FlushPeer
<1>1. t \in ApplyTodo(o) => t # <<>> /\ Head(t)[1] \in {"friends", "request", "write"}
  BY Heads DEF ApplyTodo
<1>2. t \in BeforeAgree(o) \cup BeforeRows(o) => t # <<>> /\ Head(t)[1] \in {"request", "write", "rows"}
  BY Heads DEF BeforeAgree, BeforeRows
<1>3. t \in AgreeInserts(o) => t # <<>> /\ Head(t)[1] = "insert"
  BY Heads DEF AgreeInserts
<1>4. t \in AgreeFlushes(o) \cup PeerFlushes(o) => t # <<>> /\ Head(t)[1] = "flush"
  BY Heads DEF AgreeFlushes, PeerFlushes
<1>5. t \in RefuseTodo(o) => t # <<>> /\ Head(t)[1] \in {"request", "write"}
  BY Heads DEF RefuseTodo
<1>6. t \in BeforeDelete(o) => t # <<>> /\ Head(t)[1] \in {"rows", "write"}
  BY Heads DEF BeforeDelete
<1>7. t \in {ImportStart(o), ImportMid(o)} => t # <<>> /\ Head(t)[1] = "insert"
  BY Heads DEF ImportStart, ImportMid
<1>8. t = <<Write(o.kind), FlushOf(Blacks(o.by))>> => t # <<>> /\ Head(t)[1] = "write"
  BY Heads
<1>9. t = FlushBlack(o) => t # <<>> /\ Head(t)[1] = "flush"
  BY Heads DEF FlushBlack
<1>10. t \in SendChecks(o) => t # <<>> /\ Head(t)[1] = "blacks"
  BY Heads DEF SendChecks
<1>11. t \in SendPassed(o) => t # <<>> /\ Head(t)[1] \in {"friends", "write"}
  BY Heads DEF SendPassed
<1>12. Plan(o, t) => t # <<>>
  BY <1>1, <1>2, <1>3, <1>4, <1>5, <1>6, <1>7, <1>8, <1>9, <1>10, <1>11 DEF Plan
<1> QED BY <1>1, <1>2, <1>3, <1>4, <1>5, <1>6, <1>7, <1>8, <1>9, <1>10, <1>11, <1>12

LEMMA StartPlan ==
    ASSUME NEW o, IsRequest(o), NEW t, t = Follow(o, Nothing, Begin)
    PROVE  /\ Plan(o, t)
           /\ Head(t)[1] # "flush"
           /\ o.kind = "agree" => t \in BeforeAgree(o)
           /\ o.kind = "import" => t = ImportStart(o)
           /\ o.kind \in BlackKinds => t # FlushBlack(o)
           /\ o.kind = "send" => t \in SendChecks(o) /\ Head(t) = Blacks(o.by)
<1>1. CASE o.kind = "apply"
  <2>1. t = <<Friends(o.by), Friends(o.peer), Req(Pair(o)), Write("file")>>
    BY <1>1 DEF Follow, ApplyToAddFriend, Begin, Friends
  <2> QED BY <1>1, <2>1, PlanHeads, Heads DEF BlackKinds, Plan, ApplyTodo
<1>2. CASE o.kind = "agree"
  <2>1. t = <<Req(Swap(Pair(o))), Write("agree"), Req(Pair(o)), Rows(Pair(o))>> \o OfBoth(o)
    BY <1>2 DEF Follow, AgreeFriendRequest, Begin, Req, Rows
  <2>2. OfBoth(o) = <<FlushBy(o), FlushPeer(o)>>
    BY <1>2, FlushTuple DEF OfBoth, FlushBy, FlushPeer
  <2>3. t = <<Req(Swap(Pair(o))), Write("agree"), Req(Pair(o)), Rows(Pair(o)), FlushBy(o), FlushPeer(o)>>
    BY <2>1, <2>2, SixConcat
  <2> QED BY <1>2, <2>3, PlanHeads, Heads DEF BlackKinds, Plan, BeforeAgree
<1>3. CASE o.kind = "refuse"
  <2>1. t = <<Req(Swap(Pair(o))), Write("refuse")>>
    BY <1>3 DEF Follow, RefuseFriendRequest, Begin, Req
  <2> QED BY <1>3, <2>1, PlanHeads, Heads DEF BlackKinds, Plan, RefuseTodo
<1>4. CASE o.kind = "delete"
  <2>1. t = <<Rows(Pair(o)), Write("delete")>> \o OfBoth(o)
    BY <1>4 DEF Follow, DeleteFriend, Begin, Rows
  <2>2. OfBoth(o) = <<FlushPeer(o), FlushBy(o)>>
    BY <1>4, FlushTuple DEF OfBoth, FlushBy, FlushPeer
  <2>3. t = <<Rows(Pair(o)), Write("delete"), FlushPeer(o), FlushBy(o)>>
    BY <2>1, <2>2, FourConcat2
  <2> QED BY <1>4, <2>3, PlanHeads, Heads DEF BlackKinds, Plan, BeforeDelete
<1>5. CASE o.kind = "import"
  <2>1. t = <<Insert(Pair(o)), Insert(Swap(Pair(o)))>> \o OfBoth(o)
    BY <1>5 DEF Follow, BecomeFriends
  <2>2. OfBoth(o) = <<FlushPeer(o), FlushBy(o)>>
    BY <1>5, FlushTuple DEF OfBoth, FlushBy, FlushPeer
  <2>3. t = ImportStart(o)
    BY <2>1, <2>2, FourConcat2 DEF ImportStart
  <2> QED BY <1>5, <2>3, PlanHeads, Heads DEF BlackKinds, Plan
<1>6. CASE o.kind \in BlackKinds
  <2>1. t = <<Write(o.kind)>> \o Flush(<<Blacks(o.by)>>)
    BY <1>6 DEF Follow, ChangeBlack, OfOwner, BlackKinds
  <2>2. t = <<Write(o.kind), FlushOf(Blacks(o.by))>>
    BY <2>1, FlushTuple, TwoConcat
  <2> QED BY <1>6, <2>2, PlanHeads, Heads DEF BlackKinds, Plan
<1>7. CASE o.kind = "send"
  <2>1. t = <<Blacks(o.by), Blacks(o.peer)>>
            \o (IF FriendVerify THEN <<Friends(o.peer), Friends(o.by)>> ELSE <<>>)
            \o <<Write("queue")>>
    BY <1>7 DEF Follow, sendMsgSingleChat, Begin, Blacks, Friends
  <2>2. CASE FriendVerify
    <3>1. t = (<<Blacks(o.by), Blacks(o.peer)>> \o <<Friends(o.peer), Friends(o.by)>>)
              \o <<Write("queue")>>
      BY <2>1, <2>2
    <3>2. t = <<Blacks(o.by), Blacks(o.peer), Friends(o.peer), Friends(o.by)>> \o <<Write("queue")>>
      BY <3>1, FourConcat2
    <3>3. t = <<Blacks(o.by), Blacks(o.peer), Friends(o.peer), Friends(o.by), Write("queue")>>
      BY <3>2, FiveConcat
    <3> QED BY <1>7, <3>3, PlanHeads, Heads DEF BlackKinds, Plan, SendChecks
  <2>3. CASE ~FriendVerify
    <3>1. t = (<<Blacks(o.by), Blacks(o.peer)>> \o <<>>) \o <<Write("queue")>>
      BY <2>1, <2>3
    <3>2. t = <<Blacks(o.by), Blacks(o.peer)>> \o <<Write("queue")>>
      BY <3>1, EmptyLast
    <3>3. t = <<Blacks(o.by), Blacks(o.peer), Write("queue")>>
      BY <3>2, ThreeConcat2
    <3> QED BY <1>7, <3>3, PlanHeads, Heads DEF BlackKinds, Plan, SendChecks
  <2> QED BY <2>2, <2>3
<1> QED BY <1>1, <1>2, <1>3, <1>4, <1>5, <1>6, <1>7 DEF BlackKinds, IsRequest, Kinds

\* A write is the last but the deletions of entries.
LEMMA WritePlan ==
    ASSUME NEW o, IsRequest(o), NEW t, Plan(o, t), NEW w, Head(t) = Write(w)
    PROVE  /\ w = "file" => Tail(t) = <<>>
           /\ w = "refuse" => Tail(t) = <<>>
           /\ w = "queue" => o.kind = "send" /\ t \notin SendChecks(o) /\ Tail(t) = <<>>
           /\ w = "agree" => o.kind = "agree" /\ t \in BeforeAgree(o) /\ Tail(t) \in BeforeRows(o)
           /\ w = "agreeBack" => o.kind = "agree" /\ t \in BeforeRows(o) /\ Tail(t) \in BeforeRows(o)
           /\ w = "delete" => o.kind = "delete" /\ Tail(t) = <<FlushPeer(o), FlushBy(o)>>
           /\ w \in BlackKinds => o.kind = w /\ Tail(t) = FlushBlack(o)
<1>0. /\ Head(t)[1] = "write" /\ Head(t)[2] = w
      /\ t \notin AgreeInserts(o) \cup AgreeFlushes(o) \cup PeerFlushes(o) \cup SendChecks(o)
      /\ t # ImportStart(o) /\ t # ImportMid(o) /\ t # FlushBlack(o)
  BY PlanHeads, Words
<1>1. CASE o.kind = "apply"
  <2>1. t \in ApplyTodo(o)
    BY <1>1 DEF Plan, BlackKinds
  <2>2. t = <<Write("file")>>
    BY <1>0, <2>1, Heads, Words DEF ApplyTodo
  <2>3. w = "file" /\ Tail(t) = <<>>
    BY <1>0, <2>2, Heads, Tails, Words
  <2> QED BY <2>3 DEF BlackKinds
<1>2. CASE o.kind = "agree"
  <2>1. t \in BeforeAgree(o) \cup BeforeRows(o)
    BY <1>0, <1>2 DEF Plan, BlackKinds
  <2>2. \/ t = <<Write("agree"), Req(Pair(o)), Rows(Pair(o)), FlushBy(o), FlushPeer(o)>>
        \/ t = <<Write("agreeBack"), Rows(Pair(o)), FlushBy(o), FlushPeer(o)>>
    BY <1>0, <2>1, Heads, Words DEF BeforeAgree, BeforeRows
  <2>3. CASE t = <<Write("agree"), Req(Pair(o)), Rows(Pair(o)), FlushBy(o), FlushPeer(o)>>
    <3>1. w = "agree" /\ Tail(t) = <<Req(Pair(o)), Rows(Pair(o)), FlushBy(o), FlushPeer(o)>>
      BY <1>0, <2>3, Heads, Tails, Words
    <3>2. t \in BeforeAgree(o) /\ Tail(t) \in BeforeRows(o)
      BY <2>3, <3>1 DEF BeforeAgree, BeforeRows
    <3> QED BY <1>2, <3>1, <3>2 DEF BlackKinds
  <2>4. CASE t = <<Write("agreeBack"), Rows(Pair(o)), FlushBy(o), FlushPeer(o)>>
    <3>1. w = "agreeBack" /\ Tail(t) = <<Rows(Pair(o)), FlushBy(o), FlushPeer(o)>>
      BY <1>0, <2>4, Heads, Tails, Words
    <3>2. t \in BeforeRows(o) /\ Tail(t) \in BeforeRows(o)
      BY <2>4, <3>1 DEF BeforeRows
    <3> QED BY <1>2, <3>1, <3>2 DEF BlackKinds
  <2> QED BY <2>2, <2>3, <2>4
<1>3. CASE o.kind = "refuse"
  <2>1. t \in RefuseTodo(o)
    BY <1>3 DEF Plan, BlackKinds
  <2>2. t = <<Write("refuse")>>
    BY <1>0, <2>1, Heads, Words DEF RefuseTodo
  <2>3. w = "refuse" /\ Tail(t) = <<>>
    BY <1>0, <2>2, Heads, Tails, Words
  <2> QED BY <2>3 DEF BlackKinds
<1>4. CASE o.kind = "delete"
  <2>1. t \in BeforeDelete(o)
    BY <1>0, <1>4 DEF Plan, BlackKinds
  <2>2. t = <<Write("delete"), FlushPeer(o), FlushBy(o)>>
    BY <1>0, <2>1, Heads, Words DEF BeforeDelete
  <2>3. w = "delete" /\ Tail(t) = <<FlushPeer(o), FlushBy(o)>>
    BY <1>0, <2>2, Heads, Tails, Words
  <2> QED BY <1>4, <2>3 DEF BlackKinds
<1>5. CASE o.kind = "import"
  BY <1>0, <1>5 DEF Plan, BlackKinds
<1>6. CASE o.kind \in BlackKinds
  <2>1. t = <<Write(o.kind), FlushOf(Blacks(o.by))>>
    BY <1>0, <1>6 DEF Plan, BlackKinds
  <2>2. w = o.kind /\ Tail(t) = FlushBlack(o)
    BY <1>0, <2>1, Heads, Tails, Words DEF FlushBlack
  <2> QED BY <1>6, <2>2 DEF BlackKinds
<1>7. CASE o.kind = "send"
  <2>1. t \in SendPassed(o)
    BY <1>0, <1>7 DEF Plan, BlackKinds
  <2>2. t = <<Write("queue")>>
    BY <1>0, <2>1, Heads, Words DEF SendPassed
  <2>3. w = "queue" /\ Tail(t) = <<>>
    BY <1>0, <2>2, Heads, Tails, Words
  <2> QED BY <1>0, <1>7, <2>3 DEF BlackKinds
<1> QED BY <1>1, <1>2, <1>3, <1>4, <1>5, <1>6, <1>7 DEF Plan

\* An insert is followed by the deletion of the entries of both users.
LEMMA InsertPlan ==
    ASSUME NEW o, IsRequest(o), NEW t, Plan(o, t), Head(t)[1] = "insert",
           NEW q, q = Head(t)[2]
    PROVE  /\ q \in Both(Pair(o))
           /\ o.kind \in {"agree", "import"}
           /\ Head(t) = Insert(q)
           /\ Plan(o, Tail(t)) /\ Tail(t) # <<>> /\ Head(Tail(t))[1] \in {"insert", "flush"}
           /\ FlushBy(o) \in Range(Tail(t)) /\ FlushPeer(o) \in Range(Tail(t))
           /\ Range(t) = {Head(t)} \cup Range(Tail(t))
           /\ Insert(q) \notin Range(Tail(t))
           /\ o.kind = "agree" => t \in AgreeInserts(o)
           /\ Tail(t) = ImportMid(o) /\ o.kind = "import" => q = Pair(o)
           /\ Insert(Swap(q)) \in Range(Tail(t)) => Head(Tail(t))[1] = "insert"
<1> DEFINE P == Pair(o)
           S == Swap(Pair(o))
<1>0. P # S /\ P \in Both(P) /\ S \in Both(P) /\ Swap(S) = P
  BY RequestFacts DEF Both
<1>1. CASE o.kind = "agree"
  <2>1. t \in AgreeInserts(o)
    BY <1>1, PlanHeads DEF Plan, BlackKinds
  <2>2. CASE t = <<Insert(P), Insert(S), FlushBy(o), FlushPeer(o)>>
    <3>1. Head(t) = Insert(P) /\ Tail(t) = <<Insert(S), FlushBy(o), FlushPeer(o)>>
      BY <2>2, Heads, Tails
    <3>0. q = P
      BY <3>1, Words
    <3>2. /\ Range(t) = {Insert(P), Insert(S), FlushBy(o), FlushPeer(o)}
          /\ Range(Tail(t)) = {Insert(S), FlushBy(o), FlushPeer(o)}
      BY <2>2, <3>1, Ranges
    <3>3. Tail(t) \in AgreeInserts(o)
      BY <3>1 DEF AgreeInserts
    <3>4. Insert(P) \notin Range(Tail(t))
      BY <1>0, <3>2, Words
    <3>5. Plan(o, Tail(t)) /\ Tail(t) # <<>> /\ Head(Tail(t))[1] = "insert"
      BY <1>1, <3>3, PlanHeads DEF Plan
    <3> QED BY <1>0, <3>0, <1>1, <2>1, <3>1, <3>2, <3>4, <3>5
  <2>3. CASE t = <<Insert(P), FlushBy(o), FlushPeer(o)>>
    <3>1. Head(t) = Insert(P) /\ Tail(t) = <<FlushBy(o), FlushPeer(o)>>
      BY <2>3, Heads, Tails
    <3>0. q = P
      BY <3>1, Words
    <3>2. /\ Range(t) = {Insert(P), FlushBy(o), FlushPeer(o)}
          /\ Range(Tail(t)) = {FlushBy(o), FlushPeer(o)}
      BY <2>3, <3>1, Ranges
    <3>4. Insert(P) \notin Range(Tail(t)) /\ Insert(S) \notin Range(Tail(t))
      BY <3>2, Words
    <3>3. Tail(t) \in AgreeFlushes(o)
      BY <3>1 DEF AgreeFlushes
    <3>5. Plan(o, Tail(t)) /\ Tail(t) # <<>> /\ Head(Tail(t))[1] = "flush"
      BY <1>1, <3>3, PlanHeads DEF Plan
    <3> QED BY <1>0, <3>0, <1>1, <2>1, <3>1, <3>2, <3>4, <3>5
  <2>4. CASE t = <<Insert(S), FlushBy(o), FlushPeer(o)>>
    <3>1. Head(t) = Insert(S) /\ Tail(t) = <<FlushBy(o), FlushPeer(o)>>
      BY <2>4, Heads, Tails
    <3>0. q = S
      BY <3>1, Words
    <3>2. /\ Range(t) = {Insert(S), FlushBy(o), FlushPeer(o)}
          /\ Range(Tail(t)) = {FlushBy(o), FlushPeer(o)}
      BY <2>4, <3>1, Ranges
    <3>4. Insert(P) \notin Range(Tail(t)) /\ Insert(S) \notin Range(Tail(t))
      BY <3>2, Words
    <3>3. Tail(t) \in AgreeFlushes(o)
      BY <3>1 DEF AgreeFlushes
    <3>5. Plan(o, Tail(t)) /\ Tail(t) # <<>> /\ Head(Tail(t))[1] = "flush"
      BY <1>1, <3>3, PlanHeads DEF Plan
    <3> QED BY <1>0, <3>0, <1>1, <2>1, <3>1, <3>2, <3>4, <3>5
  <2> QED BY <2>1, <2>2, <2>3, <2>4 DEF AgreeInserts
<1>2. CASE o.kind = "import"
  <2>1. t = ImportStart(o) \/ t = ImportMid(o)
    BY <1>2, PlanHeads DEF Plan, BlackKinds
  <2>2. CASE t = ImportStart(o)
    <3>1. Head(t) = Insert(P) /\ Tail(t) = ImportMid(o)
      BY <2>2, Heads, Tails DEF ImportStart, ImportMid
    <3>0. q = P
      BY <3>1, Words
    <3>2. /\ Range(t) = {Insert(P), Insert(S), FlushPeer(o), FlushBy(o)}
          /\ Range(Tail(t)) = {Insert(S), FlushPeer(o), FlushBy(o)}
      BY <2>2, <3>1, Ranges DEF ImportStart, ImportMid
    <3>3. Insert(P) \notin Range(Tail(t))
      BY <1>0, <3>2, Words
    <3>4. Plan(o, Tail(t)) /\ Tail(t) # <<>> /\ Head(Tail(t))[1] = "insert"
      BY <1>2, <3>1, PlanHeads DEF Plan
    <3> QED BY <1>0, <3>0, <1>2, <3>1, <3>2, <3>3, <3>4
  <2>3. CASE t = ImportMid(o)
    <3>1. Head(t) = Insert(S) /\ Tail(t) = <<FlushPeer(o), FlushBy(o)>>
      BY <2>3, Heads, Tails DEF ImportMid
    <3>0. q = S
      BY <3>1, Words
    <3>2. /\ Range(t) = {Insert(S), FlushPeer(o), FlushBy(o)}
          /\ Range(Tail(t)) = {FlushPeer(o), FlushBy(o)}
      BY <2>3, <3>1, Ranges DEF ImportMid
    <3>3. Insert(P) \notin Range(Tail(t)) /\ Insert(S) \notin Range(Tail(t))
      BY <3>2, Words
    <3>6. Tail(t) \in PeerFlushes(o)
      BY <3>1 DEF PeerFlushes
    <3>4. Plan(o, Tail(t)) /\ Tail(t) # <<>> /\ Head(Tail(t))[1] = "flush"
      BY <1>2, <3>6, PlanHeads DEF Plan
    <3>5. Tail(t) # ImportMid(o)
      BY <3>4, PlanHeads
    <3> QED BY <1>0, <3>0, <1>2, <3>1, <3>2, <3>3, <3>4, <3>5
  <2> QED BY <2>1, <2>2, <2>3
<1>3. o.kind \in {"agree", "import"}
  BY PlanHeads DEF Plan, BlackKinds
<1> QED BY <1>1, <1>2, <1>3

\* After the first deletion of an entry there are only deletions.
LEMMA FlushPlan ==
    ASSUME NEW o, IsRequest(o), NEW t, Plan(o, t), Head(t)[1] = "flush"
    PROVE  \E k \in CacheKeys :
               /\ Head(t) = FlushOf(k)
               /\ Tail(t) = <<>> \/ (Plan(o, Tail(t)) /\ Head(Tail(t))[1] = "flush")
               /\ Range(t) \subseteq {Head(t)} \cup Range(Tail(t))
               /\ o.kind \in BlackKinds =>
                      t = FlushBlack(o) /\ k = Blacks(o.by) /\ Tail(t) = <<>>
<1>0. FlushBy(o) = FlushOf(Friends(o.by)) /\ FlushPeer(o) = FlushOf(Friends(o.peer))
      /\ Friends(o.by) \in CacheKeys /\ Friends(o.peer) \in CacheKeys /\ Blacks(o.by) \in CacheKeys
  BY RequestFacts DEF FlushBy, FlushPeer, CacheKeys
<1>1. CASE o.kind \in BlackKinds
  <2>1. t = <<FlushOf(Blacks(o.by))>>
    BY <1>1, PlanHeads DEF Plan, BlackKinds, FlushBlack
  <2>2. Head(t) = FlushOf(Blacks(o.by)) /\ Tail(t) = <<>> /\ Range(t) = {FlushOf(Blacks(o.by))}
    BY <2>1, Heads, Tails, Ranges
  <2> QED BY <1>0, <2>1, <2>2 DEF FlushBlack
<1>2. CASE o.kind = "agree"
  <2>1. t \in AgreeFlushes(o)
    BY <1>2, PlanHeads DEF Plan, BlackKinds
  <2>2. CASE t = <<FlushBy(o), FlushPeer(o)>>
    <3>1. Head(t) = FlushBy(o) /\ Tail(t) = <<FlushPeer(o)>> /\ Range(t) = {FlushBy(o), FlushPeer(o)}
          /\ Range(Tail(t)) = {FlushPeer(o)} /\ Tail(t) \in AgreeFlushes(o)
      BY <2>2, Heads, Tails, Ranges DEF AgreeFlushes
    <3>2. Plan(o, Tail(t)) /\ Head(Tail(t))[1] = "flush"
      BY <1>2, <3>1, PlanHeads DEF Plan
    <3> QED BY <1>0, <1>2, <3>1, <3>2 DEF BlackKinds
  <2>3. CASE t = <<FlushPeer(o)>>
    <3>1. Head(t) = FlushPeer(o) /\ Tail(t) = <<>> /\ Range(t) = {FlushPeer(o)}
      BY <2>3, Heads, Tails, Ranges
    <3> QED BY <1>0, <1>2, <3>1 DEF BlackKinds
  <2> QED BY <2>1, <2>2, <2>3 DEF AgreeFlushes
<1>3. CASE o.kind \in {"delete", "import"}
  <2>1. t \in PeerFlushes(o)
    BY <1>3, PlanHeads DEF Plan, BlackKinds
  <2>2. CASE t = <<FlushPeer(o), FlushBy(o)>>
    <3>1. Head(t) = FlushPeer(o) /\ Tail(t) = <<FlushBy(o)>> /\ Range(t) = {FlushPeer(o), FlushBy(o)}
          /\ Range(Tail(t)) = {FlushBy(o)} /\ Tail(t) \in PeerFlushes(o)
      BY <2>2, Heads, Tails, Ranges DEF PeerFlushes
    <3>2. Plan(o, Tail(t)) /\ Head(Tail(t))[1] = "flush"
      BY <1>3, <3>1, PlanHeads DEF Plan
    <3> QED BY <1>0, <1>3, <3>1, <3>2 DEF BlackKinds
  <2>3. CASE t = <<FlushBy(o)>>
    <3>1. Head(t) = FlushBy(o) /\ Tail(t) = <<>> /\ Range(t) = {FlushBy(o)}
      BY <2>3, Heads, Tails, Ranges
    <3> QED BY <1>0, <1>3, <3>1 DEF BlackKinds
  <2> QED BY <2>1, <2>2, <2>3 DEF PeerFlushes
<1>4. o.kind \in BlackKinds \cup {"agree", "delete", "import"}
  BY PlanHeads DEF Plan, BlackKinds
<1> QED BY <1>1, <1>2, <1>3, <1>4

\* What follows a read: nothing, an error, or the commands that depend on what was found.
LEMMA ReadApply ==
    ASSUME NEW o, IsRequest(o), o.kind = "apply", NEW t \in ApplyTodo(o), NEW g,
           NEW q, q = Follow(o, g, Head(t)), Head(t)[1] # "write", q # Error
    PROVE  q \o Tail(t) \in ApplyTodo(o)
<1>1. q = ApplyToAddFriend(o, g, Head(t))
  BY DEF Follow
<1>2. ASSUME Head(t)[1] \in {"friends", "request"} PROVE q = <<>>
  BY <1>1, <1>2 DEF ApplyToAddFriend, Unless, Begin, Friends
<1>3. \/ t = <<Friends(o.by), Friends(o.peer), Req(Pair(o)), Write("file")>>
      \/ t = <<Friends(o.peer), Req(Pair(o)), Write("file")>>
      \/ t = <<Req(Pair(o)), Write("file")>>
  BY Heads, Words DEF ApplyTodo
<1>4. Head(t)[1] \in {"friends", "request"}
  BY PlanHeads
<1>5. \/ Tail(t) = <<Friends(o.peer), Req(Pair(o)), Write("file")>>
      \/ Tail(t) = <<Req(Pair(o)), Write("file")>>
      \/ Tail(t) = <<Write("file")>>
  <2>1. CASE t = <<Friends(o.by), Friends(o.peer), Req(Pair(o)), Write("file")>>
    BY <2>1, Tails
  <2>2. CASE t = <<Friends(o.peer), Req(Pair(o)), Write("file")>>
    BY <2>2, Tails
  <2>3. CASE t = <<Req(Pair(o)), Write("file")>>
    BY <2>3, Tails
  <2> QED BY <1>3, <2>1, <2>2, <2>3
<1>6. q \o Tail(t) = Tail(t)
  BY <1>2, <1>4, <1>5, EmptyFirst
<1> QED BY <1>5, <1>6 DEF ApplyTodo

LEMMA ReadBeforeAgree ==
    ASSUME NEW o, IsRequest(o), o.kind = "agree", NEW t \in BeforeAgree(o), NEW g,
           NEW q, q = Follow(o, g, Head(t)), Head(t)[1] # "write", q # Error
    PROVE  q \o Tail(t) \in BeforeAgree(o)
<1>1. t = <<Req(Swap(Pair(o))), Write("agree"), Req(Pair(o)), Rows(Pair(o)), FlushBy(o), FlushPeer(o)>>
  BY Heads, Words DEF BeforeAgree
<1>2. /\ Head(t) = Req(Swap(Pair(o)))
      /\ Tail(t) = <<Write("agree"), Req(Pair(o)), Rows(Pair(o)), FlushBy(o), FlushPeer(o)>>
  BY <1>1, Heads, Tails
<1>3. Pair(o) # Swap(Pair(o))
  BY RequestFacts
<1>4. q = AgreeFriendRequest(o, g, Req(Swap(Pair(o))))
  BY <1>2 DEF Follow
<1>5. q = <<>>
  BY <1>3, <1>4 DEF AgreeFriendRequest, Unless, Begin, Req, Rows
<1>6. q \o Tail(t) = Tail(t)
  BY <1>2, <1>5, EmptyFirst
<1> QED BY <1>2, <1>6 DEF BeforeAgree

LEMMA ErrorIsNone ==
    /\ <<>> # Error
    /\ \A x, y : <<x, y>> # Error
    /\ \A x : x[1] # "error" => <<x>> # Error
<1>1. <<>> # Error /\ \A x, y : <<x, y>> # Error
  BY DEF Error
<1>2. ASSUME NEW x, x[1] # "error", <<x>> = Error PROVE FALSE
  <2>1. x = <<"error">>
    BY <1>2, Heads DEF Error
  <2> QED BY <1>2, <2>1
<1> QED BY <1>1, <1>2

LEMMA ReadBeforeRows ==
    ASSUME NEW o, IsRequest(o), o.kind = "agree", NEW t \in BeforeRows(o), NEW g,
           NEW q, q = Follow(o, g, Head(t)), Head(t)[1] # "write",
           NEW r, r = q \o Tail(t)
    PROVE  /\ q # Error
           /\ \/ Head(t) # Rows(Pair(o)) /\ r \in BeforeRows(o)
              \/ /\ Head(t) = Rows(Pair(o))
                 /\ r \in AgreeInserts(o) \cup AgreeFlushes(o)
                 /\ \A x \in Both(Pair(o)) :
                        Insert(x) \in Range(r) <=> x \notin g[Rows(Pair(o))]
<1> DEFINE P == Pair(o)
           S == Swap(Pair(o))
<1>0. P # S /\ Both(P) = {P, S}
  BY RequestFacts DEF Both
<1>1. \/ t = <<Req(P), Rows(P), FlushBy(o), FlushPeer(o)>>
      \/ t = <<Rows(P), FlushBy(o), FlushPeer(o)>>
  BY Heads, Words DEF BeforeRows
<1>2. q = AgreeFriendRequest(o, g, Head(t))
  BY DEF Follow
<1>3. CASE t = <<Req(P), Rows(P), FlushBy(o), FlushPeer(o)>>
  <2>1. Head(t) = Req(P) /\ Tail(t) = <<Rows(P), FlushBy(o), FlushPeer(o)>>
    BY <1>3, Heads, Tails
  <2>2. q = <<Write("agreeBack")>> \/ q = <<>>
    BY <1>0, <1>2, <2>1 DEF AgreeFriendRequest, Begin, Req, Rows
  <2>3. CASE q = <<>>
    <3>1. r = <<Rows(P), FlushBy(o), FlushPeer(o)>>
      BY <2>1, <2>3, EmptyFirst
    <3>2. Head(t) # Rows(P)
      BY <2>1, Words
    <3>3. r \in BeforeRows(o)
      BY <3>1 DEF BeforeRows
    <3> QED BY <2>3, <3>2, <3>3, ErrorIsNone
  <2>4. CASE q = <<Write("agreeBack")>>
    <3>1. r = <<Write("agreeBack"), Rows(P), FlushBy(o), FlushPeer(o)>>
      BY <2>1, <2>4, FourConcat1
    <3>2. q # Error
      BY <2>4, ErrorIsNone, Words
    <3>3. Head(t) # Rows(P)
      BY <2>1, Words
    <3>4. r \in BeforeRows(o)
      BY <3>1 DEF BeforeRows
    <3> QED BY <3>2, <3>3, <3>4
  <2> QED BY <2>2, <2>3, <2>4
<1>4. CASE t = <<Rows(P), FlushBy(o), FlushPeer(o)>>
  <2>1. Head(t) = Rows(P) /\ Tail(t) = <<FlushBy(o), FlushPeer(o)>>
    BY <1>4, Heads, Tails
  <2>2. q = Adds(o, g[Rows(P)])
    BY <1>0, <1>2, <2>1 DEF AgreeFriendRequest, Begin, Req, Rows
  <2> DEFINE v == g[Rows(P)]
  <2>3. q = Unfound(P, v) \o Unfound(S, v)
    BY <2>2 DEF Adds
  <2> HIDE DEF v
  <2>4. CASE P \in v /\ S \in v
    <3>1. q = <<>>
      BY <2>3, <2>4, EmptyFirst DEF Unfound
    <3>2. r = <<FlushBy(o), FlushPeer(o)>>
      BY <2>1, <3>1, EmptyFirst
    <3>6. Range(<<FlushBy(o), FlushPeer(o)>>) = {FlushBy(o), FlushPeer(o)}
      BY Ranges
    <3>3. Range(r) = {FlushBy(o), FlushPeer(o)}
      BY <3>2, <3>6
    <3>4. \A x : Insert(x) \notin Range(r)
      BY <3>3, Words
    <3> QED BY <1>0, <2>1, <2>4, <3>1, <3>2, <3>4, ErrorIsNone DEF AgreeFlushes, v
  <2>5. CASE P \notin v /\ S \in v
    <3>1. q = <<Insert(P)>>
      BY <2>3, <2>5, EmptyLast DEF Unfound
    <3>2. r = <<Insert(P), FlushBy(o), FlushPeer(o)>>
      BY <2>1, <3>1, ThreeConcat1
    <3>6. Range(<<Insert(P), FlushBy(o), FlushPeer(o)>>) = {Insert(P), FlushBy(o), FlushPeer(o)}
      BY Ranges
    <3>3. Range(r) = {Insert(P), FlushBy(o), FlushPeer(o)}
      BY <3>2, <3>6
    <3>4. Insert(P) \in Range(r) /\ Insert(S) \notin Range(r)
      BY <1>0, <3>3, Words
    <3>5. q # Error
      BY <3>1, ErrorIsNone, Words
    <3> QED BY <1>0, <2>1, <2>5, <3>2, <3>4, <3>5 DEF AgreeInserts, v
  <2>6. CASE P \in v /\ S \notin v
    <3>1. q = <<Insert(S)>>
      BY <2>3, <2>6, EmptyFirst DEF Unfound
    <3>2. r = <<Insert(S), FlushBy(o), FlushPeer(o)>>
      BY <2>1, <3>1, ThreeConcat1
    <3>6. Range(<<Insert(S), FlushBy(o), FlushPeer(o)>>) = {Insert(S), FlushBy(o), FlushPeer(o)}
      BY Ranges
    <3>3. Range(r) = {Insert(S), FlushBy(o), FlushPeer(o)}
      BY <3>2, <3>6
    <3>4. Insert(S) \in Range(r) /\ Insert(P) \notin Range(r)
      BY <1>0, <3>3, Words
    <3>5. q # Error
      BY <3>1, ErrorIsNone, Words
    <3> QED BY <1>0, <2>1, <2>6, <3>2, <3>4, <3>5 DEF AgreeInserts, v
  <2>7. CASE P \notin v /\ S \notin v
    <3>1. q = <<Insert(P), Insert(S)>>
      BY <2>3, <2>7, TwoConcat DEF Unfound
    <3>2. r = <<Insert(P), Insert(S), FlushBy(o), FlushPeer(o)>>
      BY <2>1, <3>1, FourConcat2
    <3>6. Range(<<Insert(P), Insert(S), FlushBy(o), FlushPeer(o)>>) = {Insert(P), Insert(S), FlushBy(o), FlushPeer(o)}
      BY Ranges
    <3>3. Range(r) = {Insert(P), Insert(S), FlushBy(o), FlushPeer(o)}
      BY <3>2, <3>6
    <3>4. Insert(S) \in Range(r) /\ Insert(P) \in Range(r)
      BY <3>3
    <3>5. q # Error
      BY <3>1, ErrorIsNone
    <3> QED BY <1>0, <2>1, <2>7, <3>2, <3>4, <3>5 DEF AgreeInserts, v
  <2> QED BY <2>4, <2>5, <2>6, <2>7
<1> QED BY <1>1, <1>3, <1>4

LEMMA ReadSend ==
    ASSUME NEW o, IsRequest(o), o.kind = "send", NEW t \in SendChecks(o), NEW g,
           NEW q, q = Follow(o, g, Head(t))
    PROVE  \/ /\ Head(t) = Blacks(o.by) /\ q # Error
              /\ q \o Tail(t) \in SendChecks(o) /\ Head(q \o Tail(t)) = Blacks(o.peer)
           \/ /\ Head(t) = Blacks(o.peer)
              /\ q # Error => q \o Tail(t) \in SendPassed(o)
              /\ o.by \in g[Head(t)] => q = Error
<1>0. o.by # o.peer
  BY RequestFacts
<1>1. q = sendMsgSingleChat(o, g, Head(t))
  BY DEF Follow
<1>2. CASE t \in {<<Blacks(o.by), Blacks(o.peer), Friends(o.peer), Friends(o.by), Write("queue")>>,
                  <<Blacks(o.by), Blacks(o.peer), Write("queue")>>}
  <2>1. Head(t) = Blacks(o.by)
    BY <1>2, Heads
  <2>2. q = <<>>
    BY <1>0, <1>1, <2>1 DEF sendMsgSingleChat, Begin, Blacks, Friends
  <2>3. Tail(t) \in {<<Blacks(o.peer), Friends(o.peer), Friends(o.by), Write("queue")>>,
                     <<Blacks(o.peer), Write("queue")>>}
    <3>1. CASE t = <<Blacks(o.by), Blacks(o.peer), Friends(o.peer), Friends(o.by), Write("queue")>>
      BY <3>1, Tails
    <3>2. CASE t = <<Blacks(o.by), Blacks(o.peer), Write("queue")>>
      BY <3>2, Tails
    <3> QED BY <1>2, <3>1, <3>2
  <2>4. q \o Tail(t) = Tail(t)
    BY <2>2, <2>3, EmptyFirst
  <2>5. Head(Tail(t)) = Blacks(o.peer)
    <3>1. CASE Tail(t) = <<Blacks(o.peer), Friends(o.peer), Friends(o.by), Write("queue")>>
      <4>1. Head(<<Blacks(o.peer), Friends(o.peer), Friends(o.by), Write("queue")>>) = Blacks(o.peer)
        BY Heads
      <4> QED BY <3>1, <4>1, Zenon
    <3>2. CASE Tail(t) = <<Blacks(o.peer), Write("queue")>>
      BY <3>2, Heads, Zenon
    <3> QED BY <2>3, <3>1, <3>2
  <2> QED BY <2>1, <2>2, <2>3, <2>4, <2>5, ErrorIsNone DEF SendChecks
<1>3. CASE t \in {<<Blacks(o.peer), Friends(o.peer), Friends(o.by), Write("queue")>>,
                  <<Blacks(o.peer), Write("queue")>>}
  <2>1. Head(t) = Blacks(o.peer)
    BY <1>3, Heads
  <2>2. q = Unless(o.by \in g[Head(t)])
    BY <1>1, <2>1 DEF sendMsgSingleChat, Begin, Blacks, Friends
  <2>3. Tail(t) \in {<<Friends(o.peer), Friends(o.by), Write("queue")>>, <<Write("queue")>>}
    <3>1. CASE t = <<Blacks(o.peer), Friends(o.peer), Friends(o.by), Write("queue")>>
      BY <3>1, Tails
    <3>2. CASE t = <<Blacks(o.peer), Write("queue")>>
      BY <3>2, Tails
    <3> QED BY <1>3, <3>1, <3>2
  <2>4. q # Error => q \o Tail(t) = Tail(t)
    BY <2>2, <2>3, EmptyFirst DEF Unless
  <2> QED BY <2>1, <2>2, <2>3, <2>4 DEF SendPassed, Unless
<1> QED BY <1>2, <1>3 DEF SendChecks

LEMMA ReadSendPassed ==
    ASSUME NEW o, IsRequest(o), o.kind = "send", NEW t \in SendPassed(o), NEW g,
           NEW q, q = Follow(o, g, Head(t)), Head(t)[1] # "write", q # Error
    PROVE  q \o Tail(t) \in SendPassed(o)
<1>1. q = sendMsgSingleChat(o, g, Head(t))
  BY DEF Follow
<1>2. t \in {<<Friends(o.peer), Friends(o.by), Write("queue")>>, <<Friends(o.by), Write("queue")>>}
  BY Heads, Words DEF SendPassed
<1>3. Head(t) \in {Friends(o.peer), Friends(o.by)}
  BY <1>2, Heads
<1>4. q = <<>>
  BY <1>1, <1>3 DEF sendMsgSingleChat, Begin, Blacks, Friends, Unless
<1>5. Tail(t) \in {<<Friends(o.by), Write("queue")>>, <<Write("queue")>>}
  <2>1. CASE t = <<Friends(o.peer), Friends(o.by), Write("queue")>>
    BY <2>1, Tails
  <2>2. CASE t = <<Friends(o.by), Write("queue")>>
    BY <2>2, Tails
  <2> QED BY <1>2, <2>1, <2>2
<1>6. q \o Tail(t) = Tail(t)
  BY <1>4, <1>5, EmptyFirst
<1> QED BY <1>5, <1>6 DEF SendPassed

LEMMA ReadRefuse ==
    ASSUME NEW o, IsRequest(o), o.kind = "refuse", NEW t \in RefuseTodo(o), NEW g,
           NEW q, q = Follow(o, g, Head(t)), Head(t)[1] # "write", q # Error
    PROVE  q \o Tail(t) \in RefuseTodo(o)
<1>1. t = <<Req(Swap(Pair(o))), Write("refuse")>>
  BY Heads, Words DEF RefuseTodo
<1>2. Head(t) = Req(Swap(Pair(o))) /\ Tail(t) = <<Write("refuse")>>
  BY <1>1, Heads, Tails
<1>3. q = RefuseFriendRequest(o, g, Req(Swap(Pair(o))))
  BY <1>2 DEF Follow
<1>4. q = <<>>
  BY <1>3 DEF RefuseFriendRequest, Unless, Begin, Req
<1> QED BY <1>2, <1>4, EmptyFirst DEF RefuseTodo

LEMMA ReadDelete ==
    ASSUME NEW o, IsRequest(o), o.kind = "delete", NEW t \in BeforeDelete(o), NEW g,
           NEW q, q = Follow(o, g, Head(t)), Head(t)[1] # "write", q # Error
    PROVE  q \o Tail(t) \in BeforeDelete(o)
<1>1. t = <<Rows(Pair(o)), Write("delete"), FlushPeer(o), FlushBy(o)>>
  BY Heads, Words DEF BeforeDelete
<1>2. Head(t) = Rows(Pair(o)) /\ Tail(t) = <<Write("delete"), FlushPeer(o), FlushBy(o)>>
  BY <1>1, Heads, Tails
<1>3. q = DeleteFriend(o, g, Rows(Pair(o)))
  BY <1>2 DEF Follow
<1>4. q = <<>>
  BY <1>3 DEF DeleteFriend, Unless, Begin, Rows
<1> QED BY <1>2, <1>4, EmptyFirst DEF BeforeDelete

Reads == {"friends", "blacks", "request", "rows"}

LEMMA ReadPlan ==
    ASSUME NEW o, IsRequest(o), NEW t, Plan(o, t), NEW g,
           NEW q, q = Follow(o, g, Head(t)), Head(t)[1] \in Reads
    PROVE  /\ q # Error => Plan(o, q \o Tail(t))
           /\ o.kind \notin BlackKinds \cup {"import"}
           /\ o.kind = "agree" => t \in BeforeAgree(o) \cup BeforeRows(o)
<1>0. Head(t)[1] \notin {"write", "insert", "flush"}
  BY DEF Reads
<1>1. /\ o.kind \notin BlackKinds \cup {"import"}
      /\ o.kind = "agree" => t \in BeforeAgree(o) \cup BeforeRows(o)
  BY <1>0, PlanHeads DEF Plan, BlackKinds
<1>2. ASSUME q # Error PROVE Plan(o, q \o Tail(t))
  <2>1. CASE o.kind = "apply"
    BY <1>0, <1>2, <2>1, ReadApply DEF Plan, BlackKinds
  <2>2. CASE o.kind = "agree"
    BY <1>0, <1>1, <1>2, <2>2, ReadBeforeAgree, ReadBeforeRows DEF Plan
  <2>3. CASE o.kind = "refuse"
    BY <1>0, <1>2, <2>3, ReadRefuse DEF Plan, BlackKinds
  <2>4. CASE o.kind = "delete"
    <3>1. t \in BeforeDelete(o)
      BY <1>0, <2>4, PlanHeads DEF Plan, BlackKinds
    <3> QED BY <1>0, <1>2, <2>4, <3>1, ReadDelete DEF Plan
  <2>5. CASE o.kind = "send"
    <3>1. t \in SendChecks(o) \cup SendPassed(o)
      BY <2>5 DEF Plan, BlackKinds
    <3>2. q \o Tail(t) \in SendChecks(o) \cup SendPassed(o)
      BY <1>0, <1>2, <2>5, <3>1, ReadSend, ReadSendPassed
    <3> QED BY <2>5, <3>2 DEF Plan
  <2> QED BY <1>1, <2>1, <2>2, <2>3, <2>4, <2>5 DEF Plan
<1> QED BY <1>1, <1>2

-----------------------------------------------------------------------------
(* Calls follow their plans.                                                *)

LEMMA Active ==
    ASSUME CallInv, NEW c \in Call, todo[c] # <<>>
    PROVE  IsRequest(op[c]) /\ Plan(op[c], todo[c])
BY DEF CallInv, PlanOK

LEMMA IdleKind ==
    /\ NoRequest.kind = "none" /\ NoRequest.kind \notin Kinds /\ NoRequest.kind \notin BlackKinds
    /\ DOMAIN Nothing = {}
    /\ ~IsRequest(NoRequest)
BY DEF NoRequest, Kinds, BlackKinds, Nothing, IsRequest

LEMMA EntryFacts ==
    /\ Absent \in Entries
    /\ \A c \in Call : Held(c) \in Entries /\ Held(c).is = "held" /\ Held(c) # Absent
    /\ \A v \in SUBSET User : Full(v) \in Entries
    /\ \A v : Full(v).is = "full" /\ Full(v).value = v /\ Full(v) # Absent
    /\ \A v, c : Full(v) # Held(c)
    /\ Absent.is = "absent"
    /\ \A e \in Entries : e.is = "full" => e.value \in SUBSET User /\ e = Full(e.value)
    /\ \A c, d : Held(c) = Held(d) => c = d
<1>1. \A v : Full(v).is = "full" /\ Full(v).value = v
  BY DEF Full
<1>2. \A c : Held(c).is = "held" /\ Held(c).by = c
  BY DEF Held
<1>3. Absent.is = "absent"
  BY DEF Absent
<1>4. ASSUME NEW e \in Entries, e.is = "full" PROVE e.value \in SUBSET User /\ e = Full(e.value)
  <2>1. PICK v \in SUBSET User : e = Full(v)
    BY <1>2, <1>3, <1>4 DEF Entries
  <2> QED BY <1>1, <2>1
<1> QED BY <1>1, <1>2, <1>3, <1>4 DEF Entries

LEMMA KeyWords ==
    ASSUME NEW k \in CacheKeys
    PROVE  /\ k[1] \in {"friends", "blacks"} /\ k[1] \in Reads
           /\ \E u \in User : k = Friends(u) \/ k = Blacks(u)
           /\ DbValue(k) \in SUBSET User
<1>1. PICK u \in User : k = Friends(u) \/ k = Blacks(u)
  BY DEF CacheKeys
<1> QED BY <1>1 DEF Friends, Blacks, Reads, DbValue

LEMMA KeyValues ==
    ASSUME NEW u \in User
    PROVE  /\ Friends(u) \in CacheKeys /\ Blacks(u) \in CacheKeys
           /\ DbValue(Friends(u)) = FriendRows(u)
           /\ DbValue(Blacks(u)) = { w \in User : <<u, w>> \in black }
BY DEF CacheKeys, DbValue, Friends, Blacks, FriendRows

LEMMA GoFacts ==
    ASSUME CallInv, NEW c \in Call, NEW rest, NEW g, Go(c, rest, g)
    PROVE  /\ todo'[c] = rest
           /\ got'[c] = IF rest = <<>> THEN Nothing ELSE g
           /\ op'[c] = IF rest = <<>> THEN NoRequest ELSE op[c]
           /\ val'[c] = Absent
           /\ \A d \in Call \ {c} : /\ todo'[d] = todo[d] /\ got'[d] = got[d]
                                    /\ op'[d] = op[d] /\ val'[d] = val[d]
           /\ DOMAIN op' = Call /\ DOMAIN todo' = Call /\ DOMAIN got' = Call
           /\ val' \in [Call -> Entries]
           /\ ask' = ask
           /\ barred' \subseteq barred /\ (rest = <<>> => c \notin barred')
<1>1. DOMAIN op = Call /\ DOMAIN todo = Call /\ DOMAIN got = Call /\ val \in [Call -> Entries]
  BY DEF CallInv, RowsOK
<1>2. Absent \in Entries
  BY EntryFacts
<1>3. /\ todo' = [todo EXCEPT ![c] = rest]
      /\ got' = [got EXCEPT ![c] = IF rest = <<>> THEN Nothing ELSE g]
      /\ op' = [op EXCEPT ![c] = IF rest = <<>> THEN NoRequest ELSE op[c]]
      /\ val' = [val EXCEPT ![c] = Absent]
      /\ ask' = ask
      /\ barred' = IF rest = <<>> THEN barred \ {c} ELSE barred
  BY DEF Go
<1>4. val' \in [Call -> Entries] /\ val'[c] = Absent /\ \A d \in Call \ {c} : val'[d] = val[d]
  BY <1>1, <1>2, <1>3
<1>5. DOMAIN todo' = Call /\ todo'[c] = rest /\ \A d \in Call \ {c} : todo'[d] = todo[d]
  BY <1>1, <1>3
<1>6. /\ DOMAIN got' = Call /\ got'[c] = IF rest = <<>> THEN Nothing ELSE g
      /\ \A d \in Call \ {c} : got'[d] = got[d]
  BY <1>1, <1>3
<1>7. /\ DOMAIN op' = Call /\ op'[c] = IF rest = <<>> THEN NoRequest ELSE op[c]
      /\ \A d \in Call \ {c} : op'[d] = op[d]
  BY <1>1, <1>3
<1> QED BY <1>3, <1>4, <1>5, <1>6, <1>7

\* What a call must know when it goes on with the commands rest.
Knows(o, rest, g) ==
    /\ IsRequest(o) /\ Plan(o, rest)
    /\ \A k \in DOMAIN g : k[1] = "insert" => Head(rest)[1] \in {"insert", "flush"}
    /\ o.kind = "agree" /\ rest \in AgreeInserts(o) => Rows(Pair(o)) \in DOMAIN g
    /\ o.kind = "import" /\ rest = ImportMid(o) => Insert(Pair(o)) \in DOMAIN g

LEMMA GoCall ==
    ASSUME CallInv, NEW c \in Call, NEW rest, NEW g, Go(c, rest, g),
           rest # <<>> => Knows(op[c], rest, g),
           friend' \subseteq Pairs, black' \subseteq Pairs, entry' \in [CacheKeys -> Entries]
    PROVE  CallInv'
<1>1. RowsOK'
  BY GoFacts DEF CallInv, RowsOK
<1>2. PlanOK'
  <2> SUFFICES ASSUME NEW d \in Call
               PROVE  \/ op'[d] = NoRequest /\ todo'[d] = <<>> /\ got'[d] = Nothing
                      \/ IsRequest(op'[d]) /\ Plan(op'[d], todo'[d])
    BY DEF PlanOK
  <2>1. CASE d = c /\ rest = <<>>
    BY <2>1, GoFacts
  <2>2. CASE d = c /\ rest # <<>>
    BY <2>2, GoFacts DEF Knows
  <2>3. CASE d # c
    BY <2>3, GoFacts DEF CallInv, PlanOK
  <2> QED BY <2>1, <2>2, <2>3
<1>3. FetchOK'
  BY GoFacts DEF CallInv, FetchOK
<1>4. GotOK'
  <2> SUFFICES ASSUME NEW d \in Call
               PROVE  /\ \A k \in DOMAIN got'[d] : k[1] = "insert" =>
                             todo'[d] # <<>> /\ Head(todo'[d])[1] \in {"insert", "flush"}
                      /\ op'[d].kind = "agree" /\ todo'[d] \in AgreeInserts(op'[d]) =>
                             Rows(Pair(op'[d])) \in DOMAIN got'[d]
                      /\ op'[d].kind = "import" /\ todo'[d] = ImportMid(op'[d]) =>
                             Insert(Pair(op'[d])) \in DOMAIN got'[d]
    BY DEF GotOK
  <2>1. CASE d = c /\ rest = <<>>
    <3>1. op'[d] = NoRequest /\ got'[d] = Nothing
      BY <2>1, GoFacts
    <3> QED BY <3>1, IdleKind DEF Kinds
  <2>2. CASE d = c /\ rest # <<>>
    <3>1. op'[d] = op[c] /\ got'[d] = g /\ todo'[d] = rest
      BY <2>2, GoFacts
    <3> QED BY <2>2, <3>1 DEF Knows
  <2>3. CASE d # c
    <3>1. op'[d] = op[d] /\ got'[d] = got[d] /\ todo'[d] = todo[d]
      BY <2>3, GoFacts
    <3> QED BY <3>1 DEF CallInv, GotOK
  <2> QED BY <2>1, <2>2, <2>3
<1> QED BY <1>1, <1>2, <1>3, <1>4 DEF CallInv

\* A call that reads or writes has inserted no row yet.
LEMMA NoInserts ==
    ASSUME CallInv, NEW c \in Call, todo[c] # <<>>, Head(todo[c])[1] \notin {"insert", "flush"}
    PROVE  \A k \in DOMAIN got[c] : k[1] # "insert"
BY DEF CallInv, GotOK

\* What a call goes on with after a read.
ReadStep(o, t, v, rest) ==
    /\ o.kind \notin BlackKinds \cup {"import"}
    /\ o.kind = "agree" =>
           \/ t \in BeforeAgree(o) /\ (rest = <<>> \/ rest \in BeforeAgree(o))
           \/ t \in BeforeRows(o) /\ rest \in BeforeRows(o)
           \/ /\ t \in BeforeRows(o) /\ Head(t) = Rows(Pair(o))
              /\ rest \in AgreeInserts(o) \cup AgreeFlushes(o)
              /\ \A x \in Both(Pair(o)) : Insert(x) \in Range(rest) <=> x \notin v
    /\ o.kind = "send" /\ t \in SendChecks(o) =>
           \/ Head(t) = Blacks(o.by) /\ rest \in SendChecks(o) /\ Head(rest) = Blacks(o.peer)
           \/ Head(t) = Blacks(o.peer) /\ (o.by \in v => rest = <<>>)

LEMMA ReadOn ==
    ASSUME NEW o, IsRequest(o), NEW t, Plan(o, t), Head(t)[1] \in Reads,
           NEW D, \A k \in D : k[1] # "insert",
           NEW g, DOMAIN g = D \cup {Head(t)},
           NEW q, q = Follow(o, g, Head(t)),
           NEW r, r = q \o Tail(t),
           NEW rest, rest = IF q = Error THEN <<>> ELSE r
    PROVE  /\ rest # <<>> => Knows(o, rest, g)
           /\ ReadStep(o, t, g[Head(t)], rest)
<1>0. Head(t)[1] \notin {"write", "insert", "flush"}
  BY DEF Reads
<1>1. /\ o.kind \notin BlackKinds \cup {"import"}
      /\ o.kind = "agree" => t \in BeforeAgree(o) \cup BeforeRows(o)
      /\ q # Error => Plan(o, r)
  BY ReadPlan
<1>2. \A k \in DOMAIN g : k[1] # "insert"
  BY <1>0
<1>3. ASSUME o.kind = "agree"
      PROVE  \/ t \in BeforeAgree(o) /\ (rest = <<>> \/ rest \in BeforeAgree(o))
             \/ t \in BeforeRows(o) /\ rest \in BeforeRows(o)
             \/ /\ t \in BeforeRows(o) /\ Head(t) = Rows(Pair(o))
                /\ rest \in AgreeInserts(o) \cup AgreeFlushes(o)
                /\ \A x \in Both(Pair(o)) : Insert(x) \in Range(rest) <=> x \notin g[Head(t)]
  <2>1. CASE t \in BeforeAgree(o)
    BY <1>0, <1>3, <2>1, ReadBeforeAgree
  <2>2. CASE t \in BeforeRows(o)
    <3>1. /\ q # Error
          /\ \/ Head(t) # Rows(Pair(o)) /\ r \in BeforeRows(o)
             \/ /\ Head(t) = Rows(Pair(o))
                /\ r \in AgreeInserts(o) \cup AgreeFlushes(o)
                /\ \A x \in Both(Pair(o)) :
                       Insert(x) \in Range(r) <=> x \notin g[Rows(Pair(o))]
      BY <1>0, <1>3, <2>2, ReadBeforeRows
    <3>2. rest = r
      BY <3>1
    <3> QED BY <2>2, <3>1, <3>2
  <2> QED BY <1>1, <1>3, <2>1, <2>2
<1>4. ASSUME o.kind = "send", t \in SendChecks(o)
      PROVE  \/ Head(t) = Blacks(o.by) /\ rest \in SendChecks(o) /\ Head(rest) = Blacks(o.peer)
             \/ Head(t) = Blacks(o.peer) /\ (o.by \in g[Head(t)] => rest = <<>>)
  BY <1>4, ReadSend
<1>5. ASSUME o.kind = "agree", rest \in AgreeInserts(o) PROVE Rows(Pair(o)) \in DOMAIN g
  <2>1. Head(rest)[1] = "insert" /\ rest # <<>>
    BY <1>5, PlanHeads DEF Plan
  <2>2. rest \notin BeforeAgree(o) \cup BeforeRows(o)
    BY <2>1, PlanHeads
  <2> QED BY <1>3, <1>5, <2>1, <2>2
<1>6. rest # <<>> => Knows(o, rest, g)
  BY <1>1, <1>2, <1>5 DEF Knows, BlackKinds
<1> QED BY <1>1, <1>3, <1>4, <1>6 DEF ReadStep

\* The value that was read reaches the call.
LEMMA DeliverFacts ==
    ASSUME CallInv, NEW c \in Call, NEW v, todo[c] # <<>>, Head(todo[c])[1] \in Reads, Deliver(c, v)
    PROVE  \E rest, g :
               /\ Go(c, rest, g)
               /\ rest # <<>> => Knows(op[c], rest, g)
               /\ ReadStep(op[c], todo[c], v, rest)
<1>1. IsRequest(op[c]) /\ Plan(op[c], todo[c])
  BY Active
<1>2. \A k \in DOMAIN got[c] : k[1] # "insert"
  BY NoInserts DEF Reads
<1>3. PICK h : h = Head(todo[c])
  OBVIOUS
<1>4. PICK g : g = Put(got[c], h, v)
  OBVIOUS
<1>5. PICK q : q = Follow(op[c], g, h)
  OBVIOUS
<1>6. PICK r : r = q \o Tail(todo[c])
  OBVIOUS
<1>7. PICK rest : rest = IF q = Error THEN <<>> ELSE r
  OBVIOUS
<1>8. DOMAIN g = DOMAIN got[c] \cup {h} /\ g[h] = v
  BY <1>4 DEF Put
<1>9. (rest # <<>> => Knows(op[c], rest, g)) /\ ReadStep(op[c], todo[c], v, rest)
  BY <1>1, <1>2, <1>3, <1>5, <1>6, <1>7, <1>8, ReadOn
<1>10. IF q = Error THEN Failed(c) ELSE Go(c, r, g)
  BY <1>3, <1>4, <1>5, <1>6 DEF Deliver
<1>11. Go(c, rest, g)
  <2>1. CASE q = Error
    BY <1>7, <1>10, <2>1 DEF Failed, Go
  <2>2. CASE q # Error
    BY <1>7, <1>10, <2>2
  <2> QED BY <2>1, <2>2
<1> QED BY <1>9, <1>11

\* The three ways to read.
Read(c) == CacheHit(c) \/ FetchStore(c) \/ ReadStored(c)

\* The entry of a key keeps its value, or becomes what the fetch of call c has read.
Stores(c, k) ==
    \/ entry'[k] = entry[k]
    \/ entry[k] = Held(c) /\ entry'[k] = val[c] /\ k = Head(todo[c]) /\ val[c].is = "full"

LEMMA ReadFacts ==
    ASSUME CallInv, NEW c \in Call, Read(c)
    PROVE  \E rest, g, v :
               /\ todo[c] # <<>> /\ Head(todo[c])[1] \in Reads
               /\ Go(c, rest, g)
               /\ rest # <<>> => Knows(op[c], rest, g)
               /\ ReadStep(op[c], todo[c], v, rest)
               /\ UNCHANGED <<friend, black, request, cut, abandoned>>
               /\ entry' \in [CacheKeys -> Entries]
               /\ \A k \in CacheKeys : Stores(c, k)
               /\ Head(todo[c])[1] = "rows" => v = DbValue(Head(todo[c]))
               /\ Head(todo[c]) \in CacheKeys =>
                      v \in SUBSET User /\ (entry[Head(todo[c])] = Full(v) \/ val[c] = Full(v))
<1>0. entry \in [CacheKeys -> Entries] /\ val \in [Call -> Entries]
  BY DEF CallInv, RowsOK
<1>1. CASE CacheHit(c)
  <2>1. todo[c] # <<>> /\ Head(todo[c]) \in CacheKeys /\ Head(todo[c])[1] \in Reads
        /\ Head(todo[c])[1] # "rows"
    BY <1>1, KeyWords DEF CacheHit, Reading
  <2>2. PICK v : v = entry[Head(todo[c])].value
    OBVIOUS
  <2>3. v \in SUBSET User /\ entry[Head(todo[c])] = Full(v)
    BY <1>0, <1>1, <2>1, <2>2, EntryFacts DEF CacheHit, Cached
  <2>4. Deliver(c, v) /\ UNCHANGED <<friend, black, request, entry, cut, abandoned>>
    BY <1>1, <2>2 DEF CacheHit, rowVars
  <2>5. PICK rest, g : /\ Go(c, rest, g)
                       /\ rest # <<>> => Knows(op[c], rest, g)
                       /\ ReadStep(op[c], todo[c], v, rest)
    BY <2>1, <2>4, DeliverFacts
  <2> QED BY <1>0, <2>1, <2>3, <2>4, <2>5 DEF Stores
<1>2. CASE FetchStore(c)
  <2>0. val[c].is = "full" /\ val[c] # Absent
    BY <1>2, EntryFacts DEF FetchStore
  <2>1. todo[c] # <<>> /\ Head(todo[c]) \in CacheKeys
    BY <2>0 DEF CallInv, FetchOK
  <2>11. Head(todo[c])[1] \in Reads /\ Head(todo[c])[1] # "rows"
    BY <2>1, KeyWords
  <2>2. PICK v : v = val[c].value
    OBVIOUS
  <2>3. v \in SUBSET User /\ val[c] = Full(v)
    BY <1>0, <2>0, <2>2, EntryFacts
  <2>4. Deliver(c, v) /\ UNCHANGED <<friend, black, request, cut, abandoned>>
    BY <1>2, <2>2 DEF FetchStore, rowVars
  <2>5. PICK rest, g : /\ Go(c, rest, g)
                       /\ rest # <<>> => Knows(op[c], rest, g)
                       /\ ReadStep(op[c], todo[c], v, rest)
    BY <2>1, <2>11, <2>4, DeliverFacts
  <2>6. entry' = [entry EXCEPT ![Head(todo[c])] =
                      IF entry[Head(todo[c])] = Held(c) THEN val[c] ELSE entry[Head(todo[c])]]
    BY <1>2 DEF FetchStore
  <2>7. entry' \in [CacheKeys -> Entries] /\ \A k \in CacheKeys : Stores(c, k)
    BY <1>0, <2>0, <2>1, <2>6 DEF Stores
  <2> QED BY <2>1, <2>11, <2>3, <2>4, <2>5, <2>7
<1>3. CASE ReadStored(c)
  <2>1. todo[c] # <<>> /\ Head(todo[c])[1] \in {"request", "rows"} /\ Head(todo[c])[1] \in Reads
        /\ Head(todo[c]) \notin CacheKeys
    BY <1>3, KeyWords DEF ReadStored, Reads
  <2>2. PICK v : v = DbValue(Head(todo[c]))
    OBVIOUS
  <2>4. Deliver(c, v) /\ UNCHANGED <<friend, black, request, entry, cut, abandoned>>
    BY <1>3, <2>2 DEF ReadStored, rowVars
  <2>5. PICK rest, g : /\ Go(c, rest, g)
                       /\ rest # <<>> => Knows(op[c], rest, g)
                       /\ ReadStep(op[c], todo[c], v, rest)
    BY <2>1, <2>4, DeliverFacts
  <2> QED BY <1>0, <2>1, <2>2, <2>4, <2>5 DEF Stores
<1> QED BY <1>1, <1>2, <1>3 DEF Read

\* The writes.
Writes == {"file", "agree", "agreeBack", "refuse", "delete", "addBlack", "removeBlack", "queue"}

LEMMA WriteKnows ==
    ASSUME CallInv, NEW c \in Call, NEW w \in Writes, At(c, w), Tail(todo[c]) # <<>>
    PROVE  Knows(op[c], Tail(todo[c]), got[c])
<1>1. todo[c] # <<>> /\ Head(todo[c]) = Write(w) /\ Head(todo[c])[1] = "write"
  BY Words DEF At
<1>2. IsRequest(op[c]) /\ Plan(op[c], todo[c])
  BY <1>1, Active
<1>3. \A k \in DOMAIN got[c] : k[1] # "insert"
  BY <1>1, NoInserts
<1>4. PICK o : o = op[c]
  OBVIOUS
<1>5. PICK t : t = todo[c]
  OBVIOUS
<1>6. PICK r : r = Tail(t)
  OBVIOUS
<1>7. \/ o.kind = "agree" /\ r \in BeforeRows(o)
      \/ o.kind = "delete" /\ r = <<FlushPeer(o), FlushBy(o)>>
      \/ o.kind \in BlackKinds /\ r = FlushBlack(o)
  BY <1>1, <1>2, <1>4, <1>5, <1>6, WritePlan DEF Writes, BlackKinds
<1>8. Plan(o, r)
  BY <1>7 DEF Plan, PeerFlushes, BlackKinds
<1>9. o.kind = "agree" => r \notin AgreeInserts(o)
  BY <1>2, <1>4, <1>7, PlanHeads DEF BlackKinds
<1>10. o.kind # "import"
  BY <1>7 DEF BlackKinds
<1> QED BY <1>2, <1>3, <1>4, <1>5, <1>6, <1>8, <1>9, <1>10 DEF Knows

LEMMA FlushKnows ==
    ASSUME CallInv, NEW c \in Call, todo[c] # <<>>, Head(todo[c])[1] = "flush", Tail(todo[c]) # <<>>
    PROVE  Knows(op[c], Tail(todo[c]), got[c])
<1>1. IsRequest(op[c]) /\ Plan(op[c], todo[c])
  BY Active
<1>2. Plan(op[c], Tail(todo[c])) /\ Head(Tail(todo[c]))[1] = "flush"
  BY <1>1, FlushPlan
<1>3. PICK r : r = Tail(todo[c])
  OBVIOUS
<1>4. r \notin AgreeInserts(op[c]) /\ r # ImportMid(op[c])
  BY <1>1, <1>2, <1>3, PlanHeads
<1> QED BY <1>1, <1>2, <1>3, <1>4 DEF Knows

LEMMA InsertKnows ==
    ASSUME CallInv, NEW c \in Call, todo[c] # <<>>, Head(todo[c])[1] = "insert",
           NEW p, p = Head(todo[c])[2]
    PROVE  /\ p \in Both(Pair(op[c])) /\ p \in Pairs /\ Head(todo[c]) = Insert(p)
           /\ Tail(todo[c]) # <<>>
           /\ Knows(op[c], Tail(todo[c]), Put(got[c], Insert(p), TRUE))
<1>1. IsRequest(op[c]) /\ Plan(op[c], todo[c])
  BY Active
<1>2. PICK o : o = op[c]
  OBVIOUS
<1>3. PICK t : t = todo[c]
  OBVIOUS
<1>4. /\ p \in Both(Pair(o))
      /\ o.kind \in {"agree", "import"}
      /\ Head(t) = Insert(p)
      /\ Plan(o, Tail(t)) /\ Tail(t) # <<>> /\ Head(Tail(t))[1] \in {"insert", "flush"}
      /\ o.kind = "agree" => t \in AgreeInserts(o)
      /\ Tail(t) = ImportMid(o) /\ o.kind = "import" => p = Pair(o)
  <2>1. IsRequest(o) /\ Plan(o, t) /\ Head(t)[1] = "insert" /\ p = Head(t)[2]
    BY <1>1, <1>2, <1>3
  <2>2. p \in Both(Pair(o))
    BY <2>1, InsertPlan
  <2>3. o.kind \in {"agree", "import"}
    BY <2>1, InsertPlan
  <2>4. Head(t) = Insert(p)
    BY <2>1, InsertPlan
  <2>5. Plan(o, Tail(t)) /\ Tail(t) # <<>> /\ Head(Tail(t))[1] \in {"insert", "flush"}
    BY <2>1, InsertPlan
  <2> QED BY <2>1, <2>2, <2>3, <2>4, <2>5, InsertPlan
<1>5. PICK r : r = Tail(t)
  OBVIOUS
<1>6. PICK g : g = Put(got[c], Insert(p), TRUE)
  OBVIOUS
<1>7. DOMAIN g = DOMAIN got[c] \cup {Insert(p)}
  BY <1>6 DEF Put
<1>8. o.kind = "agree" => Rows(Pair(o)) \in DOMAIN got[c]
  BY <1>2, <1>3, <1>4 DEF CallInv, GotOK
<1>9. Knows(o, r, g)
  BY <1>1, <1>2, <1>4, <1>5, <1>7, <1>8 DEF Knows
<1>10. p \in Pairs
  BY <1>1, <1>2, <1>4, RequestFacts DEF Both
<1> QED BY <1>2, <1>3, <1>4, <1>5, <1>6, <1>9, <1>10

LEMMA CallStart ==
    ASSUME CallInv, NEW c \in Call, Start(c)
    PROVE  \E o \in ask :
               /\ IsRequest(o) /\ Idle(c)
               /\ op' = [op EXCEPT ![c] = o]
               /\ todo' = [todo EXCEPT ![c] = Follow(o, Nothing, Begin)]
               /\ op'[c] = o /\ todo'[c] = Follow(o, Nothing, Begin)
               /\ \A d \in Call \ {c} : op'[d] = op[d] /\ todo'[d] = todo[d]
               /\ ask' = ask \ {o}
               /\ barred' = IF o.kind \in BlackKinds
                            THEN barred \ { d \in Call : Pair(op[d]) = Swap(Pair(o)) }
                            ELSE IF o.kind = "send" /\ Swap(Pair(o)) \in black
                                    /\ ~Running(Swap(Pair(o)), BlackKinds)
                            THEN barred \cup {c} ELSE barred
               /\ UNCHANGED <<friend, black, request, entry, got, val, cut, abandoned>>
<1>1. PICK o \in ask :
          /\ ask' = ask \ {o}
          /\ op' = [op EXCEPT ![c] = o]
          /\ todo' = [todo EXCEPT ![c] = Follow(o, Nothing, Begin)]
          /\ barred' = IF o.kind \in BlackKinds
                       THEN barred \ { d \in Call : Pair(op[d]) = Swap(Pair(o)) }
                       ELSE IF o.kind = "send" /\ Swap(Pair(o)) \in black
                               /\ ~Running(Swap(Pair(o)), BlackKinds)
                       THEN barred \cup {c} ELSE barred
  BY Zenon DEF Start, BlackKinds
<1>2. DOMAIN op = Call /\ DOMAIN todo = Call /\ IsRequest(o)
  BY DEF CallInv, RowsOK
<1>3. op'[c] = o /\ todo'[c] = Follow(o, Nothing, Begin)
  BY <1>1, <1>2
<1>4. \A d \in Call \ {c} : op'[d] = op[d] /\ todo'[d] = todo[d]
  BY <1>1, <1>2
<1>5. Idle(c) /\ UNCHANGED <<friend, black, request, entry, got, val, cut, abandoned>>
  BY DEF Start, rowVars
<1> QED BY <1>1, <1>2, <1>3, <1>4, <1>5

LEMMA StartCall ==
    ASSUME CallInv, NEW c \in Call, Start(c)
    PROVE  CallInv'
<1>1. PICK o \in ask :
          /\ IsRequest(o) /\ Idle(c)
          /\ op' = [op EXCEPT ![c] = o]
          /\ todo' = [todo EXCEPT ![c] = Follow(o, Nothing, Begin)]
          /\ op'[c] = o /\ todo'[c] = Follow(o, Nothing, Begin)
          /\ \A d \in Call \ {c} : op'[d] = op[d] /\ todo'[d] = todo[d]
          /\ ask' = ask \ {o}
          /\ UNCHANGED <<friend, black, request, entry, got, val, cut, abandoned>>
  BY CallStart
<1>2. RowsOK'
  BY <1>1 DEF CallInv, RowsOK
<1>3. PICK t : t = Follow(o, Nothing, Begin)
  OBVIOUS
<1>4. /\ Plan(o, t) /\ Head(t)[1] # "flush"
      /\ o.kind = "agree" => t \in BeforeAgree(o)
      /\ o.kind = "import" => t = ImportStart(o)
  BY <1>1, <1>3, StartPlan
<1>5. got[c] = Nothing /\ val[c] = Absent
  <2>1. op[c] = NoRequest
    BY <1>1 DEF Idle
  <2>2. todo[c] = <<>> /\ got[c] = Nothing
    BY <2>1, IdleKind DEF CallInv, PlanOK
  <2> QED BY <2>2 DEF CallInv, FetchOK
<1>6. PlanOK'
  BY <1>1, <1>3, <1>4 DEF CallInv, PlanOK
<1>7. FetchOK'
  BY <1>1, <1>5 DEF CallInv, FetchOK
<1>8. GotOK'
  <2> SUFFICES ASSUME NEW d \in Call
               PROVE  /\ \A k \in DOMAIN got'[d] : k[1] = "insert" =>
                             todo'[d] # <<>> /\ Head(todo'[d])[1] \in {"insert", "flush"}
                      /\ op'[d].kind = "agree" /\ todo'[d] \in AgreeInserts(op'[d]) =>
                             Rows(Pair(op'[d])) \in DOMAIN got'[d]
                      /\ op'[d].kind = "import" /\ todo'[d] = ImportMid(op'[d]) =>
                             Insert(Pair(op'[d])) \in DOMAIN got'[d]
    BY DEF GotOK
  <2>1. CASE d # c
    <3>1. op'[d] = op[d] /\ todo'[d] = todo[d] /\ got'[d] = got[d]
      BY <1>1, <2>1
    <3> QED BY <3>1 DEF CallInv, GotOK
  <2>2. CASE d = c
    <3>1. op'[d] = o /\ todo'[d] = t /\ DOMAIN got'[d] = {}
      BY <1>1, <1>3, <1>5, <2>2, IdleKind
    <3>2. o.kind = "agree" => t \notin AgreeInserts(o)
      BY <1>1, <1>4, PlanHeads
    <3>3. o.kind = "import" => t # ImportMid(o)
      <4>1. Head(ImportStart(o)) = Insert(Pair(o)) /\ Head(ImportMid(o)) = Insert(Swap(Pair(o)))
        BY Heads DEF ImportStart, ImportMid
      <4>2. Pair(o) # Swap(Pair(o))
        BY <1>1, RequestFacts
      <4> QED BY <1>4, <4>1, <4>2, Words
    <3> QED BY <3>1, <3>2, <3>3
  <2> QED BY <2>1, <2>2
<1> QED BY <1>2, <1>6, <1>7, <1>8 DEF CallInv

\* A write ends the call or leads on with the rest.
LEMMA WriteCall ==
    ASSUME CallInv, NEW c \in Call, NEW w \in Writes, At(c, w), Done(c) \/ Failed(c),
           friend' \subseteq Pairs, black' \subseteq Pairs, UNCHANGED entry
    PROVE  CallInv'
<1>1. entry' \in [CacheKeys -> Entries]
  BY DEF CallInv, RowsOK
<1>2. CASE Done(c)
  BY <1>1, <1>2, WriteKnows, GoCall DEF Done
<1>3. CASE Failed(c)
  BY <1>1, <1>3, GoCall DEF Failed
<1> QED BY <1>2, <1>3

LEMMA CallStep ==
    ASSUME CallInv, [Next]_vars
    PROVE  CallInv'
<1>0. /\ friend \subseteq Pairs /\ black \subseteq Pairs
      /\ entry \in [CacheKeys -> Entries] /\ val \in [Call -> Entries]
  BY DEF CallInv, RowsOK
<1>1. ASSUME NEW k \in CacheKeys, Expire(k) PROVE CallInv'
  <2>1. entry' \in [CacheKeys -> Entries]
    BY <1>0, <1>1, EntryFacts DEF Expire
  <2>2. UNCHANGED <<friend, black, op, todo, got, val, ask>>
    BY <1>1 DEF Expire, rowVars, callVars
  <2> QED BY <2>1, <2>2 DEF CallInv, RowsOK, PlanOK, FetchOK, GotOK
<1>2. ASSUME NEW c \in Call, Start(c) PROVE CallInv'
  BY <1>2, StartCall
<1>3. ASSUME NEW c \in Call, Read(c) PROVE CallInv'
  <2>1. PICK rest, g : /\ Go(c, rest, g)
                       /\ rest # <<>> => Knows(op[c], rest, g)
                       /\ UNCHANGED <<friend, black, request, cut, abandoned>>
                       /\ entry' \in [CacheKeys -> Entries]
    BY <1>3, ReadFacts
  <2> QED BY <1>0, <2>1, GoCall
<1>4. ASSUME NEW c \in Call, FetchLock(c) PROVE CallInv'
  <2>1. Head(todo[c]) \in CacheKeys /\ todo[c] # <<>>
    BY <1>4 DEF FetchLock, Reading
  <2>2. Held(c) \in Entries
    BY EntryFacts
  <2>3. entry' \in [CacheKeys -> Entries] /\ val' = [val EXCEPT ![c] = Held(c)]
    BY <1>0, <1>4, <2>2 DEF FetchLock
  <2>4. val' \in [Call -> Entries] /\ \A d \in Call : d # c => val'[d] = val[d]
    BY <1>0, <2>2, <2>3
  <2>5. UNCHANGED <<friend, black, op, todo, got, ask>>
    BY <1>4 DEF FetchLock, rowVars
  <2> QED BY <2>1, <2>3, <2>4, <2>5 DEF CallInv, RowsOK, PlanOK, FetchOK, GotOK
<1>5. ASSUME NEW c \in Call, FetchLoad(c) PROVE CallInv'
  <2>1. Head(todo[c]) \in CacheKeys /\ todo[c] # <<>>
    BY <1>5, EntryFacts DEF FetchLoad, CallInv, FetchOK
  <2>2. Full(DbValue(Head(todo[c]))) \in Entries
    BY <2>1, KeyWords, EntryFacts
  <2>3. val' = [val EXCEPT ![c] = Full(DbValue(Head(todo[c])))]
    BY <1>5 DEF FetchLoad
  <2>4. val' \in [Call -> Entries] /\ \A d \in Call : d # c => val'[d] = val[d]
    BY <1>0, <2>2, <2>3
  <2>5. UNCHANGED <<friend, black, entry, op, todo, got, ask>>
    BY <1>5 DEF FetchLoad, rowVars
  <2> QED BY <2>1, <2>4, <2>5 DEF CallInv, RowsOK, PlanOK, FetchOK, GotOK
<1>6. ASSUME NEW c \in Call, FlushKey(c) PROVE CallInv'
  <2>1. entry' \in [CacheKeys -> Entries]
    BY <1>0, <1>6, EntryFacts DEF FlushKey
  <2>2. todo[c] # <<>> /\ Head(todo[c])[1] = "flush" /\ Go(c, Tail(todo[c]), got[c])
        /\ UNCHANGED <<friend, black>>
    BY <1>6 DEF FlushKey, Done, rowVars
  <2> QED BY <1>0, <2>1, <2>2, FlushKnows, GoCall
<1>7. ASSUME NEW c \in Call, InsertRow(c) PROVE CallInv'
  <2>0. PICK p : p = Head(todo[c])[2]
    OBVIOUS
  <2>1. /\ todo[c] # <<>> /\ Head(todo[c])[1] = "insert" /\ UNCHANGED <<black, entry>>
        /\ IF p \in friend THEN Failed(c) /\ UNCHANGED friend
           ELSE friend' = friend \cup {p} /\ Go(c, Tail(todo[c]), Put(got[c], Insert(p), TRUE))
    BY <1>7, <2>0 DEF InsertRow
  <2>2. p \in Pairs /\ Knows(op[c], Tail(todo[c]), Put(got[c], Insert(p), TRUE))
    BY <2>0, <2>1, InsertKnows
  <2>3. friend' \subseteq Pairs /\ black' \subseteq Pairs /\ entry' \in [CacheKeys -> Entries]
    BY <1>0, <2>1, <2>2
  <2>4. CASE p \in friend
    BY <2>1, <2>3, <2>4, GoCall DEF Failed
  <2>5. CASE p \notin friend
    <3>1. Go(c, Tail(todo[c]), Put(got[c], Insert(p), TRUE))
      BY <2>1, <2>5
    <3> QED BY <2>2, <2>3, <3>1, GoCall
  <2> QED BY <2>4, <2>5
<1>8. ASSUME NEW c \in Call, FileRequest(c) PROVE CallInv'
  <2>1. At(c, "file") /\ (Done(c) \/ Failed(c)) /\ UNCHANGED <<friend, black, entry>>
    BY <1>8 DEF FileRequest
  <2> QED BY <1>0, <2>1, WriteCall DEF Writes
<1>9. ASSUME NEW c \in Call, Agree(c) PROVE CallInv'
  <2>1. At(c, "agree") /\ Done(c) /\ UNCHANGED <<friend, black, entry>>
    BY <1>9 DEF Agree
  <2> QED BY <1>0, <2>1, WriteCall DEF Writes
<1>10. ASSUME NEW c \in Call, AgreeBack(c) PROVE CallInv'
  <2>1. At(c, "agreeBack") /\ Done(c) /\ UNCHANGED <<friend, black, entry>>
    BY <1>10 DEF AgreeBack
  <2> QED BY <1>0, <2>1, WriteCall DEF Writes
<1>11. ASSUME NEW c \in Call, Refuse(c) PROVE CallInv'
  <2>1. At(c, "refuse") /\ Done(c) /\ UNCHANGED <<friend, black, entry>>
    BY <1>11 DEF Refuse
  <2> QED BY <1>0, <2>1, WriteCall DEF Writes
<1>12. ASSUME NEW c \in Call, DeleteRow(c) PROVE CallInv'
  <2>1. At(c, "delete") /\ Done(c) /\ UNCHANGED <<black, entry>> /\ friend' \subseteq friend
    BY <1>12 DEF DeleteRow
  <2> QED BY <1>0, <2>1, WriteCall DEF Writes
<1>13. ASSUME NEW c \in Call, AddBlack(c) PROVE CallInv'
  <2>1. /\ At(c, "addBlack") /\ (Done(c) \/ Failed(c)) /\ UNCHANGED <<friend, entry>>
        /\ black' = black \cup {Pair(op[c])}
    BY <1>13 DEF AddBlack
  <2>2. Pair(op[c]) \in Pairs
    BY <2>1, Active DEF At, IsRequest
  <2> QED BY <1>0, <2>1, <2>2, WriteCall DEF Writes
<1>14. ASSUME NEW c \in Call, RemoveBlack(c) PROVE CallInv'
  <2>1. At(c, "removeBlack") /\ Done(c) /\ UNCHANGED <<friend, entry>> /\ black' \subseteq black
    BY <1>14 DEF RemoveBlack
  <2> QED BY <1>0, <2>1, WriteCall DEF Writes
<1>15. ASSUME NEW c \in Call, Queue(c) PROVE CallInv'
  <2>1. At(c, "queue") /\ Done(c) /\ UNCHANGED <<friend, black, entry>>
    BY <1>15 DEF Queue, rowVars
  <2> QED BY <1>0, <2>1, WriteCall DEF Writes
<1>16. CASE UNCHANGED vars
  BY <1>16 DEF vars, rowVars, callVars, CallInv, RowsOK, PlanOK, FetchOK, GotOK
<1> QED
  BY <1>1, <1>2, <1>3, <1>4, <1>5, <1>6, <1>7, <1>8, <1>9, <1>10, <1>11, <1>12, <1>13, <1>14,
     <1>15, <1>16 DEF Next, Serve, Read

-----------------------------------------------------------------------------
(* Cached lists are fresh or about to be deleted.                           *)

LEMMA NotOwing ==
    ASSUME CallInv, NEW c \in Call, NEW u, todo[c] = <<>> \/ Head(todo[c])[1] \notin {"insert", "flush"}
    PROVE  ~Owes(c, u)
<1>1. CASE todo[c] = <<>>
  BY <1>1 DEF Owes, Range
<1>2. CASE todo[c] # <<>> /\ Head(todo[c])[1] \notin {"insert", "flush"}
  <2>1. \A k \in DOMAIN got[c] : k[1] # "insert"
    BY <1>2, NoInserts
  <2>2. \A p : Insert(p) \notin DOMAIN got[c]
    BY <2>1, Words
  <2> QED BY <1>2, <2>2 DEF Owes
<1> QED BY <1>1, <1>2

LEMMA NotBlocking ==
    ASSUME CallInv, NEW c \in Call, NEW u, NEW w, Head(todo[c])[1] # "flush"
    PROVE  ~Blocking(c, u, w)
<1>1. Head(FlushBlack(op[c]))[1] = "flush"
  BY Heads, Words DEF FlushBlack
<1> QED BY <1>1 DEF Blocking

\* What is in an entry after a step of a call was in it or on its way before.
LEMMA GoIncoming ==
    ASSUME CallInv, NEW c \in Call, NEW rest, NEW g, Go(c, rest, g),
           NEW k, NEW v, entry'[k] = Absent \/ Stores(c, k), Incoming(k, v)'
    PROVE  Incoming(k, v)
<1>1. entry'[k] # Absent
  BY EntryFacts DEF Incoming
<1>2. CASE entry'[k] = entry[k]
  <2>1. CASE entry'[k] = Full(v)
    BY <1>2, <2>1 DEF Incoming
  <2>2. CASE \E d \in Call : entry'[k] = Held(d) /\ val'[d] = Full(v) /\ Head(todo'[d]) = k
    <3>1. PICK d \in Call : entry'[k] = Held(d) /\ val'[d] = Full(v) /\ Head(todo'[d]) = k
      BY <2>2
    <3>2. d # c
      BY <3>1, GoFacts, EntryFacts
    <3>3. val[d] = Full(v) /\ Head(todo[d]) = k /\ entry[k] = Held(d)
      BY <1>2, <3>1, <3>2, GoFacts
    <3> QED BY <3>3 DEF Incoming
  <2> QED BY <2>1, <2>2 DEF Incoming
<1>3. CASE entry[k] = Held(c) /\ entry'[k] = val[c] /\ k = Head(todo[c]) /\ val[c].is = "full"
  <2>1. val[c] = Full(val[c].value)
    BY <1>3, EntryFacts DEF CallInv, RowsOK
  <2>2. \A d \in Call : entry'[k] # Held(d)
    BY <1>3, <2>1, EntryFacts
  <2>3. entry'[k] = Full(v)
    BY <2>2 DEF Incoming
  <2> QED BY <1>3, <2>3 DEF Incoming
<1> QED BY <1>1, <1>2, <1>3 DEF Stores

\* A step of a call that leaves the friend rows of u alone, and does not forget an entry.
LEMMA GoFriends ==
    ASSUME CallInv, FriendsFresh, NEW c \in Call, NEW rest, NEW g, Go(c, rest, g),
           NEW u \in User, NEW v \in SUBSET User,
           entry'[Friends(u)] = Absent \/ Stores(c, Friends(u)),
           FriendRows(u)' = FriendRows(u),
           Friends(u) \in abandoned => Friends(u) \in abandoned',
           Owes(c, u) => Owes(c, u)' \/ Friends(u) \in abandoned',
           Incoming(Friends(u), v)', v # FriendRows(u)'
    PROVE  Excused(u)'
<1>1. Incoming(Friends(u), v)
  BY GoIncoming
<1>2. Excused(u)
  BY <1>1 DEF FriendsFresh
<1>3. ASSUME NEW d \in Call, d # c, Owes(d, u) PROVE Owes(d, u)'
  <2>1. todo'[d] = todo[d] /\ got'[d] = got[d]
    BY <1>3, GoFacts
  <2> QED BY <1>3, <2>1 DEF Owes
<1> QED BY <1>2, <1>3 DEF Excused

\* A step of a call that has no blacklist entry to delete and leaves the row of u about w alone.
LEMMA GoBlacks ==
    ASSUME CallInv, BlacksFresh, NEW c \in Call, NEW rest, NEW g, Go(c, rest, g),
           NEW u \in User, NEW v \in SUBSET User, NEW w \in User,
           entry'[Blacks(u)] = Absent \/ Stores(c, Blacks(u)),
           <<u, w>> \in black' <=> <<u, w>> \in black,
           entry'[Blacks(u)] = Absent \/ ~Blocking(c, u, w),
           Incoming(Blacks(u), v)', ~(w \in v <=> <<u, w>> \in black')
    PROVE  \E d \in Call : Blocking(d, u, w)'
<1>1. Incoming(Blacks(u), v)
  BY GoIncoming
<1>2. entry'[Blacks(u)] # Absent
  BY EntryFacts DEF Incoming
<1>3. PICK d \in Call : Blocking(d, u, w)
  BY <1>1 DEF BlacksFresh
<1>4. d # c
  BY <1>2, <1>3
<1>5. op'[d] = op[d] /\ todo'[d] = todo[d]
  BY <1>4, GoFacts
<1>6. Blocking(d, u, w)'
  BY <1>3, <1>5 DEF Blocking
<1> QED BY <1>6

\* A step that changes no row and deletes no entry.
LEMMA GoFresh ==
    ASSUME CallInv, FreshInv, NEW c \in Call, NEW rest, NEW g, Go(c, rest, g),
           todo[c] # <<>>, Head(todo[c])[1] \notin {"insert", "flush"},
           \A k \in CacheKeys : Stores(c, k),
           UNCHANGED <<friend, black, abandoned>>
    PROVE  FreshInv'
<1>1. FriendsFresh'
  <2> SUFFICES ASSUME NEW u \in User, NEW v \in SUBSET User,
                      Incoming(Friends(u), v)', v # FriendRows(u)'
               PROVE  Excused(u)'
    BY DEF FriendsFresh
  <2>1. ~Owes(c, u) /\ Friends(u) \in CacheKeys
    BY NotOwing, KeyValues
  <2>2. FriendRows(u)' = FriendRows(u)
    BY DEF FriendRows
  <2> QED BY <2>1, <2>2, GoFriends DEF FreshInv
<1>2. BlacksFresh'
  <2> SUFFICES ASSUME NEW u \in User, NEW v \in SUBSET User, NEW w \in User,
                      Incoming(Blacks(u), v)', ~(w \in v <=> <<u, w>> \in black')
               PROVE  \E d \in Call : Blocking(d, u, w)'
    BY DEF BlacksFresh
  <2>1. ~Blocking(c, u, w) /\ Blacks(u) \in CacheKeys
    BY NotBlocking, KeyValues
  <2> QED BY <2>1, GoBlacks DEF FreshInv
<1> QED BY <1>1, <1>2 DEF FreshInv

LEMMA FlushFresh ==
    ASSUME CallInv, FreshInv, NEW c \in Call, FlushKey(c)
    PROVE  FreshInv'
<1>0. entry \in [CacheKeys -> Entries]
  BY DEF CallInv, RowsOK
<1>1. /\ todo[c] # <<>> /\ Head(todo[c])[1] = "flush" /\ Go(c, Tail(todo[c]), got[c])
      /\ UNCHANGED <<friend, black>>
      /\ entry' = [entry EXCEPT ![Head(todo[c])[2]] = Absent]
      /\ abandoned' = abandoned \ {Head(todo[c])[2]}
  BY DEF FlushKey, Done, rowVars
<1>2. IsRequest(op[c]) /\ Plan(op[c], todo[c])
  BY <1>1, Active
<1>3. PICK k \in CacheKeys :
          /\ Head(todo[c]) = FlushOf(k)
          /\ Tail(todo[c]) = <<>> \/ (Plan(op[c], Tail(todo[c])) /\ Head(Tail(todo[c]))[1] = "flush")
          /\ Range(todo[c]) \subseteq {Head(todo[c])} \cup Range(Tail(todo[c]))
          /\ op[c].kind \in BlackKinds =>
                 todo[c] = FlushBlack(op[c]) /\ k = Blacks(op[c].by) /\ Tail(todo[c]) = <<>>
  BY <1>1, <1>2, FlushPlan
<1>4. Head(todo[c])[2] = k
  BY <1>3, Words
<1>5. \A x \in CacheKeys : IF x = k THEN entry'[x] = Absent ELSE entry'[x] = entry[x]
  BY <1>0, <1>1, <1>4
<1>6. FriendsFresh'
  <2> SUFFICES ASSUME NEW u \in User, NEW v \in SUBSET User,
                      Incoming(Friends(u), v)', v # FriendRows(u)'
               PROVE  Excused(u)'
    BY DEF FriendsFresh
  <2>1. Friends(u) \in CacheKeys /\ Friends(u) # k
    BY <1>5, KeyValues, EntryFacts DEF Incoming
  <2>2. FriendRows(u)' = FriendRows(u)
    BY <1>1 DEF FriendRows
  <2>3. ASSUME Owes(c, u) PROVE Owes(c, u)'
    <3>1. FlushOf(Friends(u)) # Head(todo[c])
      BY <1>3, <2>1, Words
    <3>2. FlushOf(Friends(u)) \in Range(Tail(todo[c]))
      BY <1>3, <2>3, <3>1 DEF Owes
    <3>3. Tail(todo[c]) # <<>>
      BY <3>2 DEF Range
    <3>4. todo'[c] = Tail(todo[c])
      BY <1>1, GoFacts
    <3> QED BY <1>3, <3>2, <3>3, <3>4 DEF Owes
  <2>4. Stores(c, Friends(u))
    BY <1>5, <2>1 DEF Stores
  <2>5. Friends(u) \in abandoned => Friends(u) \in abandoned'
    BY <1>1, <1>4, <2>1
  <2> QED BY <1>1, <2>2, <2>3, <2>4, <2>5, GoFriends DEF FreshInv
<1>7. BlacksFresh'
  <2> SUFFICES ASSUME NEW u \in User, NEW v \in SUBSET User, NEW w \in User,
                      Incoming(Blacks(u), v)', ~(w \in v <=> <<u, w>> \in black')
               PROVE  \E d \in Call : Blocking(d, u, w)'
    BY DEF BlacksFresh
  <2>1. Blacks(u) \in CacheKeys /\ Blacks(u) # k
    BY <1>5, KeyValues, EntryFacts DEF Incoming
  <2>2. ~Blocking(c, u, w)
    <3>1. op[c].kind \in BlackKinds => k = Blacks(op[c].by)
      BY <1>3
    <3>2. Pair(op[c]) = <<u, w>> => op[c].by = u
      BY DEF Pair
    <3> QED BY <2>1, <3>1, <3>2 DEF Blocking
  <2>3. Stores(c, Blacks(u))
    BY <1>5, <2>1 DEF Stores
  <2> QED BY <1>1, <2>2, <2>3, GoBlacks DEF FreshInv
<1> QED BY <1>6, <1>7 DEF FreshInv

\* What InsertRow does, with the pair it inserts.
LEMMA InsertFacts ==
    ASSUME CallInv, NEW c \in Call, InsertRow(c)
    PROVE  \E p \in Both(Pair(op[c])) :
               /\ todo[c] # <<>> /\ Head(todo[c])[1] = "insert" /\ Head(todo[c]) = Insert(p)
               /\ p \in Pairs
               /\ \/ /\ p \in friend /\ Failed(c) /\ UNCHANGED friend
                     /\ abandoned' = abandoned \cup
                            { Friends(q[1]) : q \in { q \in Pairs : Insert(q) \in DOMAIN got[c] } }
                  \/ /\ p \notin friend /\ friend' = friend \cup {p} /\ UNCHANGED abandoned
                     /\ Go(c, Tail(todo[c]), Put(got[c], Insert(p), TRUE))
               /\ UNCHANGED <<black, request, entry, cut>>
<1>1. PICK p : p = Head(todo[c])[2]
  OBVIOUS
<1>2. /\ todo[c] # <<>> /\ Head(todo[c])[1] = "insert"
      /\ \/ /\ p \in friend /\ Failed(c) /\ UNCHANGED friend
            /\ abandoned' = abandoned \cup
                   { Friends(q[1]) : q \in { q \in Pairs : Insert(q) \in DOMAIN got[c] } }
         \/ /\ p \notin friend /\ friend' = friend \cup {p} /\ UNCHANGED abandoned
            /\ Go(c, Tail(todo[c]), Put(got[c], Insert(p), TRUE))
      /\ UNCHANGED <<black, request, entry, cut>>
  BY <1>1 DEF InsertRow
<1>3. p \in Both(Pair(op[c])) /\ p \in Pairs /\ Head(todo[c]) = Insert(p)
  BY <1>1, <1>2, InsertKnows
<1> QED BY <1>2, <1>3

LEMMA InsertFresh ==
    ASSUME CallInv, FreshInv, NEW c \in Call, InsertRow(c)
    PROVE  FreshInv'
<1>1. PICK p \in Both(Pair(op[c])) :
          /\ todo[c] # <<>> /\ Head(todo[c])[1] = "insert" /\ Head(todo[c]) = Insert(p)
          /\ p \in Pairs
          /\ \/ /\ p \in friend /\ Failed(c) /\ UNCHANGED friend
                /\ abandoned' = abandoned \cup
                       { Friends(q[1]) : q \in { q \in Pairs : Insert(q) \in DOMAIN got[c] } }
             \/ /\ p \notin friend /\ friend' = friend \cup {p} /\ UNCHANGED abandoned
                /\ Go(c, Tail(todo[c]), Put(got[c], Insert(p), TRUE))
          /\ UNCHANGED <<black, request, entry, cut>>
  BY InsertFacts
<1>2. \A k : Stores(c, k)
  BY <1>1 DEF Stores
<1>3. PICK rest, g : Go(c, rest, g)
  BY <1>1 DEF Failed
<1>4. BlacksFresh'
  <2> SUFFICES ASSUME NEW u \in User, NEW v \in SUBSET User, NEW w \in User,
                      Incoming(Blacks(u), v)', ~(w \in v <=> <<u, w>> \in black')
               PROVE  \E d \in Call : Blocking(d, u, w)'
    BY DEF BlacksFresh
  <2>1. ~Blocking(c, u, w)
    BY <1>1, NotBlocking
  <2> QED BY <1>1, <1>2, <1>3, <2>1, GoBlacks DEF FreshInv
<1>5. FriendsFresh'
  <2> SUFFICES ASSUME NEW u \in User, NEW v \in SUBSET User,
                      Incoming(Friends(u), v)', v # FriendRows(u)'
               PROVE  Excused(u)'
    BY DEF FriendsFresh
  <2>1. CASE p \in friend
    <3>1. FriendRows(u)' = FriendRows(u)
      BY <1>1, <2>1 DEF FriendRows
    <3>2. ASSUME Owes(c, u) PROVE Friends(u) \in abandoned'
      <4>1. PICK q \in Pairs : q[1] = u /\ Insert(q) \in DOMAIN got[c]
        BY <1>1, <3>2 DEF Owes
      <4> QED BY <1>1, <2>1, <4>1
    <3>3. Friends(u) \in abandoned => Friends(u) \in abandoned'
      BY <1>1
    <3> QED BY <1>2, <1>3, <3>1, <3>2, <3>3, GoFriends DEF FreshInv
  <2>2. CASE p \notin friend
    <3>0. Go(c, Tail(todo[c]), Put(got[c], Insert(p), TRUE)) /\ friend' = friend \cup {p}
          /\ UNCHANGED abandoned
      BY <1>1, <2>2
    <3>1. IsRequest(op[c]) /\ Plan(op[c], todo[c])
      BY <1>1, Active
    <3>2. p = Head(todo[c])[2]
      BY <1>1, Words
    <3>3. /\ Tail(todo[c]) # <<>>
          /\ FlushBy(op[c]) \in Range(Tail(todo[c])) /\ FlushPeer(op[c]) \in Range(Tail(todo[c]))
      BY <1>1, <3>1, <3>2, InsertPlan
    <3>4. Range(todo[c]) = {Head(todo[c])} \cup Range(Tail(todo[c]))
      BY <1>1, <3>1, <3>2, InsertPlan
    <3>5. todo'[c] = Tail(todo[c]) /\ DOMAIN got'[c] = DOMAIN got[c] \cup {Insert(p)}
      <4>1. PICK h : h = Put(got[c], Insert(p), TRUE)
        OBVIOUS
      <4>2. DOMAIN h = DOMAIN got[c] \cup {Insert(p)}
        BY <4>1 DEF Put
      <4>3. PICK r : r = Tail(todo[c])
        OBVIOUS
      <4>4. Go(c, r, h) /\ r # <<>>
        BY <3>0, <3>3, <4>1, <4>3
      <4>5. todo'[c] = r /\ got'[c] = h
        BY <4>4, GoFacts
      <4> QED BY <4>2, <4>3, <4>5
    <3>6. CASE p[1] = u
      <4>1. u = op[c].by \/ u = op[c].peer
        BY <1>1, <3>1, <3>6, RequestFacts DEF Both
      <4>2. FlushOf(Friends(u)) \in Range(todo'[c])
        BY <3>3, <3>5, <4>1 DEF FlushBy, FlushPeer
      <4>3. Owes(c, u)'
        BY <1>1, <3>5, <3>6, <4>2 DEF Owes
      <4> QED BY <4>3 DEF Excused
    <3>7. CASE p[1] # u
      <4>1. FriendRows(u)' = FriendRows(u)
        BY <3>0, <3>7 DEF FriendRows
      <4>2. ASSUME Owes(c, u) PROVE Owes(c, u)'
        <5>1. PICK q \in Pairs : q[1] = u /\ Insert(q) \in DOMAIN got[c]
          BY <1>1, <4>2 DEF Owes
        <5>2. FlushOf(Friends(u)) # Head(todo[c])
          BY <1>1, Words
        <5>3. FlushOf(Friends(u)) \in Range(todo'[c])
          BY <3>4, <3>5, <4>2, <5>2 DEF Owes
        <5> QED BY <3>5, <5>1, <5>3 DEF Owes
      <4> QED BY <1>2, <3>0, <4>1, <4>2, GoFriends DEF FreshInv
    <3> QED BY <3>6, <3>7
  <2> QED BY <2>1, <2>2
<1> QED BY <1>4, <1>5 DEF FreshInv

LEMMA DeleteFresh ==
    ASSUME CallInv, FreshInv, NEW c \in Call, DeleteRow(c)
    PROVE  FreshInv'
<1>1. /\ todo[c] # <<>> /\ Head(todo[c]) = Write("delete") /\ Head(todo[c])[1] = "write"
      /\ Go(c, Tail(todo[c]), got[c])
      /\ friend' = friend \ {Pair(op[c])}
      /\ UNCHANGED <<black, entry, abandoned>>
  BY Words DEF DeleteRow, At, Done
<1>2. IsRequest(op[c]) /\ Plan(op[c], todo[c])
  BY <1>1, Active
<1>3. Tail(todo[c]) = <<FlushPeer(op[c]), FlushBy(op[c])>>
  BY <1>1, <1>2, WritePlan
<1>4. \A k : Stores(c, k)
  BY <1>1 DEF Stores
<1>5. FriendsFresh'
  <2> SUFFICES ASSUME NEW u \in User, NEW v \in SUBSET User,
                      Incoming(Friends(u), v)', v # FriendRows(u)'
               PROVE  Excused(u)'
    BY DEF FriendsFresh
  <2>1. CASE u = op[c].by
    <3>1. todo'[c] = <<FlushPeer(op[c]), FlushBy(op[c])>>
      BY <1>1, <1>3, GoFacts
    <3>2. Range(todo'[c]) = {FlushPeer(op[c]), FlushBy(op[c])} /\ Head(todo'[c]) = FlushPeer(op[c])
      BY <3>1, Ranges, Heads
    <3>3. FlushOf(Friends(u)) \in Range(todo'[c])
      BY <2>1, <3>2 DEF FlushBy
    <3>5. Head(todo'[c])[1] = "flush"
      BY <3>2, Words
    <3>4. Owes(c, u)'
      BY <3>3, <3>5 DEF Owes
    <3> QED BY <3>4 DEF Excused
  <2>2. CASE u # op[c].by
    <3>1. Pair(op[c])[1] # u
      BY <1>2, <2>2, RequestFacts
    <3>2. FriendRows(u)' = FriendRows(u)
      BY <1>1, <3>1 DEF FriendRows
    <3>3. ~Owes(c, u)
      BY <1>1, NotOwing
    <3> QED BY <1>1, <1>4, <3>2, <3>3, GoFriends DEF FreshInv
  <2> QED BY <2>1, <2>2
<1>6. BlacksFresh'
  <2> SUFFICES ASSUME NEW u \in User, NEW v \in SUBSET User, NEW w \in User,
                      Incoming(Blacks(u), v)', ~(w \in v <=> <<u, w>> \in black')
               PROVE  \E d \in Call : Blocking(d, u, w)'
    BY DEF BlacksFresh
  <2>1. ~Blocking(c, u, w)
    BY <1>1, NotBlocking
  <2> QED BY <1>1, <1>4, <2>1, GoBlacks DEF FreshInv
<1> QED BY <1>5, <1>6 DEF FreshInv

\* AddBlack and RemoveBlack change one row, or none and fail.
LEMMA BlackFresh ==
    ASSUME CallInv, FreshInv, NEW c \in Call, NEW w0 \in BlackKinds, At(c, w0),
           \/ Done(c) /\ \A p : p # Pair(op[c]) => (p \in black' <=> p \in black)
           \/ Failed(c) /\ \A p : p \in black' <=> p \in black,
           UNCHANGED <<friend, entry, abandoned>>
    PROVE  FreshInv'
<1>1. /\ todo[c] # <<>> /\ Head(todo[c]) = Write(w0) /\ Head(todo[c])[1] = "write"
  BY Words DEF At
<1>2. IsRequest(op[c]) /\ Plan(op[c], todo[c])
  BY <1>1, Active
<1>3. op[c].kind = w0 /\ Tail(todo[c]) = FlushBlack(op[c])
  BY <1>1, <1>2, WritePlan
<1>4. \A k : Stores(c, k)
  BY DEF Stores
<1>5. PICK rest, g : Go(c, rest, g)
  BY DEF Done, Failed
<1>6. FriendsFresh'
  <2> SUFFICES ASSUME NEW u \in User, NEW v \in SUBSET User,
                      Incoming(Friends(u), v)', v # FriendRows(u)'
               PROVE  Excused(u)'
    BY DEF FriendsFresh
  <2>1. FriendRows(u)' = FriendRows(u)
    BY DEF FriendRows
  <2>2. ~Owes(c, u)
    BY <1>1, NotOwing
  <2> QED BY <1>4, <1>5, <2>1, <2>2, GoFriends DEF FreshInv
<1>7. BlacksFresh'
  <2> SUFFICES ASSUME NEW u \in User, NEW v \in SUBSET User, NEW w \in User,
                      Incoming(Blacks(u), v)', ~(w \in v <=> <<u, w>> \in black')
               PROVE  \E d \in Call : Blocking(d, u, w)'
    BY DEF BlacksFresh
  <2>1. CASE Done(c) /\ Pair(op[c]) = <<u, w>>
    <3>1. FlushBlack(op[c]) # <<>>
      BY Heads DEF FlushBlack
    <3>2. Go(c, Tail(todo[c]), got[c])
      BY <2>1 DEF Done
    <3>3. todo'[c] = FlushBlack(op[c]) /\ op'[c] = op[c]
      BY <1>3, <3>1, <3>2, GoFacts
    <3>4. Blocking(c, u, w)'
      BY <1>3, <2>1, <3>3 DEF Blocking
    <3> QED BY <3>4
  <2>2. CASE <<u, w>> \in black' <=> <<u, w>> \in black
    <3>1. ~Blocking(c, u, w)
      BY <1>1, NotBlocking
    <3> QED BY <1>4, <1>5, <2>2, <3>1, GoBlacks DEF FreshInv
  <2> QED BY <2>1, <2>2
<1> QED BY <1>6, <1>7 DEF FreshInv

\* A step that is no command of a call, or the start or the middle of a fetch.
LEMMA StillFresh ==
    ASSUME CallInv, FreshInv, UNCHANGED <<friend, black, abandoned>>,
           \A d \in Call : \A u \in User : Owes(d, u) => Owes(d, u)',
           \A d \in Call : \A u, w \in User : Blocking(d, u, w) => Blocking(d, u, w)',
           \A k \in CacheKeys : \A v \in SUBSET User :
               Incoming(k, v)' => Incoming(k, v) \/ v = DbValue(k)
    PROVE  FreshInv'
<1>1. FriendsFresh'
  <2> SUFFICES ASSUME NEW u \in User, NEW v \in SUBSET User,
                      Incoming(Friends(u), v)', v # FriendRows(u)'
               PROVE  Excused(u)'
    BY DEF FriendsFresh
  <2>1. FriendRows(u)' = FriendRows(u)
    BY DEF FriendRows
  <2>2. Incoming(Friends(u), v)
    BY <2>1, KeyValues
  <2>3. Excused(u)
    BY <2>1, <2>2 DEF FreshInv, FriendsFresh
  <2> QED BY <2>3 DEF Excused
<1>2. BlacksFresh'
  <2> SUFFICES ASSUME NEW u \in User, NEW v \in SUBSET User, NEW w \in User,
                      Incoming(Blacks(u), v)', ~(w \in v <=> <<u, w>> \in black')
               PROVE  \E d \in Call : Blocking(d, u, w)'
    BY DEF BlacksFresh
  <2>1. Incoming(Blacks(u), v)
    BY KeyValues
  <2>2. PICK d \in Call : Blocking(d, u, w)
    BY <2>1 DEF FreshInv, BlacksFresh
  <2> QED BY <2>2
<1> QED BY <1>1, <1>2 DEF FreshInv

LEMMA StartFresh ==
    ASSUME CallInv, FreshInv, NEW c \in Call, Start(c)
    PROVE  FreshInv'
<1>1. /\ Idle(c)
      /\ \A d \in Call \ {c} : op'[d] = op[d] /\ todo'[d] = todo[d]
      /\ UNCHANGED <<friend, black, entry, got, val, abandoned>>
  BY CallStart
<1>2. op[c] = NoRequest /\ todo[c] = <<>>
  BY <1>1, IdleKind DEF Idle, CallInv, PlanOK
<1>3. val[c] = Absent
  BY <1>2 DEF CallInv, FetchOK
<1>4. ASSUME NEW d \in Call, NEW u \in User, Owes(d, u) PROVE Owes(d, u)'
  <2>1. d # c
    BY <1>2, <1>4, NotOwing
  <2>2. todo'[d] = todo[d] /\ got'[d] = got[d]
    BY <1>1, <2>1
  <2> QED BY <1>4, <2>2 DEF Owes
<1>5. ASSUME NEW d \in Call, NEW u \in User, NEW w \in User, Blocking(d, u, w) PROVE Blocking(d, u, w)'
  <2>1. d # c
    BY <1>2, <1>5, IdleKind DEF Blocking
  <2>2. todo'[d] = todo[d] /\ op'[d] = op[d]
    BY <1>1, <2>1
  <2> QED BY <1>5, <2>2 DEF Blocking
<1>6. ASSUME NEW k \in CacheKeys, NEW v \in SUBSET User, Incoming(k, v)' PROVE Incoming(k, v)
  BY <1>1, <1>3, <1>6, EntryFacts DEF Incoming
<1> QED BY <1>1, <1>4, <1>5, <1>6, StillFresh

LEMMA FreshStep ==
    ASSUME CallInv, FreshInv, [Next]_vars
    PROVE  FreshInv'
<1>0. entry \in [CacheKeys -> Entries] /\ val \in [Call -> Entries]
  BY DEF CallInv, RowsOK
<1>1. ASSUME NEW k \in CacheKeys, Expire(k) PROVE FreshInv'
  <2>1. UNCHANGED <<friend, black, op, todo, got, val, abandoned>>
    BY <1>1 DEF Expire, rowVars, callVars, histVars
  <2>2. \A x \in CacheKeys : entry'[x] = Absent \/ entry'[x] = entry[x]
    BY <1>0, <1>1 DEF Expire
  <2>3. ASSUME NEW x \in CacheKeys, NEW v \in SUBSET User, Incoming(x, v)' PROVE Incoming(x, v)
    BY <2>1, <2>2, <2>3, EntryFacts DEF Incoming
  <2>4. \A d \in Call : \A u \in User : Owes(d, u) => Owes(d, u)'
    BY <2>1 DEF Owes
  <2>5. \A d \in Call : \A u, w \in User : Blocking(d, u, w) => Blocking(d, u, w)'
    BY <2>1 DEF Blocking
  <2> QED BY <2>1, <2>3, <2>4, <2>5, StillFresh
<1>2. ASSUME NEW c \in Call, Start(c) PROVE FreshInv'
  BY <1>2, StartFresh
<1>3. ASSUME NEW c \in Call, Read(c) PROVE FreshInv'
  <2>1. PICK rest, g : /\ todo[c] # <<>> /\ Head(todo[c])[1] \in Reads
                       /\ Go(c, rest, g)
                       /\ UNCHANGED <<friend, black, request, cut, abandoned>>
                       /\ \A k \in CacheKeys : Stores(c, k)
    BY <1>3, ReadFacts
  <2>2. Head(todo[c])[1] \notin {"insert", "flush"}
    BY <2>1 DEF Reads
  <2> QED BY <2>1, <2>2, GoFresh
<1>4. ASSUME NEW c \in Call, FetchLock(c) PROVE FreshInv'
  <2>1. UNCHANGED <<friend, black, op, todo, got, abandoned>>
    BY <1>4 DEF FetchLock, rowVars, histVars
  <2>2. Head(todo[c]) \in CacheKeys
    BY <1>4 DEF FetchLock, Reading
  <2>3. \A x \in CacheKeys : entry'[x] = entry[x] \/ entry'[x] = Held(c)
    BY <1>0, <1>4, <2>2 DEF FetchLock
  <2>4. val'[c] = Held(c) /\ \A d \in Call : d # c => val'[d] = val[d]
    BY <1>0, <1>4 DEF FetchLock
  <2>5. ASSUME NEW x \in CacheKeys, NEW v \in SUBSET User, Incoming(x, v)' PROVE Incoming(x, v)
    BY <2>1, <2>3, <2>4, <2>5, EntryFacts DEF Incoming
  <2>6. \A d \in Call : \A u \in User : Owes(d, u) => Owes(d, u)'
    BY <2>1 DEF Owes
  <2>7. \A d \in Call : \A u, w \in User : Blocking(d, u, w) => Blocking(d, u, w)'
    BY <2>1 DEF Blocking
  <2> QED BY <2>1, <2>5, <2>6, <2>7, StillFresh
<1>5. ASSUME NEW c \in Call, FetchLoad(c) PROVE FreshInv'
  <2>1. UNCHANGED <<friend, black, entry, op, todo, got, abandoned>>
    BY <1>5 DEF FetchLoad, rowVars, histVars
  <2>2. val'[c] = Full(DbValue(Head(todo[c]))) /\ \A d \in Call : d # c => val'[d] = val[d]
    BY <1>0, <1>5 DEF FetchLoad
  <2>3. ASSUME NEW x \in CacheKeys, NEW v \in SUBSET User, Incoming(x, v)'
        PROVE  Incoming(x, v) \/ v = DbValue(x)
    <3>1. CASE entry'[x] = Full(v)
      BY <2>1, <3>1 DEF Incoming
    <3>2. CASE \E d \in Call : entry'[x] = Held(d) /\ val'[d] = Full(v) /\ Head(todo'[d]) = x
      <4>1. PICK d \in Call : entry'[x] = Held(d) /\ val'[d] = Full(v) /\ Head(todo'[d]) = x
        BY <3>2
      <4>2. CASE d = c
        BY <2>1, <2>2, <4>1, <4>2, EntryFacts
      <4>3. CASE d # c
        BY <2>1, <2>2, <4>1, <4>3 DEF Incoming
      <4> QED BY <4>2, <4>3
    <3> QED BY <2>3, <3>1, <3>2 DEF Incoming
  <2>4. \A d \in Call : \A u \in User : Owes(d, u) => Owes(d, u)'
    BY <2>1 DEF Owes
  <2>5. \A d \in Call : \A u, w \in User : Blocking(d, u, w) => Blocking(d, u, w)'
    BY <2>1 DEF Blocking
  <2> QED BY <2>1, <2>3, <2>4, <2>5, StillFresh
<1>6. ASSUME NEW c \in Call, FlushKey(c) PROVE FreshInv'
  BY <1>6, FlushFresh
<1>7. ASSUME NEW c \in Call, InsertRow(c) PROVE FreshInv'
  BY <1>7, InsertFresh
<1>8. ASSUME NEW c \in Call, DeleteRow(c) PROVE FreshInv'
  BY <1>8, DeleteFresh
<1>9. ASSUME NEW c \in Call, AddBlack(c) PROVE FreshInv'
  <2>1. At(c, "addBlack") /\ black' = black \cup {Pair(op[c])} /\ UNCHANGED <<friend, entry, abandoned>>
    BY <1>9 DEF AddBlack
  <2>2. \/ Pair(op[c]) \in black /\ Failed(c)
        \/ Done(c)
    BY <1>9 DEF AddBlack
  <2> QED BY <2>1, <2>2, BlackFresh DEF BlackKinds
<1>10. ASSUME NEW c \in Call, RemoveBlack(c) PROVE FreshInv'
  <2>1. At(c, "removeBlack") /\ black' = black \ {Pair(op[c])} /\ UNCHANGED <<friend, entry, abandoned>>
        /\ Done(c)
    BY <1>10 DEF RemoveBlack
  <2> QED BY <2>1, BlackFresh DEF BlackKinds
<1>11. ASSUME NEW c \in Call, FileRequest(c) \/ Agree(c) \/ AgreeBack(c) \/ Refuse(c) \/ Queue(c)
       PROVE  FreshInv'
  <2>1. /\ UNCHANGED <<friend, black, entry, abandoned>>
        /\ Done(c) \/ Failed(c)
        /\ \E w : At(c, w)
    BY <1>11 DEF FileRequest, Agree, AgreeBack, Refuse, Queue, rowVars
  <2>2. PICK rest, g : Go(c, rest, g)
    BY <2>1 DEF Done, Failed
  <2>3. todo[c] # <<>> /\ Head(todo[c])[1] = "write"
    BY <2>1, Words DEF At
  <2>4. \A k : Stores(c, k)
    BY <2>1 DEF Stores
  <2> QED BY <2>1, <2>2, <2>3, <2>4, GoFresh
<1>12. CASE UNCHANGED vars
  <2>1. UNCHANGED <<friend, black, entry, op, todo, got, val, abandoned>>
    BY <1>12 DEF vars, rowVars, callVars, histVars
  <2>2. ASSUME NEW x \in CacheKeys, NEW v \in SUBSET User, Incoming(x, v)' PROVE Incoming(x, v)
    BY <2>1, <2>2 DEF Incoming
  <2>3. \A d \in Call : \A u \in User : Owes(d, u) => Owes(d, u)'
    BY <2>1 DEF Owes
  <2>4. \A d \in Call : \A u, w \in User : Blocking(d, u, w) => Blocking(d, u, w)'
    BY <2>1 DEF Blocking
  <2> QED BY <2>1, <2>2, <2>3, <2>4, StillFresh
<1> QED
  BY <1>1, <1>2, <1>3, <1>4, <1>5, <1>6, <1>7, <1>8, <1>9, <1>10, <1>11, <1>12 DEF Next, Serve, Read

-----------------------------------------------------------------------------
(* A blocked sender is refused.                                             *)

LEMMA BarredReads ==
    ASSUME CallInv, NEW c \in Call, Barred(c)
    PROVE  /\ todo[c] # <<>> /\ Head(todo[c])[1] = "blacks"
           /\ IsRequest(op[c]) /\ op[c].kind \notin BlackKinds
<1>1. op[c].kind = "send" /\ todo[c] \in SendChecks(op[c])
  BY DEF Barred
<1>2. op[c] # NoRequest
  BY <1>1, IdleKind DEF Kinds
<1>3. IsRequest(op[c]) /\ Plan(op[c], todo[c])
  BY <1>2 DEF CallInv, PlanOK
<1>4. todo[c] # <<>> /\ Head(todo[c])[1] = "blacks"
  BY <1>1, <1>3, PlanHeads
<1> QED BY <1>1, <1>3, <1>4 DEF BlackKinds

\* A step of call c bars nobody else.
LEMMA GoBarred ==
    ASSUME CallInv, BarredOK, NEW c \in Call, NEW rest, NEW g, Go(c, rest, g),
           \A p \in black : p \in black' \/ (op[c].kind \in BlackKinds /\ Pair(op[c]) = p),
           c \in barred' => Barred(c)'
    PROVE  BarredOK'
<1> SUFFICES ASSUME NEW d \in barred', d # c PROVE Barred(d)'
  BY DEF BarredOK
<1>1. d \in barred
  BY GoFacts
<1>2. Barred(d)
  BY <1>1 DEF BarredOK
<1>3. op'[d] = op[d] /\ todo'[d] = todo[d] /\ val'[d] = val[d] /\ d \in Call
  BY <1>2, GoFacts DEF Barred
<1>4. PICK p : p = Swap(Pair(op[d]))
  OBVIOUS
<1>5. p \in black /\ ~Running(p, BlackKinds)
  BY <1>2, <1>4 DEF Barred
<1>6. p \in black'
  BY <1>5 DEF Running
<1>7. ASSUME NEW e \in Call, op'[e].kind \in BlackKinds, Pair(op'[e]) = p PROVE FALSE
  <2>1. op'[e] = op[e]
    <3>1. e # c => op'[e] = op[e]
      BY GoFacts
    <3>2. op'[c] = op[c] \/ op'[c] = NoRequest
      BY GoFacts
    <3> QED BY <1>7, <3>1, <3>2, IdleKind
  <2> QED BY <1>5, <1>7, <2>1 DEF Running
<1>8. ~Running(p, BlackKinds)'
  BY <1>7 DEF Running
<1> QED BY <1>2, <1>3, <1>4, <1>6, <1>8 DEF Barred

LEMMA ReadBarred ==
    ASSUME CallInv, FreshInv, BarredOK, NEW c \in Call, Read(c)
    PROVE  BarredOK'
<1>1. PICK rest, g, v :
          /\ todo[c] # <<>> /\ Head(todo[c])[1] \in Reads
          /\ Go(c, rest, g)
          /\ rest # <<>> => Knows(op[c], rest, g)
          /\ ReadStep(op[c], todo[c], v, rest)
          /\ UNCHANGED <<friend, black, request, cut, abandoned>>
          /\ entry' \in [CacheKeys -> Entries]
          /\ \A k \in CacheKeys : Stores(c, k)
          /\ Head(todo[c])[1] = "rows" => v = DbValue(Head(todo[c]))
          /\ Head(todo[c]) \in CacheKeys =>
                 v \in SUBSET User /\ (entry[Head(todo[c])] = Full(v) \/ val[c] = Full(v))
  BY ReadFacts
<1>2. ASSUME c \in barred' PROVE Barred(c)'
  <2>1. c \in barred /\ rest # <<>>
    BY <1>1, <1>2, GoFacts
  <2>2. Barred(c)
    BY <2>1 DEF BarredOK
  <2>3. op'[c] = op[c] /\ todo'[c] = rest /\ val'[c] = Absent
    BY <1>1, <2>1, GoFacts
  <2>4. IsRequest(op[c]) /\ op[c].kind = "send" /\ todo[c] \in SendChecks(op[c])
    BY <2>2, BarredReads DEF Barred
  <2>5. \/ Head(todo[c]) = Blacks(op[c].by) /\ rest \in SendChecks(op[c]) /\ Head(rest) = Blacks(op[c].peer)
        \/ Head(todo[c]) = Blacks(op[c].peer) /\ (op[c].by \in v => rest = <<>>)
    BY <1>1, <2>4 DEF ReadStep
  <2>6. CASE Head(todo[c]) = Blacks(op[c].by) /\ rest \in SendChecks(op[c])
             /\ Head(rest) = Blacks(op[c].peer)
    <3>1. PICK p : p = Swap(Pair(op[c]))
      OBVIOUS
    <3>2. p \in black' /\ ~Running(p, BlackKinds)
      BY <1>1, <2>2, <3>1 DEF Barred
    <3>3. \A e \in Call : op'[e] = op[e]
      BY <1>1, <2>3, GoFacts
    <3>4. ~Running(p, BlackKinds)'
      BY <3>2, <3>3 DEF Running
    <3>5. \A x : val'[c] # Full(x)
      BY <2>3, EntryFacts
    <3> QED BY <2>3, <2>4, <2>6, <3>1, <3>2, <3>4, <3>5 DEF Barred
  <2>7. CASE Head(todo[c]) = Blacks(op[c].peer) /\ (op[c].by \in v => rest = <<>>)
    <3>1. op[c].peer \in User /\ op[c].by \in User
      BY <2>4, RequestFacts
    <3>2. Head(todo[c]) \in CacheKeys
      BY <2>7, <3>1, KeyValues
    <3>3. CASE val[c] = Full(v)
      <4>1. op[c].by \in v
        BY <1>1, <2>2, <2>7, <3>2, <3>3 DEF Barred
      <4> QED BY <2>1, <2>7, <4>1
    <3>4. CASE entry[Head(todo[c])] = Full(v)
      <4>1. Incoming(Blacks(op[c].peer), v)
        BY <2>7, <3>4 DEF Incoming
      <4>2. <<op[c].peer, op[c].by>> \in black /\ ~Running(<<op[c].peer, op[c].by>>, BlackKinds)
        BY <2>2 DEF Barred, Swap, Pair
      <4>3. \A d \in Call : ~Blocking(d, op[c].peer, op[c].by)
        BY <4>2 DEF Blocking, Running
      <4>4. v \in SUBSET User
        BY <1>1, <3>2
      <4>5. op[c].by \in v
        BY <3>1, <4>1, <4>2, <4>3, <4>4 DEF FreshInv, BlacksFresh
      <4> QED BY <2>1, <2>7, <4>5
    <3> QED BY <1>1, <3>2, <3>3, <3>4
  <2> QED BY <2>5, <2>6, <2>7
<1> QED BY <1>1, <1>2, GoBarred

\* A step of a call that does not read a blacklist.
LEMMA OtherBarred ==
    ASSUME CallInv, BarredOK, NEW c \in Call, NEW rest, NEW g, Go(c, rest, g),
           \A p \in black : p \in black' \/ (op[c].kind \in BlackKinds /\ Pair(op[c]) = p),
           Head(todo[c])[1] # "blacks"
    PROVE  BarredOK'
<1>1. c \notin barred
  BY BarredReads DEF BarredOK
<1>2. c \notin barred'
  BY <1>1, GoFacts
<1> QED BY <1>2, GoBarred

LEMMA StartBarred ==
    ASSUME CallInv, BarredOK, NEW c \in Call, Start(c)
    PROVE  BarredOK'
<1>1. PICK o \in ask :
          /\ IsRequest(o) /\ Idle(c)
          /\ op'[c] = o /\ todo'[c] = Follow(o, Nothing, Begin)
          /\ \A d \in Call \ {c} : op'[d] = op[d] /\ todo'[d] = todo[d]
          /\ barred' = IF o.kind \in BlackKinds
                       THEN barred \ { d \in Call : Pair(op[d]) = Swap(Pair(o)) }
                       ELSE IF o.kind = "send" /\ Swap(Pair(o)) \in black
                               /\ ~Running(Swap(Pair(o)), BlackKinds)
                       THEN barred \cup {c} ELSE barred
          /\ UNCHANGED <<friend, black, request, entry, got, val, cut, abandoned>>
  BY CallStart
<1>2. op[c] = NoRequest
  BY <1>1 DEF Idle
<1>3. c \notin barred
  BY <1>2, BarredReads, IdleKind DEF BarredOK
<1>4. ASSUME NEW d \in barred', d # c PROVE Barred(d)'
  <2>1. d \in barred
    BY <1>1, <1>4
  <2>2. Barred(d) /\ d \in Call
    BY <2>1 DEF BarredOK, Barred
  <2>3. op'[d] = op[d] /\ todo'[d] = todo[d] /\ val'[d] = val[d] /\ black' = black
    BY <1>1, <1>4, <2>2
  <2>4. PICK p : p = Swap(Pair(op[d]))
    OBVIOUS
  <2>5. p \in black /\ ~Running(p, BlackKinds)
    BY <2>2, <2>4 DEF Barred
  <2>6. o.kind \in BlackKinds => Pair(o) # p
    <3>1. o.kind \in BlackKinds => Pair(op[d]) # Swap(Pair(o))
      BY <1>1, <1>4, <2>2
    <3>2. Swap(Swap(Pair(op[d]))) = Pair(op[d])
      BY <2>2, BarredReads, RequestFacts
    <3> QED BY <2>4, <3>1, <3>2
  <2>7. ASSUME NEW e \in Call, op'[e].kind \in BlackKinds, Pair(op'[e]) = p PROVE FALSE
    <3>1. CASE e = c
      BY <1>1, <2>6, <2>7, <3>1
    <3>2. CASE e # c
      BY <1>1, <2>5, <2>7, <3>2 DEF Running
    <3> QED BY <3>1, <3>2
  <2>8. ~Running(p, BlackKinds)'
    BY <2>7 DEF Running
  <2> QED BY <2>2, <2>3, <2>4, <2>5, <2>8 DEF Barred
<1>5. ASSUME c \in barred' PROVE Barred(c)'
  <2>1. /\ o.kind = "send" /\ Swap(Pair(o)) \in black
        /\ ~Running(Swap(Pair(o)), BlackKinds)
    BY <1>1, <1>3, <1>5
  <2>2. PICK t : t = Follow(o, Nothing, Begin)
    OBVIOUS
  <2>3. t \in SendChecks(o) /\ Head(t) = Blacks(o.by)
    BY <1>1, <2>1, <2>2, StartPlan
  <2>4. Blacks(o.by) # Blacks(o.peer)
    BY <1>1, RequestFacts, Words
  <2>5. PICK p : p = Swap(Pair(o))
    OBVIOUS
  <2>6. ~Running(p, BlackKinds)'
    <3> SUFFICES ASSUME NEW e \in Call, op'[e].kind \in BlackKinds, Pair(op'[e]) = p PROVE FALSE
      BY DEF Running
    <3>1. e # c
      BY <1>1, <2>1 DEF BlackKinds
    <3> QED BY <1>1, <2>1, <2>5, <3>1 DEF Running
  <2> QED BY <1>1, <2>1, <2>2, <2>3, <2>4, <2>5, <2>6 DEF Barred
<1> QED BY <1>4, <1>5 DEF BarredOK

LEMMA BarredStep ==
    ASSUME CallInv, FreshInv, BarredOK, [Next]_vars
    PROVE  BarredOK'
<1>0. entry \in [CacheKeys -> Entries] /\ val \in [Call -> Entries]
  BY DEF CallInv, RowsOK
<1>1. ASSUME UNCHANGED <<black, op, todo, barred>>,
             \A d \in Call : val'[d] = val[d] \/ \A v : val'[d] # Full(v)
      PROVE  BarredOK'
  <2> SUFFICES ASSUME NEW d \in barred PROVE Barred(d)'
    BY <1>1 DEF BarredOK
  <2>1. Barred(d)
    BY DEF BarredOK
  <2> QED BY <1>1, <2>1 DEF Barred, Running
<1>2. ASSUME NEW k \in CacheKeys, Expire(k) PROVE BarredOK'
  BY <1>1, <1>2 DEF Expire, rowVars, callVars, histVars
<1>3. ASSUME NEW c \in Call, Start(c) PROVE BarredOK'
  BY <1>3, StartBarred
<1>4. ASSUME NEW c \in Call, Read(c) PROVE BarredOK'
  BY <1>4, ReadBarred
<1>5. ASSUME NEW c \in Call, FetchLock(c) PROVE BarredOK'
  <2>1. UNCHANGED <<black, op, todo, barred>> /\ val' = [val EXCEPT ![c] = Held(c)]
    BY <1>5 DEF FetchLock, rowVars, histVars
  <2>2. \A d \in Call : val'[d] = val[d] \/ \A v : val'[d] # Full(v)
    BY <1>0, <2>1, EntryFacts
  <2> QED BY <1>1, <2>1, <2>2
<1>6. ASSUME NEW c \in Call, FetchLoad(c) PROVE BarredOK'
  <2>1. UNCHANGED <<black, op, todo, barred>>
    BY <1>6 DEF FetchLoad, rowVars, histVars
  <2>2. val'[c] = Full(DbValue(Head(todo[c]))) /\ \A d \in Call : d # c => val'[d] = val[d]
    BY <1>0, <1>6 DEF FetchLoad
  <2> SUFFICES ASSUME NEW d \in barred PROVE Barred(d)'
    BY <2>1 DEF BarredOK
  <2>3. Barred(d)
    BY DEF BarredOK
  <2>4. CASE d # c
    BY <2>1, <2>2, <2>3, <2>4 DEF Barred, Running
  <2>5. CASE d = c
    <3>1. op[c].by \in User /\ op[c].peer \in User
      BY <2>3, <2>5, BarredReads, RequestFacts
    <3>2. <<op[c].peer, op[c].by>> \in black
      BY <2>3, <2>5 DEF Barred, Swap, Pair
    <3>3. Head(todo[c]) = Blacks(op[c].peer) => op[c].by \in DbValue(Head(todo[c]))
      BY <3>1, <3>2, KeyValues
    <3>4. \A v : val'[c] = Full(v) => v = DbValue(Head(todo[c]))
      BY <2>2, EntryFacts
    <3> QED BY <2>1, <2>3, <2>5, <3>3, <3>4 DEF Barred, Running
  <2> QED BY <2>4, <2>5
<1>7. ASSUME NEW c \in Call, FlushKey(c) PROVE BarredOK'
  <2>1. Go(c, Tail(todo[c]), got[c]) /\ UNCHANGED black /\ Head(todo[c])[1] = "flush"
    BY <1>7 DEF FlushKey, Done, rowVars
  <2> QED BY <2>1, OtherBarred
<1>8. ASSUME NEW c \in Call, InsertRow(c) PROVE BarredOK'
  <2>1. UNCHANGED black /\ Head(todo[c])[1] = "insert"
    BY <1>8 DEF InsertRow
  <2>2. PICK rest, g : Go(c, rest, g)
    BY <1>8 DEF InsertRow, Failed
  <2> QED BY <2>1, <2>2, OtherBarred
<1>9. ASSUME NEW c \in Call, NEW w, At(c, w), Done(c) \/ Failed(c),
             \A p \in black : p \in black' \/ (op[c].kind \in BlackKinds /\ Pair(op[c]) = p)
      PROVE  BarredOK'
  <2>1. Head(todo[c])[1] = "write"
    BY <1>9, Words DEF At
  <2>2. PICK rest, g : Go(c, rest, g)
    BY <1>9 DEF Done, Failed
  <2> QED BY <1>9, <2>1, <2>2, OtherBarred
<1>10. ASSUME NEW c \in Call, FileRequest(c) \/ Agree(c) \/ AgreeBack(c) \/ Refuse(c) \/ DeleteRow(c)
                              \/ AddBlack(c) \/ Queue(c)
       PROVE  BarredOK'
  <2>1. (\E w : At(c, w)) /\ (Done(c) \/ Failed(c)) /\ black \subseteq black'
    BY <1>10 DEF FileRequest, Agree, AgreeBack, Refuse, DeleteRow, AddBlack, Queue, rowVars
  <2> QED BY <1>9, <2>1
<1>11. ASSUME NEW c \in Call, RemoveBlack(c) PROVE BarredOK'
  <2>1. At(c, "removeBlack") /\ Done(c) /\ black' = black \ {Pair(op[c])}
    BY <1>11 DEF RemoveBlack
  <2>2. todo[c] # <<>> /\ Head(todo[c]) = Write("removeBlack")
    BY <2>1 DEF At
  <2>3. IsRequest(op[c]) /\ Plan(op[c], todo[c])
    BY <2>2, Active
  <2>4. op[c].kind \in BlackKinds
    BY <2>2, <2>3, WritePlan DEF BlackKinds
  <2> QED BY <1>9, <2>1, <2>4
<1>12. CASE UNCHANGED vars
  BY <1>1, <1>12 DEF vars, rowVars, callVars, histVars
<1> QED
  BY <1>2, <1>3, <1>4, <1>5, <1>6, <1>7, <1>8, <1>10, <1>11, <1>12 DEF Next, Serve, Read

-----------------------------------------------------------------------------
(* Friendships go both ways.                                                *)

LEMMA BothFacts ==
    ASSUME NEW p \in Pairs, NEW q \in Both(p)
    PROVE  /\ q \in Pairs /\ p \in Both(q) /\ Both(q) = Both(p)
           /\ Swap(q) # q /\ Swap(Swap(q)) = q /\ Swap(q) \in Both(p) /\ Both(p) = {q, Swap(q)}
<1>1. p = <<p[1], p[2]>> /\ p[1] \in User /\ p[2] \in User /\ p[1] # p[2]
  BY DEF Pairs
<1>2. Swap(p) \in Pairs /\ Swap(Swap(p)) = p /\ Swap(p) # p
  BY <1>1 DEF Pairs, Swap
<1> QED BY <1>2 DEF Both

AdderKinds == {"agree", "import"}

\* Where a call that is not adding rows can be.
LEMMA AdderPlaces ==
    ASSUME NEW o, IsRequest(o), NEW t
    PROVE  /\ t \in BeforeAgree(o) => t \notin BeforeRows(o) /\ Head(t)[1] # "insert"
           /\ t \in BeforeRows(o) => Head(t)[1] # "insert"
           /\ t \in AgreeFlushes(o) => Head(t)[1] # "insert" /\ \A x : Insert(x) \notin Range(t)
<1>1. t \in BeforeAgree(o) \cup BeforeRows(o) \cup AgreeFlushes(o) => Head(t)[1] # "insert"
  BY PlanHeads
<1>2. ASSUME t \in BeforeAgree(o) PROVE t \notin BeforeRows(o)
  <2>1. Pair(o) # Swap(Pair(o))
    BY RequestFacts
  <2>2. Head(t) \in {Req(Swap(Pair(o))), Write("agree")}
    BY <1>2, Heads DEF BeforeAgree
  <2>3. t \in BeforeRows(o) => Head(t) \in {Req(Pair(o)), Write("agreeBack"), Rows(Pair(o))}
    BY Heads DEF BeforeRows
  <2> QED BY <2>1, <2>2, <2>3, Words
<1>3. ASSUME t \in AgreeFlushes(o) PROVE \A x : Insert(x) \notin Range(t)
  <2>1. CASE t = <<FlushBy(o), FlushPeer(o)>>
    <3>1. Range(t) = {FlushBy(o), FlushPeer(o)}
      BY <2>1, Ranges
    <3> QED BY <3>1, Words
  <2>2. CASE t = <<FlushPeer(o)>>
    <3>1. Range(t) = {FlushPeer(o)}
      BY <2>2, Ranges
    <3> QED BY <3>1, Words
  <2> QED BY <1>3, <2>1, <2>2 DEF AgreeFlushes
<1> QED BY <1>1, <1>2, <1>3

\* A step of call c that leaves the friend rows alone.
LEMMA GoBoth ==
    ASSUME CallInv, BothInv, NEW c \in Call, NEW rest, NEW g, Go(c, rest, g),
           UNCHANGED <<friend, cut>>,
           \A p \in Pairs \ cut : Complete(c, p)',
           \A p \in Pairs \ cut : Fills(c, p) => Fills(c, p)' \/ Both(p) \subseteq friend
    PROVE  BothInv'
<1>1. ASSUME NEW d \in Call, d # c, NEW p \in Pairs \ cut
      PROVE  Complete(d, p)' /\ (Fills(d, p) => Fills(d, p)')
  <2>1. op'[d] = op[d] /\ todo'[d] = todo[d]
    BY <1>1, GoFacts
  <2>2. Complete(d, p)
    BY <1>1 DEF BothInv, AddsMissing
  <2> QED BY <2>1, <2>2 DEF Complete, Fills, Adder, Inserting, Looking
<1>2. AddsMissing'
  BY <1>1 DEF AddsMissing
<1>3. ASSUME NEW p \in Pairs \ cut PROVE Both(p) \subseteq friend' \/ \E d \in Call : Fills(d, p)'
  <2>1. Both(p) \subseteq friend \/ \E d \in Call : Fills(d, p)
    BY DEF BothInv, SomeoneAdds
  <2> QED BY <1>1, <2>1
<1>4. SomeoneAdds'
  BY <1>3 DEF SomeoneAdds
<1> QED BY <1>2, <1>4 DEF BothInv

\* A step of call c that adds rows neither before nor after.
LEMMA GoElse ==
    ASSUME CallInv, BothInv, NEW c \in Call, NEW rest, NEW g, Go(c, rest, g),
           UNCHANGED <<friend, cut>>,
           \/ op[c].kind \notin AdderKinds
           \/ /\ op[c].kind = "agree" => todo[c] \notin BeforeRows(op[c])
              /\ Head(todo[c])[1] # "insert"
              /\ rest = <<>> \/ Head(rest)[1] # "insert"
    PROVE  BothInv'
<1>1. \/ rest = <<>> /\ op'[c] = NoRequest /\ todo'[c] = <<>>
      \/ rest # <<>> /\ op'[c] = op[c] /\ todo'[c] = rest
  BY GoFacts
<1>2. ASSUME NEW p \in Pairs PROVE ~Fills(c, p)
  BY DEF Fills, Adder, AdderKinds, Looking, Inserting
<1>3. ASSUME NEW p \in Pairs PROVE Complete(c, p)'
  <2>1. CASE op[c].kind \notin AdderKinds
    <3>1. op'[c].kind \notin AdderKinds
      BY <1>1, <2>1, IdleKind DEF AdderKinds
    <3> QED BY <3>1 DEF Complete, Adder, AdderKinds
  <2>2. CASE rest = <<>> \/ Head(rest)[1] # "insert"
    BY <1>1, <2>2 DEF Complete, Inserting
  <2> QED BY <2>1, <2>2
<1> QED BY <1>2, <1>3, GoBoth

LEMMA ReadBoth ==
    ASSUME CallInv, BothInv, NEW c \in Call, Read(c)
    PROVE  BothInv'
<1>1. PICK rest, g, v :
          /\ todo[c] # <<>> /\ Head(todo[c])[1] \in Reads
          /\ Go(c, rest, g)
          /\ rest # <<>> => Knows(op[c], rest, g)
          /\ ReadStep(op[c], todo[c], v, rest)
          /\ UNCHANGED <<friend, black, request, cut, abandoned>>
          /\ entry' \in [CacheKeys -> Entries]
          /\ \A k \in CacheKeys : Stores(c, k)
          /\ Head(todo[c])[1] = "rows" => v = DbValue(Head(todo[c]))
          /\ Head(todo[c]) \in CacheKeys =>
                 v \in SUBSET User /\ (entry[Head(todo[c])] = Full(v) \/ val[c] = Full(v))
  BY ReadFacts
<1>2. IsRequest(op[c])
  BY <1>1, Active
<1>3. CASE op[c].kind # "agree"
  <2>1. op[c].kind \notin AdderKinds
    BY <1>1, <1>3 DEF ReadStep, AdderKinds
  <2> QED BY <1>1, <2>1, GoElse
<1>4. CASE op[c].kind = "agree" /\ todo[c] \in BeforeAgree(op[c]) /\ (rest = <<>> \/ rest \in BeforeAgree(op[c]))
  BY <1>1, <1>2, <1>4, AdderPlaces, GoElse
<1>5. CASE op[c].kind = "agree" /\ todo[c] \in BeforeRows(op[c]) /\ rest \in BeforeRows(op[c])
  <2>1. Plan(op[c], rest) /\ rest # <<>> /\ Head(rest)[1] # "insert"
    BY <1>2, <1>5, PlanHeads, AdderPlaces DEF Plan
  <2>2. op'[c] = op[c] /\ todo'[c] = rest
    BY <1>1, <2>1, GoFacts
  <2>3. \A p \in Pairs \ cut : Complete(c, p)'
    BY <2>1, <2>2 DEF Complete, Inserting
  <2>4. \A p \in Pairs \ cut : Fills(c, p) => Fills(c, p)'
    BY <1>5, <2>2 DEF Fills, Adder, Looking
  <2> QED BY <1>1, <2>3, <2>4, GoBoth
<1>6. CASE /\ op[c].kind = "agree"
           /\ todo[c] \in BeforeRows(op[c]) /\ Head(todo[c]) = Rows(Pair(op[c]))
           /\ rest \in AgreeInserts(op[c]) \cup AgreeFlushes(op[c])
           /\ \A x \in Both(Pair(op[c])) : Insert(x) \in Range(rest) <=> x \notin v
  <2>1. v = friend \cap Both(Pair(op[c]))
    BY <1>1, <1>6 DEF DbValue, Rows
  <2>2. Plan(op[c], rest) /\ rest # <<>>
    BY <1>2, <1>6, PlanHeads DEF Plan
  <2>3. op'[c] = op[c] /\ todo'[c] = rest
    BY <1>1, <2>2, GoFacts
  <2>4. ASSUME NEW p \in Pairs \ cut, Adder(c, p), NEW q \in Both(p)
        PROVE  Insert(q) \in Range(rest) <=> q \notin friend
    <3>1. Both(Pair(op[c])) = Both(p)
      BY <2>4, BothFacts DEF Adder
    <3> QED BY <1>6, <2>1, <2>4, <3>1
  <2>5. \A p : Adder(c, p)' <=> Adder(c, p)
    BY <2>3 DEF Adder
  <2>6. \A p \in Pairs \ cut : Complete(c, p)'
    BY <1>1, <2>3, <2>4, <2>5 DEF Complete
  <2>7. ASSUME NEW p \in Pairs \ cut, Fills(c, p) PROVE Fills(c, p)' \/ Both(p) \subseteq friend
    <3>0. Adder(c, p)
      BY <2>7 DEF Fills
    <3>1. CASE rest \in AgreeInserts(op[c])
      <4>1. Head(rest)[1] = "insert"
        BY <1>2, <3>1, PlanHeads
      <4> QED BY <1>1, <2>2, <2>3, <2>4, <2>5, <3>0, <4>1 DEF Fills, Inserting
    <3>2. CASE rest \in AgreeFlushes(op[c])
      BY <1>2, <2>4, <3>0, <3>2, AdderPlaces
    <3> QED BY <1>6, <3>1, <3>2
  <2> QED BY <1>1, <2>6, <2>7, GoBoth
<1> QED BY <1>1, <1>3, <1>4, <1>5, <1>6 DEF ReadStep

LEMMA StartBoth ==
    ASSUME CallInv, BothInv, NEW c \in Call, Start(c)
    PROVE  BothInv'
<1>1. PICK o \in ask :
          /\ IsRequest(o) /\ Idle(c)
          /\ op'[c] = o /\ todo'[c] = Follow(o, Nothing, Begin)
          /\ \A d \in Call \ {c} : op'[d] = op[d] /\ todo'[d] = todo[d]
          /\ UNCHANGED <<friend, black, request, entry, got, val, cut, abandoned>>
  BY CallStart
<1>2. op[c] = NoRequest
  BY <1>1 DEF Idle
<1>3. ASSUME NEW p \in Pairs PROVE ~Fills(c, p)
  BY <1>2, IdleKind DEF Fills, Adder
<1>4. ASSUME NEW d \in Call, d # c, NEW p \in Pairs \ cut
      PROVE  Complete(d, p)' /\ (Fills(d, p) => Fills(d, p)')
  <2>1. op'[d] = op[d] /\ todo'[d] = todo[d] /\ friend' = friend
    BY <1>1, <1>4
  <2>2. Complete(d, p)
    BY <1>4 DEF BothInv, AddsMissing
  <2> QED BY <2>1, <2>2 DEF Complete, Fills, Adder, Inserting, Looking
<1>5. ASSUME NEW p \in Pairs PROVE Complete(c, p)'
  <2>1. PICK t : t = Follow(o, Nothing, Begin)
    OBVIOUS
  <2>2. op'[c] = o /\ todo'[c] = t /\ friend' = friend
    BY <1>1, <2>1
  <2>3. CASE o.kind = "agree"
    <3>1. Head(t)[1] # "insert"
      BY <1>1, <2>1, <2>3, StartPlan, AdderPlaces
    <3> QED BY <2>2, <3>1 DEF Complete, Inserting
  <2>4. CASE o.kind = "import"
    <3>1. t = ImportStart(o)
      BY <1>1, <2>1, <2>4, StartPlan
    <3>2. Range(t) = {Insert(Pair(o)), Insert(Swap(Pair(o))), FlushPeer(o), FlushBy(o)}
      BY <3>1, Ranges DEF ImportStart
    <3>3. Pair(o) \in Both(p) => Both(p) = {Pair(o), Swap(Pair(o))}
      BY BothFacts
    <3> QED BY <2>2, <3>2, <3>3 DEF Complete, Adder
  <2>5. CASE o.kind \notin AdderKinds
    BY <2>2, <2>5 DEF Complete, Adder, AdderKinds
  <2> QED BY <2>3, <2>4, <2>5 DEF AdderKinds
<1>6. AddsMissing'
  BY <1>1, <1>4, <1>5 DEF AddsMissing
<1>7. ASSUME NEW p \in Pairs \ cut PROVE Both(p) \subseteq friend' \/ \E d \in Call : Fills(d, p)'
  <2>1. Both(p) \subseteq friend \/ \E d \in Call : Fills(d, p)
    BY DEF BothInv, SomeoneAdds
  <2> QED BY <1>1, <1>3, <1>4, <2>1
<1>8. SomeoneAdds'
  BY <1>1, <1>7 DEF SomeoneAdds
<1> QED BY <1>6, <1>8 DEF BothInv

LEMMA AgreeBoth ==
    ASSUME CallInv, BothInv, NEW c \in Call, Agree(c)
    PROVE  BothInv'
<1>1. PICK p0 : p0 = Swap(Pair(op[c]))
  OBVIOUS
<1>2. /\ todo[c] # <<>> /\ Head(todo[c]) = Write("agree")
      /\ cut' = IF Adding(c, p0) THEN cut ELSE cut \ Both(p0)
      /\ Go(c, Tail(todo[c]), got[c])
      /\ UNCHANGED friend
  BY <1>1 DEF Agree, At, Done
<1>3. IsRequest(op[c]) /\ Plan(op[c], todo[c])
  BY <1>2, Active
<1>4. PICK r : r = Tail(todo[c])
  OBVIOUS
<1>5. op[c].kind = "agree" /\ todo[c] \in BeforeAgree(op[c]) /\ r \in BeforeRows(op[c])
  BY <1>2, <1>3, <1>4, WritePlan
<1>6. r # <<>> /\ Head(r)[1] # "insert"
  <2>1. Plan(op[c], r)
    BY <1>5 DEF Plan
  <2> QED BY <1>3, <1>5, <2>1, PlanHeads, AdderPlaces
<1>7. op'[c] = op[c] /\ todo'[c] = r
  BY <1>2, <1>4, <1>6, GoFacts
<1>8. \A d \in Call \ {c} : op'[d] = op[d] /\ todo'[d] = todo[d]
  BY <1>2, GoFacts
<1>9. Looking(c)' /\ ~Inserting(c)'
  BY <1>5, <1>6, <1>7 DEF Looking, Inserting
<1>10. ~Looking(c) /\ ~Inserting(c)
  BY <1>3, <1>5, AdderPlaces DEF Looking, Inserting
<1>11. p0 \in Pairs /\ Pair(op[c]) \in Both(p0)
  BY <1>1, <1>3, RequestFacts DEF Both
<1>12. ASSUME NEW p \in Pairs \ cut', NEW d \in Call PROVE Complete(d, p)'
  <2>1. CASE d = c
    BY <1>9, <2>1 DEF Complete
  <2>2. CASE d # c /\ p \notin cut
    <3>1. Complete(d, p)
      BY <2>2 DEF BothInv, AddsMissing
    <3>2. op'[d] = op[d] /\ todo'[d] = todo[d] /\ friend' = friend
      BY <1>2, <1>8, <2>2
    <3> QED BY <3>1, <3>2 DEF Complete, Adder, Inserting
  <2>3. CASE d # c /\ p \in cut
    <3>1. ~Adding(c, p0) /\ p \in Both(p0)
      BY <1>2, <2>3
    <3>2. Both(p) = Both(p0)
      BY <1>11, <3>1, BothFacts
    <3>3. op'[d] = op[d] /\ todo'[d] = todo[d] /\ friend' = friend
      BY <1>2, <1>8, <2>3
    <3> SUFFICES ASSUME Adder(d, p), Inserting(d), NEW q \in Both(p)
                 PROVE  Insert(q) \in Range(todo[d])
      BY <3>3 DEF Complete, Adder, Inserting
    <3>4. IsRequest(op[d]) /\ Plan(op[d], todo[d]) /\ Head(todo[d])[1] = "insert"
      BY Active DEF Inserting
    <3>5. PICK x : x = Head(todo[d])[2]
      OBVIOUS
    <3>6. \A k \in DOMAIN got[d] : k[1] \notin {"rows", "insert"}
      BY <2>3, <3>1, <3>2 DEF Adding, Adder
    <3>7. op[d].kind # "agree"
      <4>1. op[d].kind = "agree" => todo[d] \in AgreeInserts(op[d])
        BY <3>4, <3>5, InsertPlan
      <4>2. op[d].kind = "agree" => Rows(Pair(op[d])) \in DOMAIN got[d]
        BY <4>1 DEF CallInv, GotOK
      <4> QED BY <3>6, <4>2, Words
    <3>8. op[d].kind = "import"
      BY <3>7 DEF Adder
    <3>9. todo[d] # ImportMid(op[d])
      <4>1. todo[d] = ImportMid(op[d]) => Insert(Pair(op[d])) \in DOMAIN got[d]
        BY <3>8 DEF CallInv, GotOK
      <4> QED BY <3>6, <4>1, Words
    <3>10. todo[d] = ImportStart(op[d])
      BY <3>4, <3>8, <3>9, PlanHeads DEF Plan, BlackKinds
    <3>11. Range(todo[d]) = {Insert(Pair(op[d])), Insert(Swap(Pair(op[d]))), FlushPeer(op[d]), FlushBy(op[d])}
      BY <3>10, Ranges DEF ImportStart
    <3>12. Both(p) = {Pair(op[d]), Swap(Pair(op[d]))}
      BY BothFacts DEF Adder
    <3> QED BY <3>11, <3>12
  <2> QED BY <2>1, <2>2, <2>3
<1>13. ASSUME NEW p \in Pairs \ cut' PROVE Both(p) \subseteq friend' \/ \E d \in Call : Fills(d, p)'
  <2>1. CASE p \in cut
    <3>1. p \in Both(p0)
      BY <1>2, <2>1
    <3>2. Pair(op[c]) \in Both(p)
      BY <1>11, <3>1, BothFacts
    <3>3. Fills(c, p)'
      BY <1>5, <1>7, <1>9, <3>2 DEF Fills, Adder
    <3> QED BY <3>3
  <2>2. CASE p \notin cut
    <3>1. Both(p) \subseteq friend \/ \E d \in Call : Fills(d, p)
      BY <2>2 DEF BothInv, SomeoneAdds
    <3>2. ASSUME NEW d \in Call, Fills(d, p) PROVE Fills(d, p)'
      <4>1. d # c
        BY <1>10, <3>2 DEF Fills
      <4>2. op'[d] = op[d] /\ todo'[d] = todo[d] /\ friend' = friend
        BY <1>2, <1>8, <4>1
      <4> QED BY <3>2, <4>2 DEF Fills, Adder, Inserting, Looking
    <3> QED BY <1>2, <3>1, <3>2
  <2> QED BY <2>1, <2>2
<1>14. AddsMissing'
  BY <1>12 DEF AddsMissing
<1>15. SomeoneAdds'
  BY <1>13 DEF SomeoneAdds
<1> QED BY <1>14, <1>15 DEF BothInv

LEMMA InsertBoth ==
    ASSUME CallInv, BothInv, NEW c \in Call, InsertRow(c)
    PROVE  BothInv'
<1>1. PICK q0 \in Both(Pair(op[c])) :
          /\ todo[c] # <<>> /\ Head(todo[c])[1] = "insert" /\ Head(todo[c]) = Insert(q0)
          /\ q0 \in Pairs
          /\ \/ /\ q0 \in friend /\ Failed(c) /\ UNCHANGED friend
                /\ abandoned' = abandoned \cup
                       { Friends(q[1]) : q \in { q \in Pairs : Insert(q) \in DOMAIN got[c] } }
             \/ /\ q0 \notin friend /\ friend' = friend \cup {q0} /\ UNCHANGED abandoned
                /\ Go(c, Tail(todo[c]), Put(got[c], Insert(q0), TRUE))
          /\ UNCHANGED <<black, request, entry, cut>>
  BY InsertFacts
<1>2. IsRequest(op[c]) /\ Plan(op[c], todo[c])
  BY <1>1, Active
<1>3. q0 = Head(todo[c])[2]
  BY <1>1, Words
<1>4. PICK r : r = Tail(todo[c])
  OBVIOUS
<1>5. /\ op[c].kind \in {"agree", "import"}
      /\ r # <<>>
      /\ Range(todo[c]) = {Insert(q0)} \cup Range(r)
  BY <1>1, <1>2, <1>3, <1>4, InsertPlan
<1>51. /\ Insert(q0) \notin Range(r)
       /\ Insert(Swap(q0)) \in Range(r) => Head(r)[1] = "insert"
  BY <1>1, <1>2, <1>3, <1>4, InsertPlan
<1>6. Inserting(c) /\ ~Looking(c)
  BY <1>1, <1>2, AdderPlaces DEF Inserting, Looking
<1>7. ASSUME NEW p \in Pairs PROVE Adder(c, p) <=> q0 \in Both(p)
  <2>1. Pair(op[c]) \in Pairs
    BY <1>2, RequestFacts
  <2>2. Both(q0) = Both(Pair(op[c])) /\ Pair(op[c]) \in Both(q0)
    BY <1>1, <2>1, BothFacts
  <2>3. Pair(op[c]) \in Both(p) => q0 \in Both(p)
    BY <1>1, BothFacts
  <2>4. q0 \in Both(p) => Pair(op[c]) \in Both(p)
    BY <2>2, BothFacts
  <2> QED BY <1>5, <2>3, <2>4 DEF Adder
<1>8. CASE q0 \in friend
  <2>1. Go(c, <<>>, got[c]) /\ UNCHANGED <<friend, cut>>
    BY <1>1, <1>8 DEF Failed
  <2>2. op'[c] = NoRequest
    BY <2>1, GoFacts
  <2>3. \A p \in Pairs \ cut : Complete(c, p)'
    BY <2>2, IdleKind DEF Complete, Adder
  <2>4. \A p \in Pairs \ cut : ~Fills(c, p)
    BY <1>5, <1>6, <1>7, <1>8 DEF Fills
  <2> QED BY <2>1, <2>3, <2>4, GoBoth
<1>9. CASE q0 \notin friend
  <2>1. friend' = friend \cup {q0} /\ Go(c, r, Put(got[c], Insert(q0), TRUE)) /\ cut' = cut
    BY <1>1, <1>4, <1>9
  <2>2. PICK g : g = Put(got[c], Insert(q0), TRUE)
    OBVIOUS
  <2>3. Go(c, r, g)
    BY <2>1, <2>2
  <2>4. op'[c] = op[c] /\ todo'[c] = r /\ \A d \in Call \ {c} : op'[d] = op[d] /\ todo'[d] = todo[d]
    BY <1>5, <2>3, GoFacts
  <2>5. ASSUME NEW p \in Pairs \ cut, NEW d \in Call PROVE Complete(d, p)'
    <3>1. Complete(d, p)
      BY <2>5 DEF BothInv, AddsMissing
    <3>2. CASE d # c
      <4>1. op'[d] = op[d] /\ todo'[d] = todo[d]
        BY <2>4, <3>2
      <4> QED BY <2>1, <3>1, <4>1 DEF Complete, Adder, Inserting
    <3>3. CASE d = c
      <4>1. Adder(c, p)' => Adder(c, p)
        BY <2>4 DEF Adder
      <4>2. Adder(c, p) => \A q \in Both(p) : q \in friend \/ Insert(q) \in {Insert(q0)} \cup Range(r)
        BY <1>5, <1>6, <3>1, <3>3 DEF Complete
      <4>3. \A q : Insert(q) = Insert(q0) => q = q0
        BY Words
      <4> QED BY <2>1, <2>4, <3>3, <4>1, <4>2, <4>3 DEF Complete
    <3> QED BY <3>2, <3>3
  <2>6. ASSUME NEW p \in Pairs \ cut PROVE Both(p) \subseteq friend' \/ \E d \in Call : Fills(d, p)'
    <3>1. CASE q0 \in Both(p)
      <4>1. Adder(c, p) /\ Adder(c, p)'
        BY <1>7, <2>4, <2>6, <3>1 DEF Adder
      <4>2. Both(p) = {q0, Swap(q0)} /\ q0 # Swap(q0)
        BY <3>1, BothFacts
      <4>3. CASE Swap(q0) \in friend'
        BY <2>1, <4>2, <4>3
      <4>4. CASE Swap(q0) \notin friend'
        <5>1. Complete(c, p)
          BY <2>6 DEF BothInv, AddsMissing
        <5>2. Insert(Swap(q0)) \in Range(todo[c])
          BY <1>6, <2>1, <4>1, <4>2, <4>4, <5>1 DEF Complete
        <5>3. Insert(Swap(q0)) # Insert(q0)
          BY <4>2, Words
        <5>4. Head(r)[1] = "insert"
          BY <1>5, <1>51, <5>2, <5>3
        <5>5. Inserting(c)'
          BY <1>5, <2>4, <5>4 DEF Inserting
        <5>6. Fills(c, p)'
          BY <1>51, <2>4, <4>1, <4>2, <4>4, <5>5 DEF Fills
        <5> QED BY <5>6
      <4> QED BY <4>3, <4>4
    <3>2. CASE q0 \notin Both(p)
      <4>1. Both(p) \subseteq friend \/ \E d \in Call : Fills(d, p)
        BY <2>6 DEF BothInv, SomeoneAdds
      <4>2. ASSUME NEW d \in Call, Fills(d, p) PROVE Fills(d, p)'
        <5>1. d # c
          BY <1>7, <3>2, <4>2 DEF Fills
        <5>2. op'[d] = op[d] /\ todo'[d] = todo[d]
          BY <2>4, <5>1
        <5>3. \A q \in Both(p) : q \in friend' => q \in friend
          BY <2>1, <3>2
        <5> QED BY <4>2, <5>2, <5>3 DEF Fills, Adder, Inserting, Looking
      <4> QED BY <2>1, <4>1, <4>2
    <3> QED BY <3>1, <3>2
  <2>7. AddsMissing' /\ SomeoneAdds'
    BY <2>1, <2>5, <2>6 DEF AddsMissing, SomeoneAdds
  <2> QED BY <2>7 DEF BothInv
<1> QED BY <1>8, <1>9

LEMMA DeleteBoth ==
    ASSUME CallInv, BothInv, NEW c \in Call, DeleteRow(c)
    PROVE  BothInv'
<1>1. PICK p0 : p0 = Pair(op[c])
  OBVIOUS
<1>2. /\ todo[c] # <<>> /\ Head(todo[c]) = Write("delete")
      /\ friend' = friend \ {p0} /\ cut' = cut \cup Both(p0)
      /\ Go(c, Tail(todo[c]), got[c])
  BY <1>1 DEF DeleteRow, At, Done
<1>3. IsRequest(op[c]) /\ Plan(op[c], todo[c])
  BY <1>2, Active
<1>4. op[c].kind = "delete"
  BY <1>2, <1>3, WritePlan
<1>5. op'[c] = op[c] \/ op'[c] = NoRequest
  BY <1>2, GoFacts
<1>6. ASSUME NEW p \in Pairs PROVE ~Adder(c, p) /\ ~Adder(c, p)'
  BY <1>4, <1>5, IdleKind DEF Adder
<1>7. ASSUME NEW p \in Pairs \ cut' PROVE p \in Pairs \ cut /\ \A q \in Both(p) : q \in friend' <=> q \in friend
  <2>1. p \notin Both(p0) /\ p \in Pairs \ cut
    BY <1>2, <1>7
  <2>2. p0 \notin Both(p)
    BY <2>1, BothFacts
  <2> QED BY <1>2, <2>1, <2>2
<1>8. ASSUME NEW d \in Call, NEW p \in Pairs \ cut'
      PROVE  Complete(d, p)' /\ (Fills(d, p) => Fills(d, p)')
  <2>1. CASE d = c
    BY <1>6, <2>1 DEF Complete, Fills
  <2>2. CASE d # c
    <3>1. op'[d] = op[d] /\ todo'[d] = todo[d]
      BY <1>2, <2>2, GoFacts
    <3>2. Complete(d, p)
      BY <1>7 DEF BothInv, AddsMissing
    <3>3. \A q \in Both(p) : q \in friend' <=> q \in friend
      BY <1>7
    <3> QED BY <3>1, <3>2, <3>3 DEF Complete, Fills, Adder, Inserting, Looking
  <2> QED BY <2>1, <2>2
<1>9. ASSUME NEW p \in Pairs \ cut' PROVE Both(p) \subseteq friend' \/ \E d \in Call : Fills(d, p)'
  <2>1. Both(p) \subseteq friend \/ \E d \in Call : Fills(d, p)
    BY <1>7 DEF BothInv, SomeoneAdds
  <2> QED BY <1>7, <1>8, <2>1
<1>10. AddsMissing' /\ SomeoneAdds'
  BY <1>8, <1>9 DEF AddsMissing, SomeoneAdds
<1> QED BY <1>10 DEF BothInv

LEMMA BothStep ==
    ASSUME CallInv, BothInv, [Next]_vars
    PROVE  BothInv'
<1>1. ASSUME UNCHANGED <<friend, cut, op, todo>> PROVE BothInv'
  BY <1>1 DEF BothInv, AddsMissing, SomeoneAdds, Complete, Fills, Adder, Inserting, Looking
<1>2. ASSUME NEW k \in CacheKeys, Expire(k) PROVE BothInv'
  BY <1>1, <1>2 DEF Expire, rowVars, callVars, histVars
<1>3. ASSUME NEW c \in Call, FetchLock(c) \/ FetchLoad(c) PROVE BothInv'
  BY <1>1, <1>3 DEF FetchLock, FetchLoad, rowVars, histVars
<1>4. ASSUME NEW c \in Call, Start(c) PROVE BothInv'
  BY <1>4, StartBoth
<1>5. ASSUME NEW c \in Call, Read(c) PROVE BothInv'
  BY <1>5, ReadBoth
<1>6. ASSUME NEW c \in Call, FlushKey(c) PROVE BothInv'
  <2>1. /\ todo[c] # <<>> /\ Head(todo[c])[1] = "flush" /\ Go(c, Tail(todo[c]), got[c])
        /\ UNCHANGED <<friend, cut>>
    BY <1>6 DEF FlushKey, Done, rowVars
  <2>2. IsRequest(op[c]) /\ Plan(op[c], todo[c])
    BY <2>1, Active
  <2>3. Tail(todo[c]) = <<>> \/ Head(Tail(todo[c]))[1] = "flush"
    BY <2>1, <2>2, FlushPlan
  <2>4. todo[c] \notin BeforeRows(op[c])
    BY <2>1, <2>2, PlanHeads
  <2> QED BY <2>1, <2>3, <2>4, GoElse
<1>7. ASSUME NEW c \in Call, Agree(c) PROVE BothInv'
  BY <1>7, AgreeBoth
<1>8. ASSUME NEW c \in Call, InsertRow(c) PROVE BothInv'
  BY <1>8, InsertBoth
<1>9. ASSUME NEW c \in Call, DeleteRow(c) PROVE BothInv'
  BY <1>9, DeleteBoth
<1>10. ASSUME NEW c \in Call, AgreeBack(c) PROVE BothInv'
  <2>1. /\ todo[c] # <<>> /\ Head(todo[c]) = Write("agreeBack") /\ Go(c, Tail(todo[c]), got[c])
        /\ UNCHANGED <<friend, cut>>
    BY <1>10 DEF AgreeBack, At, Done
  <2>2. IsRequest(op[c]) /\ Plan(op[c], todo[c])
    BY <2>1, Active
  <2>3. PICK r : r = Tail(todo[c])
    OBVIOUS
  <2>4. op[c].kind = "agree" /\ todo[c] \in BeforeRows(op[c]) /\ r \in BeforeRows(op[c])
    BY <2>1, <2>2, <2>3, WritePlan
  <2>5. Plan(op[c], r) /\ r # <<>> /\ Head(r)[1] # "insert"
    BY <2>2, <2>4, PlanHeads, AdderPlaces DEF Plan
  <2>6. op'[c] = op[c] /\ todo'[c] = r
    BY <2>1, <2>3, <2>5, GoFacts
  <2>7. \A p \in Pairs \ cut : Complete(c, p)'
    BY <2>5, <2>6 DEF Complete, Inserting
  <2>8. \A p \in Pairs \ cut : Fills(c, p) => Fills(c, p)'
    BY <2>4, <2>6 DEF Fills, Adder, Looking
  <2> QED BY <2>1, <2>7, <2>8, GoBoth
<1>11. ASSUME NEW c \in Call, NEW w \in {"file", "refuse", "addBlack", "removeBlack", "queue"},
              At(c, w), Done(c) \/ Failed(c), UNCHANGED <<friend, cut>>
       PROVE  BothInv'
  <2>1. todo[c] # <<>> /\ Head(todo[c]) = Write(w)
    BY <1>11 DEF At
  <2>2. IsRequest(op[c]) /\ Plan(op[c], todo[c])
    BY <2>1, Active
  <2>3. Head(todo[c])[1] = "write" /\ Head(todo[c])[2] = w
    BY <2>1, Words
  <2>4. w \in {"file", "refuse", "queue"} => Tail(todo[c]) = <<>>
    BY <2>1, <2>2, WritePlan
  <2>5. w \in BlackKinds => op[c].kind = w
    BY <2>1, <2>2, WritePlan
  <2>6. PICK rest, g : Go(c, rest, g) /\ (rest = <<>> \/ rest = Tail(todo[c]))
    BY <1>11 DEF Done, Failed
  <2>7. CASE w \in BlackKinds
    <3>1. op[c].kind \notin AdderKinds
      BY <2>5, <2>7 DEF BlackKinds, AdderKinds
    <3> QED BY <1>11, <2>6, <3>1, GoElse
  <2>8. CASE w \in {"file", "refuse", "queue"}
    <3>1. op[c].kind = "agree" => todo[c] \notin BeforeRows(op[c])
      <4>1. ASSUME op[c].kind = "agree", todo[c] \in BeforeRows(op[c]) PROVE FALSE
        <5>1. Head(todo[c]) \in {Req(Pair(op[c])), Write("agreeBack"), Rows(Pair(op[c]))}
          BY <4>1, Heads DEF BeforeRows
        <5> QED BY <2>3, <2>8, <5>1, Words
      <4> QED BY <4>1
    <3> QED BY <1>11, <2>3, <2>4, <2>6, <2>8, <3>1, GoElse
  <2> QED BY <2>7, <2>8 DEF BlackKinds
<1>12. ASSUME NEW c \in Call, FileRequest(c) PROVE BothInv'
  BY <1>11, <1>12 DEF FileRequest
<1>13. ASSUME NEW c \in Call, Refuse(c) PROVE BothInv'
  BY <1>11, <1>13 DEF Refuse
<1>14. ASSUME NEW c \in Call, AddBlack(c) PROVE BothInv'
  BY <1>11, <1>14 DEF AddBlack
<1>15. ASSUME NEW c \in Call, RemoveBlack(c) PROVE BothInv'
  BY <1>11, <1>15 DEF RemoveBlack
<1>16. ASSUME NEW c \in Call, Queue(c) PROVE BothInv'
  BY <1>11, <1>16 DEF Queue, rowVars
<1>17. CASE UNCHANGED vars
  BY <1>1, <1>17 DEF vars, rowVars, callVars, histVars
<1> QED
  BY <1>2, <1>3, <1>4, <1>5, <1>6, <1>7, <1>8, <1>9, <1>10, <1>12, <1>13, <1>14, <1>15, <1>16, <1>17
  DEF Next, Serve, Read

-----------------------------------------------------------------------------
(* The theorems.                                                            *)

FriendInv == CallInv /\ FreshInv /\ BarredOK /\ BothInv

LEMMA FriendInit ==
    ASSUME Init
    PROVE  FriendInv
<1>1. PICK s \in Scenario : friend = s.friend /\ black = s.black /\ ask = s.ask
  BY DEF Init
<1>2. friend \subseteq Pairs /\ black \subseteq Pairs /\ \A o \in ask : IsRequest(o)
  BY <1>1, ConstantsAssumption DEF IsRequest, Pair
<1>3. /\ entry = [k \in CacheKeys |-> Absent] /\ val = [c \in Call |-> Absent]
      /\ op = [c \in Call |-> NoRequest] /\ todo = [c \in Call |-> <<>>]
      /\ got = [c \in Call |-> Nothing] /\ barred = {} /\ cut = Pairs /\ abandoned = {}
  BY DEF Init
<1>4. RowsOK
  BY <1>2, <1>3, EntryFacts DEF RowsOK
<1>5. PlanOK /\ FetchOK
  BY <1>3 DEF PlanOK, FetchOK
<1>6. GotOK
  BY <1>3, IdleKind DEF GotOK
<1>7. \A k \in CacheKeys : \A v : ~Incoming(k, v)
  BY <1>3, EntryFacts DEF Incoming
<1>8. FreshInv
  BY <1>7, KeyValues DEF FreshInv, FriendsFresh, BlacksFresh
<1>9. BarredOK /\ BothInv
  BY <1>3 DEF BarredOK, BothInv, AddsMissing, SomeoneAdds
<1> QED BY <1>4, <1>5, <1>6, <1>8, <1>9 DEF FriendInv, CallInv

(***************************************************************************)
(* The inductive invariant of the friend service: every call follows its   *)
(* plan; a list that is cached, or on its way to the cache, is that of the *)
(* rows or owed a deletion; a send that began blocked has not passed the   *)
(* blacklist; somebody adds the missing rows of an agreed friendship.      *)
(***************************************************************************)
THEOREM FriendInvariant == Spec => []FriendInv
<1>1. Init => FriendInv
  BY FriendInit
<1>2. FriendInv /\ [Next]_vars => FriendInv'
  BY CallStep, FreshStep, BarredStep, BothStep DEF FriendInv
<1> QED BY <1>1, <1>2, PTL DEF Spec

\* CacheFresh: a cached list differs from the rows only while its deletion is owed.
THEOREM CacheFreshHolds == Spec => []CacheFresh
<1>1. ASSUME FriendInv PROVE CacheFresh
  <2> SUFFICES ASSUME NEW k \in CacheKeys, Cached(k), entry[k].value # DbValue(k)
               PROVE  k \in abandoned \/ \E c \in Call : Pending(c, k)
    BY DEF CacheFresh
  <2>1. CallInv /\ FreshInv
    BY <1>1 DEF FriendInv
  <2>2. PICK v \in SUBSET User : entry[k] = Full(v) /\ entry[k].value = v
    BY <2>1, EntryFacts DEF CallInv, RowsOK, Cached
  <2>3. Incoming(k, v)
    BY <2>2 DEF Incoming
  <2>4. PICK u \in User : k = Friends(u) \/ k = Blacks(u)
    BY KeyWords
  <2>5. CASE k = Friends(u)
    <3>1. Excused(u)
      BY <2>1, <2>2, <2>3, <2>5, KeyValues DEF FreshInv, FriendsFresh
    <3>2. ASSUME NEW c \in Call, Owes(c, u) PROVE Pending(c, k)
      <4>1. \E i \in DOMAIN todo[c] : todo[c][i] = <<"flush", k>>
        BY <2>5, <3>2 DEF Owes, Range, FlushOf
      <4> QED BY <3>2, <4>1 DEF Owes, Pending
    <3> QED BY <2>5, <3>1, <3>2 DEF Excused
  <2>6. CASE k = Blacks(u)
    <3>1. v # { w \in User : <<u, w>> \in black }
      BY <2>2, <2>6, KeyValues
    <3>2. PICK w \in User : ~(w \in v <=> <<u, w>> \in black)
      BY <3>1
    <3>3. PICK c \in Call : Blocking(c, u, w)
      BY <2>1, <2>3, <2>6, <3>2 DEF FreshInv, BlacksFresh
    <3>4. todo[c] = <<FlushOf(Blacks(u))>>
      BY <3>3 DEF Blocking, FlushBlack, Pair
    <3>5. Head(todo[c])[1] = "flush" /\ 1 \in DOMAIN todo[c] /\ todo[c][1] = <<"flush", k>>
      BY <2>6, <3>4 DEF FlushOf
    <3> QED BY <3>5 DEF Pending
  <2> QED BY <2>4, <2>5, <2>6
<1> QED BY <1>1, FriendInvariant, PTL

\* BlockHolds: messageVerification refuses the message of a user who was blocked before it began.
THEOREM BlockHoldsHolds == Spec => []BlockHolds
<1>1. ASSUME FriendInv PROVE BlockHolds
  <2> SUFFICES ASSUME NEW c \in barred, At(c, "queue") PROVE FALSE
    BY DEF BlockHolds
  <2>1. Barred(c) /\ c \in Call /\ CallInv
    BY <1>1 DEF FriendInv, BarredOK, Barred
  <2>2. Head(todo[c])[1] = "blacks"
    BY <2>1, BarredReads
  <2> QED BY <2>2, Words DEF At
<1> QED BY <1>1, FriendInvariant, PTL

\* FriendsBothWays: no agreement leaves a friendship one-sided.
THEOREM FriendsBothWaysHolds == Spec => []FriendsBothWays
<1>1. ASSUME FriendInv PROVE FriendsBothWays
  <2> SUFFICES ASSUME NEW p \in Pairs \ cut, ~(Both(p) \subseteq friend)
               PROVE  Running(p, Kinds) \/ Running(Swap(p), Kinds)
    BY DEF FriendsBothWays
  <2>1. PICK d \in Call : Fills(d, p)
    BY <1>1 DEF FriendInv, BothInv, SomeoneAdds
  <2>2. op[d].kind \in Kinds /\ Pair(op[d]) \in Both(p)
    BY <2>1 DEF Fills, Adder, Kinds
  <2> QED BY <2>2 DEF Running, Both
<1> QED BY <1>1, FriendInvariant, PTL
=============================================================================
