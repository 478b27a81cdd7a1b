--------------------------- MODULE MsgStoreProofs ---------------------------
(***************************************************************************)
(* What holds of the stored messages of a conversation for any number of   *)
(* calls, users, messages and document sizes.                              *)
(*                                                                         *)
(* The argument.  A slot only ever holds its own message (SlotInv), and    *)
(* what a step writes to the slot of a message that no call removes adds   *)
(* to it: the message, its revoke, its read mark and the users who deleted *)
(* it stay (SlotsGrow).  A message is in the cache until the consumer has  *)
(* written the whole batch to its slots (KeepInv).  So what a call has     *)
(* written is still there when a later one looks (WrittenInv), and what a  *)
(* read has collected agrees with everything that had been acknowledged    *)
(* when it began (ShownInv).  A pull finds every message of its page, in   *)
(* the cache or, later, in MongoDB, or drops it because a delete of its    *)
(* user has listed it (DelInv, PullInv).                                   *)
(***************************************************************************)
EXTENDS MsgStore, FiniteSetTheorems, WellFoundedInduction, TLAPS

-----------------------------------------------------------------------------
(* The inductive invariant.                                                *)

SlotSet  == [msg : Nat, rewritten : BOOLEAN, revoke : BOOLEAN, hasDel : BOOLEAN,
             del : SUBSET User, isRead : BOOLEAN]
BlockSet == [i : Nat, last : Nat, try : BOOLEAN]
EntrySet == [seq : Seqs, how : {"cached", "plain", "rewritten", "revoked"}]
ViewSet  == [begin : Int, end : Int, first : Int, miss : SUBSET Seqs, page : SUBSET EntrySet,
             got : SUBSET EntrySet, seqs : SUBSET Seqs]
BatchSet == [first : Seqs, last : Seqs]
HistSet  == [before : SUBSET Call, during : SUBSET Call]
Place    == {"start", "min", "max", "cache", "dels", "again", "spin", "docs", "rewrite", "write",
             "users", "seqs", "push", "remove", "scan", "expire", "clean", "setMin", "look",
             "getMin", "moveMin", "hide", "setRead", "mark", "getRead", "done", "failed"}

\* The variables the argument speaks of hold what they are meant to hold.
StoreType ==
    /\ maxSeq \in 0 .. MaxMsgs /\ minSeq \in Nat
    /\ userMin \in [User -> Nat] /\ hasRead \in [User -> Nat]
    /\ cache \subseteq Seqs
    /\ queue \in Seq(BatchSet) /\ qpos \in Nat
    /\ fresh \in [pc : {"idle", "cached", "numbered", "marked"}, n : Nat]
    /\ mc \in {"idle", "insert", "cache", "lists", "clear"}
    /\ docs \subseteq Docs /\ slot \in [Docs -> [Index -> SlotSet]]
    /\ blk \in [Call \cup {Consumer} -> BlockSet]
    /\ op \in Scenario
    /\ pc \in [Call -> Place]
    /\ view \in [Call -> ViewSet]
    /\ todo \in [Call -> SUBSET Nat]
    /\ num \in [Call -> Nat]
    /\ hist \in [Call -> HistSet]

ReadKinds == {"pull", "pullSeqs", "revoke"}
MarkKinds == {"markMsgs", "markConv", "readSeq", "setRead"}

\* Where a request of each kind may be.
PlaceOf(kd) ==
    CASE kd = "pull"       -> {"min", "max", "cache", "dels", "again", "spin", "docs", "rewrite"}
      [] kd = "pullSeqs"   -> {"min", "max", "cache", "docs", "rewrite"}
      [] kd = "revoke"     -> {"min", "max", "cache", "docs", "rewrite", "write"}
      [] kd = "deleteSelf" -> {"users", "seqs", "push"}
      [] kd = "deleteAll"  -> {"remove"}
      [] kd = "purge"      -> {"scan", "expire", "clean", "setMin"}
      [] kd = "destruct"   -> {"look", "getMin", "moveMin"}
      [] kd \in {"clearSelf", "clearAll"} -> {"hide", "setRead"}
      [] kd = "markMsgs"   -> {"mark", "getRead", "setRead"}
      [] kd = "markConv"   -> {"mark", "setRead"}
      [] kd \in {"readSeq", "setRead"} -> {"setRead"}
PlaceInv(k) ==
    /\ pc[k] \in {"start"} \cup Final \cup PlaceOf(Kind(k))
    /\ pc[k] = "start" => view[k] = NoView /\ todo[k] = {}

\* A read stays within the seqs; a message whose quote it rewrites is the next of
\* its page and was read without a revoke.
ReadInv(k) ==
    Kind(k) \in ReadKinds =>
        /\ pc[k] \in {"max", "cache", "dels"} => view[k].begin >= 1
        /\ pc[k] \in {"cache", "dels"} => view[k].first >= 1 /\ view[k].end <= MaxMsgs
        /\ pc[k] \in {"cache", "dels"} /\ Kind(k) = "pull" => view[k].first <= MaxMsgs + 1
        /\ pc[k] = "again" => todo[k] \subseteq Seqs
        /\ pc[k] = "rewrite" => \E e \in view[k].page : IsNext(k, e) /\ LiveQuote(e)
        /\ pc[k] = "write" => blk[k].i = op[k].end /\ blk[k].last = op[k].end

DeleteInv(k) ==
    /\ Kind(k) = "deleteSelf" =>
           /\ pc[k] # "start" => \A s \in op[k].seqs : s <= maxSeq
           /\ pc[k] = "push" => todo[k] \subseteq op[k].seqs
    /\ Kind(k) = "deleteAll" => todo[k] \subseteq op[k].seqs

\* A purge only takes what has expired: the messages it removes, and the
\* documents it deletes at the end.
PurgeInv(k) ==
    Kind(k) = "purge" =>
        /\ pc[k] # "start" => op[k].upTo <= maxSeq
        /\ pc[k] = "clean" => op[k].clean
        /\ view[k].end \in 0 .. op[k].upTo
        /\ pc[k] = "expire" =>
               /\ view[k].seqs # {} /\ view[k].first \in Docs
               /\ \A s \in view[k].seqs : s <= op[k].upTo /\ DocOf(s) = view[k].first
        /\ \A s \in Seqs : DocOf(s) \in todo[k] => s <= op[k].upTo

DestructInv(k) ==
    Kind(k) = "destruct" =>
        /\ pc[k] # "start" => op[k].upTo <= maxSeq
        /\ todo[k] \subseteq 1 .. op[k].upTo
        /\ pc[k] = "moveMin" => todo[k] # {}

\* What a clear or a mark sets is a seq that was numbered.
MarkInv(k) ==
    /\ Kind(k) \in {"clearSelf", "clearAll"} /\ pc[k] \in {"hide", "setRead"} => num[k] <= maxSeq
    /\ Kind(k) \in MarkKinds =>
           /\ pc[k] \in {"mark", "getRead", "setRead"} => MarkTo(k) <= maxSeq
           /\ pc[k] = "mark" => todo[k] \subseteq Seqs

CallInvOf(k) == /\ PlaceInv(k) /\ ReadInv(k) /\ DeleteInv(k) /\ PurgeInv(k)
                /\ DestructInv(k) /\ MarkInv(k)
CallInv == \A k \in Call : CallInvOf(k)

\* The numbering, the Mongo topic and the consumer's loop stay within what was sent.
FeedInv ==
    /\ fresh.pc = "cached" => maxSeq + fresh.n <= MaxMsgs
    /\ fresh.pc # "idle" => fresh.n >= 1
    /\ fresh.pc \in {"numbered", "marked"} => fresh.n <= maxSeq
    /\ \A q \in 1 .. Len(queue) : queue[q].first <= queue[q].last /\ queue[q].last <= maxSeq
    /\ qpos <= Len(queue)
    /\ mc # "idle" => qpos < Len(queue)
    /\ mc = "insert" => /\ blk[Consumer].i \in Batch.first .. Batch.last
                        /\ blk[Consumer].last = Batch.last

\* A slot holds no message but its own.
SlotInv ==
    \A d \in Docs : \A i \in Index :
        slot[d][i].msg # 0 =>
            /\ slot[d][i].msg \in Seqs
            /\ DocOf(slot[d][i].msg) = d /\ IndexOf(slot[d][i].msg) = i

\* The first part: types, control and ranges.
BaseInv == StoreType /\ CallInv /\ FeedInv /\ SlotInv /\ LimitsInRange

\* A call that takes the message away from everyone has begun.
Covered(s) == \E j \in Call : Begun(j) /\ Covers(j, s)

\* No message is lost: one that nobody removes is in the cache until its batch is
\* in the documents, and stays there; its slot keeps its del_list.
KeepInv ==
    /\ \A s \in Seqs : SlotOf(s).hasDel \/ Covered(s)
    /\ \A s \in 1 .. maxSeq : s \in cache \/ Stored(s) \/ Covered(s)
    /\ fresh.pc = "cached" =>
           \A s \in maxSeq + 1 .. maxSeq + fresh.n : s \in cache \/ Covered(s)
    /\ mc = "insert" => \A s \in Batch.first .. blk[Consumer].i - 1 : Stored(s) \/ Covered(s)
    /\ mc = "cache" => \A s \in Batch.first .. Batch.last : Stored(s) \/ Covered(s)

\* The seqs a user's delete did not find in the cache.
Uncached(k) == op[k].seqs \ view[k].seqs
Pushed(k, s) == pc[k] = "done" \/ (pc[k] = "push" /\ s \notin todo[k])

\* What a call has written is still there.
RevokeKept(k) ==
    Kind(k) = "revoke" /\ pc[k] = "done" =>
        \A s \in Seqs : s = op[k].end =>
            \/ DocOf(s) \in docs /\ SlotOf(s).revoke
            \/ Covered(s)
MarkKept(k) ==
    Kind(k) \in {"markMsgs", "markConv"} =>
        \A s \in view[k].seqs :
            \/ DocOf(s) \in docs /\ (SlotOf(s).isRead \/ Sender[s] = op[k].user)
            \/ Covered(s)
DeleteKept(k) ==
    Kind(k) = "deleteSelf" /\ pc[k] # "start" =>
        \A s \in Uncached(k) :
            /\ s \notin cache
            /\ Pushed(k, s) => \/ DocOf(s) \in docs /\ op[k].user \in SlotOf(s).del
                               \/ Covered(s)
WrittenInv == \A k \in Call : RevokeKept(k) /\ MarkKept(k) /\ DeleteKept(k)

\* What a read has collected agrees with what was acknowledged when it began.
AgreesWith(j, k, e) ==
    /\ Kind(j) = "revoke" /\ pc[j] = "done" /\ e.seq = op[j].end =>
           e.how \in {"revoked", "cached"} \/ Covered(e.seq)
    /\ Kind(j) = "deleteSelf" /\ pc[j] = "done" /\ op[j].user = op[k].user /\ e.seq \in Uncached(j) =>
           Covered(e.seq)
ShownInv ==
    \A k \in Call :
        /\ \A j \in hist[k].before : Ended(j)
        /\ Kind(k) \in ReadKinds =>
               \A j \in hist[k].before : \A e \in view[k].page \cup view[k].got : AgreesWith(j, k, e)

StoreInv == BaseInv /\ KeepInv /\ WrittenInv /\ ShownInv

-----------------------------------------------------------------------------
(* Least and greatest elements, documents and indices.                     *)

NatLess == { p \in Nat \X Nat : p[1] < p[2] }

\* There is no infinite descent in the naturals.
LEMMA NatLessWellFounded == IsWellFoundedOn(NatLess, Nat)
<1>1. OpToRel(<, Nat) = NatLess
  BY DEF OpToRel, NatLess
<1>2. QED  BY <1>1, NatLessThanWellFounded

\* Every set of naturals that is not empty has a least element.
LEMMA LeastExists ==
  ASSUME NEW T, T \subseteq Nat, T # {}
  PROVE  \E x \in T : \A y \in T : x <= y
<1>1. PICK x \in T : \A y \in T : ~(<<y, x>> \in NatLess)
  BY WFMin, NatLessWellFounded
<1>2. ASSUME NEW y \in T PROVE x <= y
  <2>1. x \in Nat /\ y \in Nat  OBVIOUS
  <2>2. ~(<<y, x>> \in NatLess)  BY <1>1
  <2>3. (y < x) => <<y, x>> \in NatLess  BY <2>1 DEF NatLess
  <2>4. QED  BY <2>1, <2>2, <2>3
<1>3. QED  BY <1>2

\* A set of naturals with an upper bound that is not empty has a greatest element.
LEMMA GreatestExists ==
  ASSUME NEW n \in Nat, NEW T, T \subseteq 0 .. n, T # {}
  PROVE  \E x \in T : \A y \in T : y <= x
<1> DEFINE U == { n - x : x \in T }
<1>1. U \subseteq Nat /\ U # {}
  <2>1. ASSUME NEW x \in T PROVE n - x \in Nat
    <3>1. x \in 0 .. n  OBVIOUS
    <3>2. QED  BY <3>1
  <2>2. U \subseteq Nat
    BY <2>1
  <2>3. PICK x \in T : TRUE
    OBVIOUS
  <2>4. n - x \in U
    OBVIOUS
  <2>5. QED  BY <2>2, <2>4
<1>2. PICK u \in U : \A v \in U : u <= v
  BY <1>1, LeastExists
<1>3. PICK x \in T : u = n - x
  OBVIOUS
<1>4. ASSUME NEW y \in T PROVE y <= x
  <2>1. n - y \in U  OBVIOUS
  <2>2. n - x <= n - y  BY <1>2, <1>3, <2>1
  <2>3. x \in Nat /\ y \in Nat  OBVIOUS
  <2> HIDE DEF U
  <2>4. QED  BY <2>2, <2>3
<1>5. QED  BY <1>4

\* LastOf picks the greatest element.
LEMMA LastOfIsGreatest ==
  ASSUME NEW n \in Nat, NEW T, T \subseteq 0 .. n, T # {}
  PROVE  LastOf(T) \in T /\ \A y \in T : y <= LastOf(T)
BY GreatestExists DEF LastOf

\* A seq has one document and one index, and they tell it.
LEMMA Division ==
  ASSUME NEW a \in Nat, NEW b \in Nat \ {0}
  PROVE  /\ a \div b \in Nat
         /\ a % b \in 0 .. b - 1
         /\ a = b * (a \div b) + (a % b)
OBVIOUS

LEMMA SlotOfSeq ==
  ASSUME NEW s \in Seqs
  PROVE  /\ DocOf(s) \in Docs /\ DocOf(s) \in Nat
         /\ IndexOf(s) \in Index
         /\ s - 1 = DocSize * DocOf(s) + IndexOf(s)
<1>1. s - 1 \in Nat /\ DocSize \in Nat \ {0}
  BY ConstantsAssumption DEF Seqs
<1>2. QED  BY <1>1, Division DEF DocOf, IndexOf, Docs, Index

LEMMA OneSlotOneSeq ==
  ASSUME NEW s \in Seqs, NEW t \in Seqs, DocOf(s) = DocOf(t), IndexOf(s) = IndexOf(t)
  PROVE  s = t
<1>1. s - 1 = t - 1
  BY SlotOfSeq
<1>2. QED  BY <1>1, ConstantsAssumption DEF Seqs

\* The last slot of a document holds its greatest seq.
LEMMA LastSlotIsGreatest ==
  ASSUME NEW s \in Seqs, NEW t \in Seqs, DocOf(s) = DocOf(t), IndexOf(t) = DocSize - 1
  PROVE  s <= t
<1>1. PICK p : p = DocSize * DocOf(s)
  OBVIOUS
<1>2. s - 1 = p + IndexOf(s) /\ t - 1 = p + IndexOf(t)
  BY SlotOfSeq, <1>1
<1>3. IndexOf(s) \in 0 .. DocSize - 1
  BY SlotOfSeq DEF Index
<1>4. p \in Nat
  BY SlotOfSeq, ConstantsAssumption, <1>1
<1>5. QED  BY <1>2, <1>3, <1>4, ConstantsAssumption DEF Seqs

\* Documents are in the order of their seqs.
LEMMA DocsInOrder ==
  ASSUME NEW s \in Seqs, NEW t \in Seqs, s <= t
  PROVE  DocOf(s) <= DocOf(t)
<1>1. s - 1 \in Nat /\ t - 1 \in Nat /\ s - 1 <= t - 1 /\ DocSize \in Nat \ {0}
  BY ConstantsAssumption DEF Seqs
<1>2. PICK a \in Nat, b \in Nat, c \in Nat \ {0} : a = s - 1 /\ b = t - 1 /\ c = DocSize
  BY <1>1
<1>3. (a \div c) <= (b \div c)
  <2>1. SUFFICES ASSUME (a \div c) > (b \div c) PROVE FALSE
    OBVIOUS
  <2>2. PICK p \in Nat, q \in Nat : p = a \div c /\ q = b \div c
    BY Division
  <2>3. c * p >= c * q + c
    BY <2>1, <2>2
  <2>4. a >= c * p /\ b < c * q + c
    BY <2>2, Division
  <2>5. QED  BY <1>1, <1>2, <2>3, <2>4
<1>4. QED  BY <1>2, <1>3 DEF DocOf

\* The messages of a batch that belong to the document of its first one are the
\* first ones of the batch.
LEMMA DocTakesPrefix ==
  ASSUME NEW s \in Seqs, NEW l \in Seqs, s <= l
  PROVE  \E g \in s .. l : /\ InDoc(s .. l, DocOf(s)) = s .. g
                           /\ Cardinality(InDoc(s .. l, DocOf(s))) = g - s + 1
<1> DEFINE new == InDoc(s .. l, DocOf(s))
<1>0. MaxMsgs \in Nat /\ s .. l \subseteq Seqs
  BY ConstantsAssumption DEF Seqs
<1>1. new \subseteq 0 .. MaxMsgs
  BY <1>0 DEF InDoc, Seqs
<1>2. s \in new
  BY <1>0 DEF InDoc, Seqs
<1>3. PICK g \in new : \A y \in new : y <= g
  BY <1>0, <1>1, <1>2, GreatestExists
<1>4. g \in s .. l /\ g \in Seqs /\ DocOf(g) = DocOf(s)
  BY <1>0, <1>3 DEF InDoc
<1>5. ASSUME NEW t \in s .. g PROVE t \in new
  <2>1. t \in Seqs /\ t \in s .. l
    BY <1>0, <1>4 DEF Seqs
  <2>2. DocOf(s) <= DocOf(t) /\ DocOf(t) <= DocOf(g)
    BY <1>4, <2>1, DocsInOrder
  <2>3. DocOf(t) = DocOf(s)
    BY <1>4, <2>1, <2>2, SlotOfSeq
  <2>4. QED  BY <2>1, <2>3 DEF InDoc
<1>6. ASSUME NEW t \in new PROVE t \in s .. g
  <2>1. t \in s .. l /\ t <= g
    BY <1>3 DEF InDoc
  <2>2. QED  BY <1>0, <1>4, <2>1 DEF Seqs
<1>7. new = s .. g
  BY <1>5, <1>6
<1>8. Cardinality(s .. g) = g - s + 1
  <2>1. s \in Int /\ g \in Int /\ s <= g
    BY <1>0, <1>4 DEF Seqs
  <2>2. QED  BY <2>1, FS_Interval
<1>9. QED  BY <1>4, <1>7, <1>8

-----------------------------------------------------------------------------
(* Steps of one call.                                                      *)

\* Of the calls only k has moved.
OnlyCall(k) ==
    /\ blk'[Consumer] = blk[Consumer]
    /\ \A j \in Call : j # k => /\ pc'[j] = pc[j] /\ view'[j] = view[j] /\ todo'[j] = todo[j]
                                /\ num'[j] = num[j] /\ blk'[j] = blk[j]

\* Go moves one call to a new place.
LEMMA GoMoves ==
  ASSUME StoreType, NEW k \in Call, NEW l \in Place, Go(k, l)
  PROVE  /\ pc' \in [Call -> Place]
         /\ hist' \in [Call -> HistSet]
         /\ pc'[k] = l
         /\ \A j \in Call : j # k => pc'[j] = pc[j]
<1>1. pc' = [pc EXCEPT ![k] = l] /\ pc \in [Call -> Place] /\ hist \in [Call -> HistSet]
  BY DEF Go, StoreType
<1>2. hist' \in [Call -> HistSet]
  <2>1. PICK b, d : /\ b \subseteq Call /\ d \subseteq Call
                    /\ hist' = [hist EXCEPT ![k].before = b, ![k].during = d]
    <3>1. hist[k].before \subseteq Call /\ hist[k].during \subseteq Call
      BY <1>1 DEF HistSet
    <3>2. PICK b : b = IF pc[k] = "start" THEN { j \in Call : Ended(j) } ELSE hist[k].before
      OBVIOUS
    <3>3. PICK d : d = IF l \in Final THEN { j \in Call : pc[j] # "start" } ELSE hist[k].during
      OBVIOUS
    <3>4. hist' = [hist EXCEPT ![k].before = b, ![k].during = d]
      BY <1>1, <3>2, <3>3 DEF Go, HistSet
    <3>5. b \subseteq Call /\ d \subseteq Call
      BY <3>1, <3>2, <3>3
    <3>6. QED  BY <3>4, <3>5
  <2>2. PICK h : h = [hist[k] EXCEPT !.before = b, !.during = d]
    OBVIOUS
  <2>3. hist[k] \in [before : SUBSET Call, during : SUBSET Call]
    BY <1>1 DEF HistSet
  <2>4. h \in [before : SUBSET Call, during : SUBSET Call]
    BY <2>1, <2>2, <2>3
  <2>5. hist' = [hist EXCEPT ![k] = h]
    BY <1>1, <2>1, <2>2
  <2>6. QED  BY <1>1, <2>4, <2>5 DEF HistSet
<1>3. QED  BY <1>1, <1>2

\* The requests are well formed.
LEMMA Requests ==
  ASSUME StoreType, NEW k \in Call
  PROVE  /\ Kind(k) \in Kinds
         /\ Kind(k) # "purge" => op[k].user \in User
         /\ Kind(k) \in ReadKinds =>
                op[k].begin \in Seqs /\ op[k].end \in Seqs /\ op[k].num \in Nat /\ op[k].cap \in Nat
         /\ Kind(k) \in MarkKinds \cup {"deleteSelf", "deleteAll"} =>
                op[k].seqs \subseteq Seqs /\ op[k].seqs # {}
         /\ Kind(k) \in {"purge", "destruct"} => op[k].upTo \in 0 .. MaxMsgs
         /\ Kind(k) = "purge" => op[k].clean \in BOOLEAN
         /\ Kind(k) = "destruct" => op[k].since \in 0 .. MaxMsgs
<1>1. RequestOK(op[k])
  BY ConstantsAssumption DEF StoreType
<1>2. QED  BY <1>1 DEF RequestOK, Kind, ReadKinds, MarkKinds

\* A mark call marks up to a seq.
LEMMA MarkToSeq ==
  ASSUME StoreType, NEW k \in Call, Kind(k) \in MarkKinds
  PROVE  MarkTo(k) \in Seqs /\ MarkTo(k) \in op[k].seqs /\ \A s \in op[k].seqs : s <= MarkTo(k)
<1>1. op[k].seqs \subseteq Seqs /\ op[k].seqs # {}
  BY Requests
<1>2. op[k].seqs \subseteq 0 .. MaxMsgs /\ MaxMsgs \in Nat
  BY <1>1, ConstantsAssumption DEF Seqs
<1>3. LastOf(op[k].seqs) \in op[k].seqs /\ \A y \in op[k].seqs : y <= LastOf(op[k].seqs)
  BY <1>1, <1>2, LastOfIsGreatest
<1>4. MarkTo(k) = LastOf(op[k].seqs)
  BY DEF MarkTo, MarkKinds
<1>5. QED  BY <1>1, <1>3, <1>4

\* What the invariant says of a call depends on the call's own variables and on
\* what was numbered.
LEMMA OthersKeep ==
  ASSUME NEW j \in Call, CallInvOf(j), StoreType, maxSeq' \in Nat, maxSeq <= maxSeq',
         op' = op, pc'[j] = pc[j], view'[j] = view[j], todo'[j] = todo[j],
         num'[j] = num[j], blk'[j] = blk[j]
  PROVE  CallInvOf(j)'
<1>0. maxSeq \in Nat /\ op[j] = op[j]' /\ Kind(j)' = Kind(j) /\ RequestOK(op[j]) /\ num[j] \in Nat
  BY ConstantsAssumption DEF StoreType, Kind
<1>1. PlaceInv(j)'
  BY <1>0 DEF CallInvOf, PlaceInv, NoView
<1>2. ReadInv(j)'
  BY <1>0 DEF CallInvOf, ReadInv, IsNext, Before
<1>3. DeleteInv(j)'
  <2>1. ASSUME Kind(j) = "deleteSelf", pc[j] # "start", NEW s \in op[j].seqs PROVE s <= maxSeq'
    <3>1. s <= maxSeq
      BY <2>1 DEF CallInvOf, DeleteInv
    <3>2. s \in Int
      BY <2>1, Requests DEF Seqs
    <3>3. QED  BY <1>0, <3>1, <3>2
  <2>2. QED  BY <1>0, <2>1 DEF CallInvOf, DeleteInv
<1>4. PurgeInv(j)'
  <2>1. Kind(j) = "purge" => op[j].upTo \in Nat
    BY Requests
  <2>2. Kind(j) = "purge" /\ pc[j] # "start" => op[j].upTo <= maxSeq'
    BY <1>0, <2>1 DEF CallInvOf, PurgeInv
  <2>3. QED  BY <1>0, <2>2 DEF CallInvOf, PurgeInv
<1>5. DestructInv(j)'
  <2>1. Kind(j) = "destruct" => op[j].upTo \in Nat
    BY Requests
  <2>2. Kind(j) = "destruct" /\ pc[j] # "start" => op[j].upTo <= maxSeq'
    BY <1>0, <2>1 DEF CallInvOf, DestructInv
  <2>3. QED  BY <1>0, <2>2 DEF CallInvOf, DestructInv
<1>6. MarkInv(j)'
  <2>1. MarkTo(j)' = MarkTo(j)
    BY <1>0 DEF MarkTo
  <2>2. Kind(j) \in MarkKinds => MarkTo(j) \in Nat
    BY MarkToSeq DEF Seqs
  <2>3. QED  BY <1>0, <2>1, <2>2 DEF CallInvOf, MarkInv
<1>7. QED  BY <1>1, <1>2, <1>3, <1>4, <1>5, <1>6 DEF CallInvOf

\* A step of one call keeps the first part of the invariant when it keeps the types,
\* the limits and the slots, and what is said of that call.
LEMMA CallBase ==
  ASSUME BaseInv, NEW k \in Call, OnlyCall(k), StoreType', CallInvOf(k)', SlotInv', LimitsInRange',
         op' = op, maxSeq' = maxSeq, UNCHANGED feedVars
  PROVE  BaseInv'
<1>1. CallInv'
  <2>1. ASSUME NEW j \in Call, j # k PROVE CallInvOf(j)'
    <3>1. CallInvOf(j) /\ StoreType /\ maxSeq' \in Nat /\ maxSeq <= maxSeq'
      BY DEF BaseInv, CallInv, StoreType
    <3>2. QED  BY <2>1, <3>1, OthersKeep DEF OnlyCall
  <2>2. QED  BY <2>1 DEF CallInv
<1>2. FeedInv'
  BY DEF BaseInv, FeedInv, feedVars, Batch, OnlyCall
<1>3. QED  BY <1>1, <1>2 DEF BaseInv

\* The same for a step that leaves MongoDB and the limits alone.
LEMMA QuietBase ==
  ASSUME BaseInv, NEW k \in Call, OnlyCall(k), CallInvOf(k)', op' = op,
         UNCHANGED <<maxSeq, minSeq, userMin, hasRead, docs, slot, feedVars>>,
         cache' \subseteq Seqs, pc' \in [Call -> Place], hist' \in [Call -> HistSet],
         view' \in [Call -> ViewSet], todo' \in [Call -> SUBSET Nat], num' \in [Call -> Nat],
         blk' \in [Call \cup {Consumer} -> BlockSet]
  PROVE  BaseInv'
<1>1. StoreType'
  BY DEF BaseInv, StoreType, feedVars
<1>2. SlotInv' /\ LimitsInRange'
  BY DEF BaseInv, SlotInv, LimitsInRange
<1>3. QED  BY <1>1, <1>2, CallBase

\* Each place belongs to one kind of call.
LEMMA KindAt ==
  ASSUME BaseInv, NEW k \in Call
  PROVE  /\ Kind(k) \in Kinds
         /\ pc[k] \in {"min", "max", "cache", "docs", "rewrite"} => Kind(k) \in ReadKinds
         /\ pc[k] \in {"dels", "again", "spin"} => Kind(k) = "pull"
         /\ pc[k] = "write" => Kind(k) = "revoke"
         /\ pc[k] \in {"users", "seqs", "push"} => Kind(k) = "deleteSelf"
         /\ pc[k] = "remove" => Kind(k) = "deleteAll"
         /\ pc[k] \in {"scan", "expire", "clean", "setMin"} => Kind(k) = "purge"
         /\ pc[k] \in {"look", "getMin", "moveMin"} => Kind(k) = "destruct"
         /\ pc[k] = "hide" => Kind(k) \in {"clearSelf", "clearAll"}
         /\ pc[k] = "setRead" => Kind(k) \in {"clearSelf", "clearAll"} \cup MarkKinds
         /\ pc[k] = "mark" => Kind(k) \in {"markMsgs", "markConv"}
         /\ pc[k] = "getRead" => Kind(k) = "markMsgs"
<1>1. Kind(k) \in Kinds
  BY Requests DEF BaseInv
<1>2. pc[k] \in {"start"} \cup Final \cup PlaceOf(Kind(k))
  BY DEF BaseInv, CallInv, CallInvOf, PlaceInv
<1>3. CASE Kind(k) \in ReadKinds
  BY <1>1, <1>2, <1>3 DEF PlaceOf, Final, ReadKinds
<1>4. CASE Kind(k) \in {"deleteSelf", "deleteAll", "purge", "destruct"}
  BY <1>1, <1>2, <1>4 DEF PlaceOf, Final, ReadKinds
<1>5. CASE Kind(k) \in {"clearSelf", "clearAll"} \cup MarkKinds
  BY <1>1, <1>2, <1>5 DEF PlaceOf, Final, ReadKinds, MarkKinds
<1>6. QED  BY <1>1, <1>3, <1>4, <1>5 DEF Kinds, ReadKinds, MarkKinds

\* Facts every step of a call uses.
LEMMA CallFacts ==
  ASSUME BaseInv, NEW k \in Call
  PROVE  /\ StoreType /\ CallInvOf(k)
         /\ PlaceInv(k) /\ ReadInv(k) /\ DeleteInv(k) /\ PurgeInv(k) /\ DestructInv(k) /\ MarkInv(k)
         /\ view[k] \in ViewSet /\ todo[k] \subseteq Nat /\ num[k] \in Nat /\ blk[k] \in BlockSet
         /\ maxSeq \in 0 .. MaxMsgs /\ maxSeq \in Nat /\ minSeq \in Nat
         /\ MaxMsgs \in Nat /\ DocSize \in Nat \ {0}
BY ConstantsAssumption DEF BaseInv, CallInv, CallInvOf, StoreType

\* The limits of a read.
LEMMA GetUserMinSeqBase ==
  ASSUME BaseInv, NEW k \in Readers, GetUserMinSeq(k)
  PROVE  BaseInv'
<1>0. k \in Call /\ Kind(k) \in ReadKinds
  BY DEF Readers, ReadKinds
<1>1. StoreType /\ PlaceInv(k) /\ op[k].user \in User /\ op' = op /\ Kind(k)' = Kind(k)
  BY <1>0, CallFacts, Requests DEF GetUserMinSeq, ReadKinds, Kind
<1>2. Go(k, "min") /\ "min" \in Place
  BY DEF GetUserMinSeq, Place
<1>3. /\ pc' \in [Call -> Place] /\ hist' \in [Call -> HistSet] /\ pc'[k] = "min"
      /\ \A j \in Call : j # k => pc'[j] = pc[j]
  BY <1>0, <1>1, <1>2, GoMoves
<1>4. num' \in [Call -> Nat] /\ OnlyCall(k)
  BY <1>0, <1>1, <1>3 DEF StoreType, GetUserMinSeq, OnlyCall
<1>5. CallInvOf(k)'
  <2>1. PlaceInv(k)'
    BY <1>0, <1>1, <1>3 DEF PlaceInv, PlaceOf, ReadKinds
  <2>2. ReadInv(k)'
    BY <1>0, <1>1, <1>3 DEF ReadInv
  <2>3. QED  BY <1>0, <1>1, <2>1, <2>2
            DEF CallInvOf, DeleteInv, PurgeInv, DestructInv, MarkInv, ReadKinds, MarkKinds
<1>6. QED
  BY <1>0, <1>1, <1>3, <1>4, <1>5, QuietBase
     DEF GetUserMinSeq, StoreType, redisVars, mongoVars

LEMMA GetMinSeqBase ==
  ASSUME BaseInv, NEW k \in Call, GetMinSeq(k)
  PROVE  BaseInv'
<1>0. Kind(k) \in ReadKinds /\ pc[k] = "min" /\ op' = op /\ Kind(k)' = Kind(k)
  BY DEF Readers, ReadKinds, GetMinSeq, Kind
<1>1. StoreType /\ PlaceInv(k) /\ view[k] \in ViewSet /\ num[k] \in Nat /\ minSeq \in Nat
      /\ op[k].begin \in Seqs
  BY <1>0, CallFacts, Requests
<1>2. PICK b : b = Larger(op[k].begin, LowerSeq(k))
  OBVIOUS
<1>3. b \in Int /\ b >= 1
  BY <1>1, <1>2 DEF LowerSeq, Larger, Smaller, Seqs
<1>4. PICK v : v = [view[k] EXCEPT !.begin = b]
  OBVIOUS
<1>5. v \in ViewSet /\ v.begin = b
  BY <1>1, <1>3, <1>4 DEF ViewSet
<1>6. \/ Go(k, "done") /\ view' = view
      \/ Go(k, "max") /\ view' = [view EXCEPT ![k] = v]
  BY <1>1, <1>2, <1>4 DEF GetMinSeq, StoreType
<1>7. PICK l \in {"done", "max"} : Go(k, l) /\ (l = "max" => view' = [view EXCEPT ![k] = v])
                                  /\ (l = "done" => view' = view)
  BY <1>6
<1>8. /\ pc' \in [Call -> Place] /\ hist' \in [Call -> HistSet] /\ pc'[k] = l
      /\ \A j \in Call : j # k => pc'[j] = pc[j]
  <2>1. l \in Place
    BY <1>7 DEF Place
  <2>2. QED  BY <1>1, <1>7, <2>1, GoMoves
<1>9. view' \in [Call -> ViewSet] /\ OnlyCall(k) /\ (l = "max" => view'[k] = v)
  BY <1>1, <1>5, <1>7, <1>8 DEF StoreType, GetMinSeq, OnlyCall
<1>10. CallInvOf(k)'
  <2>1. PlaceInv(k)'
    BY <1>0, <1>7, <1>8 DEF PlaceInv, PlaceOf, ReadKinds, Final
  <2>2. ReadInv(k)'
    BY <1>0, <1>3, <1>5, <1>7, <1>8, <1>9 DEF ReadInv
  <2>3. QED  BY <1>0, <2>1, <2>2
            DEF CallInvOf, DeleteInv, PurgeInv, DestructInv, MarkInv, ReadKinds, MarkKinds
<1>11. QED
  BY <1>0, <1>1, <1>8, <1>9, <1>10, QuietBase DEF GetMinSeq, StoreType, redisVars, mongoVars

\* Of a read only its place and its ranges matter.
LEMMA ReadCall ==
  ASSUME NEW k \in Call, Kind(k) \in ReadKinds, Kind(k)' = Kind(k), PlaceInv(k)', ReadInv(k)'
  PROVE  CallInvOf(k)'
BY DEF CallInvOf, DeleteInv, PurgeInv, DestructInv, MarkInv, ReadKinds, MarkKinds

LEMMA GetMaxSeqBase ==
  ASSUME BaseInv, NEW k \in Call, GetMaxSeq(k)
  PROVE  BaseInv'
<1>0. Kind(k) \in ReadKinds /\ pc[k] = "max" /\ op' = op /\ Kind(k)' = Kind(k)
  BY DEF Readers, ReadKinds, GetMaxSeq, Kind
<1>1. StoreType /\ PlaceInv(k) /\ ReadInv(k) /\ view[k] \in ViewSet /\ maxSeq \in Nat
      /\ op[k].end \in Seqs /\ op[k].num \in Nat /\ op[k].cap \in Nat /\ MaxMsgs \in Nat
  BY <1>0, CallFacts, Requests
<1>2. PICK b, n, end, first : /\ b = view[k].begin /\ n = op[k].num
                              /\ end = Smaller(op[k].end, UpperSeq(k))
                              /\ first = IF Kind(k) = "pull" THEN Larger(b, end - n + 1) ELSE b
  OBVIOUS
<1>3. b \in Int /\ b >= 1 /\ n \in Nat
  BY <1>0, <1>1, <1>2 DEF ReadInv, ViewSet
<1>4. end \in Nat /\ end <= MaxMsgs
  BY <1>1, <1>2 DEF UpperSeq, Smaller, Seqs
<1>5. first \in Int /\ first >= 1 /\ (~(Kind(k) = "pull" /\ end < b) /\ Kind(k) = "pull" => first <= MaxMsgs + 1)
  BY <1>1, <1>2, <1>3, <1>4 DEF Larger
<1>6. PICK v : v = [view[k] EXCEPT !.end = end, !.first = first]
  OBVIOUS
<1>7. v \in ViewSet /\ v.begin = b /\ v.end = end /\ v.first = first
  <2>1. view[k] \in ViewSet /\ end \in Int /\ first \in Int /\ b = view[k].begin
    BY <1>1, <1>2, <1>4, <1>5
  <2>2. v \in ViewSet
    BY <1>6, <2>1 DEF ViewSet
  <2>3. v.begin = b /\ v.end = end /\ v.first = first
    BY <1>6, <2>1 DEF ViewSet
  <2>4. QED  BY <2>2, <2>3
<1>8. \/ Go(k, "failed") /\ view' = view
      \/ Go(k, "cache") /\ view' = [view EXCEPT ![k] = v] /\ ~(Kind(k) = "pull" /\ end < b)
  BY <1>1, <1>2, <1>6 DEF GetMaxSeq, StoreType
<1>9. PICK l \in {"failed", "cache"} :
         /\ Go(k, l)
         /\ l = "cache" => view' = [view EXCEPT ![k] = v] /\ ~(Kind(k) = "pull" /\ end < b)
         /\ l = "failed" => view' = view
  BY <1>8
<1>10. /\ pc' \in [Call -> Place] /\ hist' \in [Call -> HistSet] /\ pc'[k] = l
       /\ \A j \in Call : j # k => pc'[j] = pc[j]
  <2>1. l \in Place
    BY <1>9 DEF Place
  <2>2. StoreType /\ Go(k, l)
    BY <1>1, <1>9
  <2>3. QED  BY <2>1, <2>2, GoMoves
<1>11. view' \in [Call -> ViewSet] /\ OnlyCall(k) /\ (l = "cache" => view'[k] = v)
  <2>1. view \in [Call -> ViewSet] /\ v \in ViewSet
    BY <1>1, <1>7 DEF StoreType
  <2>2. view' = view \/ view' = [view EXCEPT ![k] = v]
    BY <1>9
  <2>3. view' \in [Call -> ViewSet] /\ \A j \in Call : j # k => view'[j] = view[j]
    BY <2>1, <2>2
  <2>4. l = "cache" => view'[k] = v
    BY <1>9, <2>1
  <2>5. OnlyCall(k)
    BY <1>10, <2>3 DEF GetMaxSeq, OnlyCall
  <2>6. QED  BY <2>3, <2>4, <2>5
<1>12. PlaceInv(k)'
  BY <1>0, <1>9, <1>10 DEF PlaceInv, PlaceOf, ReadKinds, Final
<1>13. ReadInv(k)'
  <2>1. CASE l = "failed"
    BY <1>10, <2>1 DEF ReadInv
  <2>2. CASE l = "cache"
    <3>1. view'[k].begin = b /\ view'[k].end = end /\ view'[k].first = first
      BY <1>7, <1>11, <2>2
    <3>2. Kind(k) = "pull" => first <= MaxMsgs + 1
      BY <1>5, <1>9, <2>2
    <3>3. QED  BY <1>0, <1>3, <1>4, <1>5, <1>10, <2>2, <3>1, <3>2 DEF ReadInv
  <2>3. QED  BY <1>9, <2>1, <2>2
<1>14. CallInvOf(k)'
  BY <1>0, <1>12, <1>13, ReadCall
<1>15. QED
  BY <1>0, <1>1, <1>10, <1>11, <1>14, QuietBase DEF GetMaxSeq, StoreType, redisVars, mongoVars

\* What was found in the cache are entries of seqs.
LEMMA CachedEntries ==
  ASSUME NEW S, S \subseteq Seqs
  PROVE  Cached(S) \in SUBSET EntrySet
BY DEF Cached, EntrySet

LEMMA ReadCacheBase ==
  ASSUME BaseInv, NEW k \in Call, ReadCache(k)
  PROVE  BaseInv'
<1>0. Kind(k) \in ReadKinds /\ pc[k] = "cache" /\ op' = op /\ Kind(k)' = Kind(k)
  BY KindAt DEF ReadCache, Kind
<1>1. StoreType /\ PlaceInv(k) /\ ReadInv(k) /\ view[k] \in ViewSet /\ MaxMsgs \in Nat
  BY <1>0, CallFacts
<1>2. Page(k) \subseteq Seqs
  BY <1>0, <1>1 DEF ReadInv, ViewSet, Page, Seqs
<1>3. PICK got, miss : got = Cached(Page(k) \cap cache) /\ miss = Page(k) \ cache
  OBVIOUS
<1>4. got \in SUBSET EntrySet /\ miss \in SUBSET Seqs
  BY <1>2, <1>3, CachedEntries
<1>5. PICK v : v = [view[k] EXCEPT !.got = got, !.miss = miss]
  OBVIOUS
<1>6. v \in ViewSet /\ v.begin = view[k].begin /\ v.end = view[k].end /\ v.first = view[k].first
  BY <1>1, <1>4, <1>5 DEF ViewSet
<1>7. view' = [view EXCEPT ![k] = v]
  BY <1>1, <1>3, <1>5 DEF ReadCache, StoreType
<1>8. PICK l \in {"dels", "docs"} : Go(k, l) /\ (l = "dels" => Kind(k) = "pull")
  BY DEF ReadCache
<1>9. /\ pc' \in [Call -> Place] /\ hist' \in [Call -> HistSet] /\ pc'[k] = l
      /\ \A j \in Call : j # k => pc'[j] = pc[j]
  <2>1. l \in Place
    BY <1>8 DEF Place
  <2>2. QED  BY <1>1, <1>8, <2>1, GoMoves
<1>10. view' \in [Call -> ViewSet] /\ OnlyCall(k) /\ view'[k] = v
  BY <1>1, <1>6, <1>7, <1>9 DEF StoreType, ReadCache, OnlyCall
<1>11. PlaceInv(k)'
  BY <1>0, <1>8, <1>9 DEF PlaceInv, PlaceOf, ReadKinds, Final
<1>12. ReadInv(k)'
  BY <1>0, <1>1, <1>6, <1>8, <1>9, <1>10 DEF ReadInv
<1>13. CallInvOf(k)'
  BY <1>0, <1>11, <1>12, ReadCall
<1>14. QED
  BY <1>0, <1>1, <1>9, <1>10, <1>13, QuietBase DEF ReadCache, StoreType, redisVars, mongoVars

\* The replacing seqs are below the page.
LEMMA ReplacingSeqs ==
  ASSUME BaseInv, NEW k \in Call, pc[k] = "dels", NEW gone
  PROVE  Replacing(k, gone) \subseteq Seqs
<1>1. Kind(k) = "pull" /\ ReadInv(k) /\ view[k] \in ViewSet /\ MaxMsgs \in Nat
  BY KindAt, CallFacts
<1>2. view[k].begin >= 1 /\ view[k].first <= MaxMsgs + 1 /\ view[k].begin \in Int /\ view[k].first \in Int
  BY <1>1 DEF ReadInv, ReadKinds, ViewSet
<1>3. QED  BY <1>1, <1>2 DEF Replacing, Seqs

LEMMA DropDeletedBase ==
  ASSUME BaseInv, NEW k \in Call, DropDeleted(k)
  PROVE  BaseInv'
<1>0. Kind(k) \in ReadKinds /\ Kind(k) = "pull" /\ pc[k] = "dels" /\ op' = op /\ Kind(k)' = Kind(k)
  BY KindAt DEF DropDeleted, Kind, ReadKinds
<1>1. StoreType /\ PlaceInv(k) /\ ReadInv(k) /\ view[k] \in ViewSet
  BY <1>0, CallFacts
<1>2. PICK gone, more : /\ gone = { e \in view[k].got : e.seq \in userDel[op[k].user] }
                        /\ more = Replacing(k, gone)
  OBVIOUS
<1>3. more \in SUBSET Seqs /\ more \in SUBSET Nat
  BY <1>0, <1>2, ReplacingSeqs DEF Seqs
<1>4. PICK v : v = [view[k] EXCEPT !.got = @ \ gone]
  OBVIOUS
<1>5. v \in ViewSet
  BY <1>1, <1>4 DEF ViewSet
<1>6. view' = [view EXCEPT ![k] = v] /\ todo' = [todo EXCEPT ![k] = more]
  BY <1>1, <1>2, <1>4 DEF DropDeleted, StoreType
<1>7. PICK l \in {"spin", "again", "docs"} : Go(k, l)
  BY DEF DropDeleted
<1>8. /\ pc' \in [Call -> Place] /\ hist' \in [Call -> HistSet] /\ pc'[k] = l
      /\ \A j \in Call : j # k => pc'[j] = pc[j]
  <2>1. l \in Place
    BY <1>7 DEF Place
  <2>2. QED  BY <1>1, <1>7, <2>1, GoMoves
<1>9. /\ view' \in [Call -> ViewSet] /\ todo' \in [Call -> SUBSET Nat] /\ OnlyCall(k)
      /\ todo'[k] = more
  <2>1. UNCHANGED <<blk, num>>
    BY DEF DropDeleted
  <2>2. QED  BY <1>1, <1>3, <1>5, <1>6, <1>8, <2>1 DEF StoreType, OnlyCall
<1>10. PlaceInv(k)'
  BY <1>0, <1>7, <1>8 DEF PlaceInv, PlaceOf, ReadKinds, Final
<1>11. ReadInv(k)'
  BY <1>0, <1>3, <1>7, <1>8, <1>9 DEF ReadInv
<1>12. CallInvOf(k)'
  BY <1>0, <1>10, <1>11, ReadCall
<1>13. QED
  BY <1>0, <1>1, <1>8, <1>9, <1>12, QuietBase DEF DropDeleted, StoreType, redisVars, mongoVars

LEMMA ReadAgainBase ==
  ASSUME BaseInv, NEW k \in Call, ReadAgain(k)
  PROVE  BaseInv'
<1>0. Kind(k) \in ReadKinds /\ pc[k] = "again" /\ op' = op /\ Kind(k)' = Kind(k)
  BY KindAt DEF ReadAgain, Kind, ReadKinds
<1>1. StoreType /\ PlaceInv(k) /\ ReadInv(k) /\ view[k] \in ViewSet
  BY <1>0, CallFacts
<1>2. todo[k] \subseteq Seqs
  BY <1>0, <1>1 DEF ReadInv
<1>3. PICK got, miss : got = Cached(todo[k] \cap cache) /\ miss = todo[k] \ cache
  OBVIOUS
<1>4. got \in SUBSET EntrySet /\ miss \in SUBSET Seqs
  BY <1>2, <1>3, CachedEntries
<1>5. PICK v : v = [view[k] EXCEPT !.got = @ \cup got, !.miss = @ \cup miss]
  OBVIOUS
<1>6. v \in ViewSet
  BY <1>1, <1>4, <1>5 DEF ViewSet
<1>7. view' = [view EXCEPT ![k] = v] /\ todo' = [todo EXCEPT ![k] = {}]
  BY <1>1, <1>3, <1>5 DEF ReadAgain, StoreType
<1>8. /\ pc' \in [Call -> Place] /\ hist' \in [Call -> HistSet] /\ pc'[k] = "docs"
      /\ \A j \in Call : j # k => pc'[j] = pc[j]
  BY <1>1, GoMoves DEF Place, ReadAgain
<1>9. view' \in [Call -> ViewSet] /\ todo' \in [Call -> SUBSET Nat] /\ OnlyCall(k)
  BY <1>1, <1>6, <1>7, <1>8 DEF StoreType, ReadAgain, OnlyCall
<1>10. PlaceInv(k)'
  BY <1>0, <1>8 DEF PlaceInv, PlaceOf, ReadKinds, Final
<1>11. ReadInv(k)'
  BY <1>0, <1>8 DEF ReadInv
<1>12. CallInvOf(k)'
  BY <1>0, <1>10, <1>11, ReadCall
<1>13. QED
  BY <1>0, <1>1, <1>8, <1>9, <1>12, QuietBase DEF ReadAgain, StoreType, redisVars, mongoVars

\* What a read takes out of a slot is the entry of a seq.
LEMMA ShownEntry ==
  ASSUME BaseInv, NEW s \in Seqs, SlotOf(s).msg # 0
  PROVE  /\ Shown(s) \in EntrySet
         /\ Shown(s).seq = s
         /\ SlotOf(s).revoke => Shown(s).how = "revoked"
<1>1. DocOf(s) \in Docs /\ IndexOf(s) \in Index
  BY SlotOfSeq
<1>2. PICK m : m = SlotOf(s).msg
  OBVIOUS
<1>3. m \in Seqs /\ DocOf(m) = DocOf(s) /\ IndexOf(m) = IndexOf(s)
  BY <1>1, <1>2 DEF BaseInv, SlotInv, SlotOf
<1>4. m = s
  BY <1>3, OneSlotOneSeq
<1>5. QED  BY <1>2, <1>4 DEF Shown, EntrySet

\* The next message of a page.
LEMMA TakeMsgView ==
  ASSUME BaseInv, NEW k \in Call, NEW e \in view[k].page, NEW as \in EntrySet, TakeMsg(k, e, as)
  PROVE  /\ view' \in [Call -> ViewSet]
         /\ \A j \in Call : j # k => view'[j] = view[j]
         /\ view'[k].page = view[k].page \ {e} /\ view'[k].got = view[k].got \cup {as}
         /\ view'[k].seqs = view[k].seqs
<1>1. view \in [Call -> ViewSet] /\ view[k] \in ViewSet
  BY DEF BaseInv, StoreType
<1>2. PICK v : v = [view[k] EXCEPT !.got = @ \cup {as}, !.page = @ \ {e}]
  OBVIOUS
<1>3. v \in ViewSet /\ v.page = view[k].page \ {e} /\ v.got = view[k].got \cup {as} /\ v.seqs = view[k].seqs
  BY <1>1, <1>2 DEF ViewSet
<1>4. view' = [view EXCEPT ![k] = v]
  BY <1>1, <1>2 DEF TakeMsg
<1>5. QED  BY <1>1, <1>3, <1>4

LEMMA ReadDocBase ==
  ASSUME BaseInv, NEW k \in Call, NEW d \in Docs, ReadDoc(k, d)
  PROVE  BaseInv'
<1>0. Kind(k) \in ReadKinds /\ pc[k] = "docs" /\ op' = op /\ Kind(k)' = Kind(k)
  BY KindAt DEF ReadDoc, Kind
<1>1. StoreType /\ PlaceInv(k) /\ view[k] \in ViewSet
  BY <1>0, CallFacts
<1>2. PICK mine, page :
        /\ mine = InDoc(view[k].miss, d)
        /\ page \subseteq { s \in mine : ~ReadSkips(op[k].user, s) }
        /\ \/ Go(k, "failed") /\ UNCHANGED view
           \/ /\ view' = [view EXCEPT ![k].page = { Shown(s) : s \in page }, ![k].miss = @ \ mine]
              /\ UNCHANGED <<pc, hist>>
  BY DEF ReadDoc
<1>3. mine \subseteq Seqs
  BY <1>1, <1>2 DEF InDoc, ViewSet
<1>4. { Shown(s) : s \in page } \subseteq EntrySet
  BY <1>2, <1>3, ShownEntry DEF ReadSkips
<1>5. PICK sh : sh = { Shown(s) : s \in page }
  OBVIOUS
<1>6. PICK v : v = [view[k] EXCEPT !.page = sh, !.miss = @ \ mine]
  OBVIOUS
<1>7. v \in ViewSet
  BY <1>1, <1>4, <1>5, <1>6 DEF ViewSet
<1>8. \/ Go(k, "failed") /\ UNCHANGED view
      \/ view' = [view EXCEPT ![k] = v] /\ UNCHANGED <<pc, hist>>
  BY <1>1, <1>2, <1>5, <1>6 DEF StoreType
<1>9. view' \in [Call -> ViewSet] /\ \A j \in Call : j # k => view'[j] = view[j]
  BY <1>1, <1>7, <1>8 DEF StoreType
<1>10. /\ pc' \in [Call -> Place] /\ hist' \in [Call -> HistSet] /\ pc'[k] \in {"docs", "failed"}
       /\ \A j \in Call : j # k => pc'[j] = pc[j]
  <2>1. CASE Go(k, "failed")
    BY <1>1, <2>1, GoMoves DEF Place
  <2>2. CASE UNCHANGED <<pc, hist>>
    BY <1>0, <1>1, <2>2 DEF StoreType
  <2>3. QED  BY <1>8, <2>1, <2>2
<1>11. OnlyCall(k)
  BY <1>9, <1>10 DEF ReadDoc, OnlyCall
<1>12. PlaceInv(k)'
  BY <1>0, <1>10 DEF PlaceInv, PlaceOf, ReadKinds, Final
<1>13. ReadInv(k)'
  BY <1>10 DEF ReadInv
<1>14. CallInvOf(k)'
  BY <1>0, <1>12, <1>13, ReadCall
<1>15. QED
  BY <1>0, <1>1, <1>9, <1>10, <1>11, <1>14, QuietBase DEF ReadDoc, StoreType, redisVars, mongoVars

LEMMA HandleMsgBase ==
  ASSUME BaseInv, NEW k \in Call, NEW e \in view[k].page, HandleMsg(k, e)
  PROVE  BaseInv'
<1>0. Kind(k) \in ReadKinds /\ pc[k] = "docs" /\ op' = op /\ Kind(k)' = Kind(k)
  BY KindAt DEF HandleMsg, Kind
<1>1. StoreType /\ view[k] \in ViewSet /\ e \in EntrySet
  BY <1>0, CallFacts DEF ViewSet
<1>2. view' \in [Call -> ViewSet] /\ \A j \in Call : j # k => view'[j] = view[j]
  BY <1>1, TakeMsgView DEF HandleMsg
<1>3. pc' = pc /\ OnlyCall(k)
  BY <1>2 DEF HandleMsg, OnlyCall
<1>4. PlaceInv(k)'
  BY <1>0, <1>3 DEF PlaceInv, PlaceOf, ReadKinds, Final
<1>5. ReadInv(k)'
  BY <1>0, <1>3 DEF ReadInv
<1>6. CallInvOf(k)'
  BY <1>0, <1>4, <1>5, ReadCall
<1>7. QED
  BY <1>0, <1>1, <1>2, <1>3, <1>6, QuietBase DEF HandleMsg, StoreType, redisVars, mongoVars

LEMMA ReadQuotedBase ==
  ASSUME BaseInv, NEW k \in Call, NEW e \in view[k].page, ReadQuoted(k, e)
  PROVE  BaseInv'
<1>0. Kind(k) \in ReadKinds /\ pc[k] = "docs" /\ op' = op /\ Kind(k)' = Kind(k)
  BY KindAt DEF ReadQuoted, Kind
<1>1. StoreType /\ view[k] \in ViewSet /\ e \in EntrySet /\ view \in [Call -> ViewSet]
  BY <1>0, CallFacts DEF ViewSet, StoreType
<1>2. \/ TakeMsg(k, e, e) /\ UNCHANGED <<pc, hist>>
      \/ Go(k, "rewrite") /\ UNCHANGED view
  BY DEF ReadQuoted
<1>3. view' \in [Call -> ViewSet] /\ \A j \in Call : j # k => view'[j] = view[j]
  BY <1>1, <1>2, TakeMsgView
<1>4. /\ pc' \in [Call -> Place] /\ hist' \in [Call -> HistSet]
      /\ pc'[k] = "docs" \/ (pc'[k] = "rewrite" /\ view' = view)
      /\ \A j \in Call : j # k => pc'[j] = pc[j]
  <2>1. CASE Go(k, "rewrite") /\ UNCHANGED view
    BY <1>1, <2>1, GoMoves DEF Place
  <2>2. CASE UNCHANGED <<pc, hist>>
    BY <1>0, <1>1, <2>2 DEF StoreType
  <2>3. QED  BY <1>2, <2>1, <2>2
<1>5. OnlyCall(k)
  BY <1>3, <1>4 DEF ReadQuoted, OnlyCall
<1>6. PlaceInv(k)'
  BY <1>0, <1>4 DEF PlaceInv, PlaceOf, ReadKinds, Final
<1>7. ReadInv(k)'
  <2>1. pc'[k] = "rewrite" => \E f \in view'[k].page : IsNext(k, f)' /\ LiveQuote(f)
    BY <1>4 DEF ReadQuoted, IsNext, Before
  <2>2. LiveQuote(e)' = LiveQuote(e)
    BY DEF LiveQuote
  <2>3. QED  BY <1>4, <2>1 DEF ReadInv, LiveQuote
<1>8. CallInvOf(k)'
  BY <1>0, <1>6, <1>7, ReadCall
<1>9. QED
  BY <1>0, <1>1, <1>3, <1>4, <1>5, <1>8, QuietBase DEF ReadQuoted, StoreType, redisVars, mongoVars

LEMMA ReadEndsBase ==
  ASSUME BaseInv, NEW k \in Readers, ReadEnds(k)
  PROVE  BaseInv'
<1>0. k \in Call /\ Kind(k) \in ReadKinds /\ op' = op /\ Kind(k)' = Kind(k)
  BY DEF Readers, ReadKinds, ReadEnds, Kind
<1>1. StoreType /\ op[k].end \in Seqs /\ op[k].end \in Nat /\ k # Consumer
      /\ blk \in [Call \cup {Consumer} -> BlockSet]
  <2>1. StoreType /\ k # Consumer
    BY <1>0, CallFacts, ConstantsAssumption
  <2>2. op[k].end \in Seqs
    BY <1>0, <2>1, Requests
  <2>3. QED  BY <2>1, <2>2 DEF Seqs, StoreType
<1>2. PICK b : b = [i |-> op[k].end, last |-> op[k].end, try |-> TRUE]
  OBVIOUS
<1>3. b \in BlockSet /\ b.i = op[k].end /\ b.last = op[k].end
  BY <1>1, <1>2 DEF BlockSet
<1>4. PICK l \in {"write", "failed", "done"} :
         /\ Go(k, l)
         /\ l = "write" => Kind(k) = "revoke" /\ blk' = [blk EXCEPT ![k] = b]
         /\ l # "write" => blk' = blk
  BY <1>2 DEF ReadEnds
<1>5. /\ pc' \in [Call -> Place] /\ hist' \in [Call -> HistSet] /\ pc'[k] = l
      /\ \A j \in Call : j # k => pc'[j] = pc[j]
  <2>1. l \in Place
    BY <1>4 DEF Place
  <2>2. QED  BY <1>0, <1>1, <1>4, <2>1, GoMoves
<1>6. /\ blk' \in [Call \cup {Consumer} -> BlockSet] /\ (l = "write" => blk'[k] = b)
      /\ \A j \in Call \cup {Consumer} : j # k => blk'[j] = blk[j]
  BY <1>0, <1>1, <1>3, <1>4
<1>7. OnlyCall(k)
  BY <1>1, <1>5, <1>6 DEF ReadEnds, OnlyCall
<1>8. PlaceInv(k)'
  BY <1>0, <1>4, <1>5 DEF PlaceInv, PlaceOf, ReadKinds, Final
<1>9. ReadInv(k)'
  BY <1>0, <1>3, <1>4, <1>5, <1>6 DEF ReadInv
<1>10. CallInvOf(k)'
  BY <1>0, <1>8, <1>9, ReadCall
<1>11. QED
  BY <1>0, <1>1, <1>5, <1>6, <1>7, <1>10, QuietBase DEF ReadEnds, StoreType, redisVars, mongoVars

\* Of the other calls, too, only the part for their kind matters.
LEMMA DeleteCall ==
  ASSUME NEW k \in Call, Kind(k) \in {"deleteSelf", "deleteAll"}, Kind(k)' = Kind(k),
         PlaceInv(k)', DeleteInv(k)'
  PROVE  CallInvOf(k)'
BY DEF CallInvOf, ReadInv, PurgeInv, DestructInv, MarkInv, ReadKinds, MarkKinds
LEMMA PurgeCall ==
  ASSUME NEW k \in Call, Kind(k) = "purge", Kind(k)' = Kind(k), PlaceInv(k)', PurgeInv(k)'
  PROVE  CallInvOf(k)'
BY DEF CallInvOf, ReadInv, DeleteInv, DestructInv, MarkInv, ReadKinds, MarkKinds
LEMMA DestructCall ==
  ASSUME NEW k \in Call, Kind(k) = "destruct", Kind(k)' = Kind(k), PlaceInv(k)', DestructInv(k)'
  PROVE  CallInvOf(k)'
BY DEF CallInvOf, ReadInv, DeleteInv, PurgeInv, MarkInv, ReadKinds, MarkKinds
LEMMA MarkCall ==
  ASSUME NEW k \in Call, Kind(k) \in {"clearSelf", "clearAll"} \cup MarkKinds, Kind(k)' = Kind(k),
         PlaceInv(k)', MarkInv(k)'
  PROVE  CallInvOf(k)'
BY DEF CallInvOf, ReadInv, DeleteInv, PurgeInv, DestructInv, ReadKinds, MarkKinds

\* DeleteMsgs.
LEMMA FindCachedBase ==
  ASSUME BaseInv, NEW k \in Call, FindCached(k)
  PROVE  BaseInv'
<1>0. Kind(k) = "deleteSelf" /\ op' = op /\ Kind(k)' = Kind(k) /\ Go(k, "users")
  BY DEF FindCached, Kind
<1>1. StoreType /\ view[k] \in ViewSet /\ op[k].seqs \subseteq Seqs /\ cache \subseteq Seqs
  BY <1>0, CallFacts, Requests DEF StoreType
<1>2. PICK S : S = op[k].seqs \cap cache
  OBVIOUS
<1>3. S \in SUBSET Seqs /\ S \in SUBSET Nat
  BY <1>1, <1>2 DEF Seqs
<1>4. PICK v : v = [view[k] EXCEPT !.seqs = S]
  OBVIOUS
<1>5. v \in ViewSet
  BY <1>1, <1>3, <1>4 DEF ViewSet
<1>6. view' = [view EXCEPT ![k] = v] /\ todo' = [todo EXCEPT ![k] = S]
  BY <1>1, <1>2, <1>4 DEF FindCached, StoreType
<1>7. /\ pc' \in [Call -> Place] /\ hist' \in [Call -> HistSet] /\ pc'[k] = "users"
      /\ \A j \in Call : j # k => pc'[j] = pc[j]
  BY <1>0, <1>1, GoMoves DEF Place
<1>8. view' \in [Call -> ViewSet] /\ todo' \in [Call -> SUBSET Nat] /\ OnlyCall(k)
  <2>1. UNCHANGED <<blk, num>>
    BY DEF FindCached
  <2>2. QED  BY <1>1, <1>3, <1>5, <1>6, <1>7, <2>1 DEF StoreType, OnlyCall
<1>9. PlaceInv(k)' /\ DeleteInv(k)'
  BY <1>0, <1>7 DEF PlaceInv, PlaceOf, DeleteInv, FindCached, redisVars
<1>10. CallInvOf(k)'
  BY <1>0, <1>9, DeleteCall
<1>11. QED
  BY <1>0, <1>1, <1>7, <1>8, <1>10, QuietBase DEF FindCached, StoreType, redisVars, mongoVars

LEMMA AddUserBase ==
  ASSUME BaseInv, NEW k \in Call, AddUser(k)
  PROVE  BaseInv'
<1>0. Kind(k) = "deleteSelf" /\ pc[k] = "users" /\ op' = op /\ Kind(k)' = Kind(k) /\ Go(k, "seqs")
  BY KindAt DEF AddUser, Kind
<1>1. StoreType /\ DeleteInv(k)
  BY CallFacts
<1>2. /\ pc' \in [Call -> Place] /\ hist' \in [Call -> HistSet] /\ pc'[k] = "seqs"
      /\ \A j \in Call : j # k => pc'[j] = pc[j]
  BY <1>0, <1>1, GoMoves DEF Place
<1>3. OnlyCall(k)
  BY <1>2 DEF AddUser, OnlyCall
<1>4. PlaceInv(k)' /\ DeleteInv(k)'
  BY <1>0, <1>1, <1>2 DEF PlaceInv, PlaceOf, DeleteInv, AddUser
<1>5. CallInvOf(k)'
  BY <1>0, <1>4, DeleteCall
<1>6. QED
  BY <1>0, <1>1, <1>2, <1>3, <1>5, QuietBase DEF AddUser, StoreType, mongoVars

LEMMA AddSeqBase ==
  ASSUME BaseInv, NEW k \in Call, AddSeq(k)
  PROVE  BaseInv'
<1>0. Kind(k) = "deleteSelf" /\ pc[k] = "seqs" /\ op' = op /\ Kind(k)' = Kind(k) /\ Go(k, "users")
  BY KindAt DEF AddSeq, Kind
<1>1. StoreType /\ DeleteInv(k) /\ todo[k] \subseteq Nat
  BY CallFacts
<1>2. /\ pc' \in [Call -> Place] /\ hist' \in [Call -> HistSet] /\ pc'[k] = "users"
      /\ \A j \in Call : j # k => pc'[j] = pc[j]
  BY <1>0, <1>1, GoMoves DEF Place
<1>3. todo' \in [Call -> SUBSET Nat] /\ OnlyCall(k)
  BY <1>1, <1>2 DEF AddSeq, OnlyCall, StoreType
<1>4. PlaceInv(k)' /\ DeleteInv(k)'
  BY <1>0, <1>1, <1>2 DEF PlaceInv, PlaceOf, DeleteInv, AddSeq
<1>5. CallInvOf(k)'
  BY <1>0, <1>4, DeleteCall
<1>6. QED
  BY <1>0, <1>1, <1>2, <1>3, <1>5, QuietBase DEF AddSeq, StoreType, mongoVars

LEMMA ListsWrittenBase ==
  ASSUME BaseInv, NEW k \in Call, ListsWritten(k)
  PROVE  BaseInv'
<1>0. Kind(k) = "deleteSelf" /\ pc[k] = "users" /\ op' = op /\ Kind(k)' = Kind(k) /\ Go(k, "push")
  BY KindAt DEF ListsWritten, Kind
<1>1. StoreType /\ DeleteInv(k)
  BY CallFacts
<1>2. op[k].seqs \in SUBSET Nat
  BY <1>0, <1>1, Requests DEF Seqs
<1>3. /\ pc' \in [Call -> Place] /\ hist' \in [Call -> HistSet] /\ pc'[k] = "push"
      /\ \A j \in Call : j # k => pc'[j] = pc[j]
  BY <1>0, <1>1, GoMoves DEF Place
<1>4. todo' \in [Call -> SUBSET Nat] /\ OnlyCall(k) /\ todo'[k] = op[k].seqs
  BY <1>1, <1>2, <1>3 DEF ListsWritten, OnlyCall, StoreType
<1>5. PlaceInv(k)' /\ DeleteInv(k)'
  BY <1>0, <1>1, <1>3, <1>4 DEF PlaceInv, PlaceOf, DeleteInv, ListsWritten, redisVars
<1>6. CallInvOf(k)'
  BY <1>0, <1>5, DeleteCall
<1>7. QED
  BY <1>0, <1>1, <1>3, <1>4, <1>6, QuietBase DEF ListsWritten, StoreType, redisVars, mongoVars

LEMMA DropDeletedFromCacheBase ==
  ASSUME BaseInv, NEW k \in Call, DropDeletedFromCache(k)
  PROVE  BaseInv'
<1>0. Kind(k) = "deleteAll" /\ op' = op /\ Kind(k)' = Kind(k) /\ Go(k, "remove")
  BY DEF DropDeletedFromCache, Kind
<1>1. StoreType
  BY CallFacts
<1>2. op[k].seqs \in SUBSET Nat
  BY <1>0, <1>1, Requests DEF Seqs
<1>3. /\ pc' \in [Call -> Place] /\ hist' \in [Call -> HistSet] /\ pc'[k] = "remove"
      /\ \A j \in Call : j # k => pc'[j] = pc[j]
  BY <1>0, <1>1, GoMoves DEF Place
<1>4. todo' \in [Call -> SUBSET Nat] /\ OnlyCall(k) /\ todo'[k] = op[k].seqs
  BY <1>1, <1>2, <1>3 DEF DropDeletedFromCache, OnlyCall, StoreType
<1>5. PlaceInv(k)' /\ DeleteInv(k)'
  BY <1>0, <1>3, <1>4 DEF PlaceInv, PlaceOf, DeleteInv
<1>6. CallInvOf(k)'
  BY <1>0, <1>5, DeleteCall
<1>7. cache' \subseteq Seqs
  BY <1>1 DEF StoreType, DropDeletedFromCache
<1>8. QED
  BY <1>0, <1>1, <1>3, <1>4, <1>6, <1>7, QuietBase DEF DropDeletedFromCache, StoreType, mongoVars

\* The cron jobs.
LEMMA PurgeStartsBase ==
  ASSUME BaseInv, NEW k \in Call, PurgeStarts(k)
  PROVE  BaseInv'
<1>0. Kind(k) = "purge" /\ op' = op /\ Kind(k)' = Kind(k) /\ Go(k, "scan")
  BY DEF PurgeStarts, Kind
<1>1. StoreType /\ PurgeInv(k)
  BY CallFacts
<1>2. /\ pc' \in [Call -> Place] /\ hist' \in [Call -> HistSet] /\ pc'[k] = "scan"
      /\ \A j \in Call : j # k => pc'[j] = pc[j]
  BY <1>0, <1>1, GoMoves DEF Place
<1>3. OnlyCall(k)
  BY <1>2 DEF PurgeStarts, OnlyCall
<1>4. PlaceInv(k)' /\ PurgeInv(k)'
  BY <1>0, <1>1, <1>2 DEF PlaceInv, PlaceOf, PurgeInv, PurgeStarts, redisVars
<1>5. CallInvOf(k)'
  BY <1>0, <1>4, PurgeCall
<1>6. QED
  BY <1>0, <1>1, <1>2, <1>3, <1>5, QuietBase DEF PurgeStarts, StoreType, redisVars, mongoVars

\* The messages of a document are seqs of that document.
LEMMA MsgsInDoc ==
  ASSUME BaseInv, NEW d \in Docs, NEW m \in MsgsIn(d)
  PROVE  m \in Seqs /\ DocOf(m) = d
BY DEF MsgsIn, BaseInv, SlotInv

LEMMA PurgeDocBase ==
  ASSUME BaseInv, NEW k \in Call, NEW d \in docs, PurgeDoc(k, d)
  PROVE  BaseInv'
<1>0. Kind(k) = "purge" /\ pc[k] = "scan" /\ op' = op /\ Kind(k)' = Kind(k) /\ maxSeq' = maxSeq
  BY KindAt DEF PurgeDoc, Kind, redisVars
<1>1. /\ StoreType /\ PurgeInv(k) /\ d \in Docs /\ view[k] \in ViewSet /\ todo[k] \subseteq Nat
      /\ num[k] \in Nat /\ DocSize \in Nat \ {0} /\ MaxMsgs \in Nat
  BY CallFacts DEF StoreType
<1>2. op[k].upTo \in Nat
  BY <1>0, <1>1, Requests
<1>3. num' \in [Call -> Nat] /\ \A j \in Call : j # k => num'[j] = num[j]
  BY <1>1 DEF PurgeDoc, StoreType
<1>4. PICK l \in {"scan", "expire"} : Go(k, l)
  BY DEF PurgeDoc
<1>5. /\ pc' \in [Call -> Place] /\ hist' \in [Call -> HistSet] /\ pc'[k] = l
      /\ \A j \in Call : j # k => pc'[j] = pc[j]
  <2>1. l \in Place
    BY <1>4 DEF Place
  <2>2. QED  BY <1>1, <1>4, <2>1, GoMoves
<1>6. PICK m, old : m = slot[d][DocSize - 1].msg /\ old = { x \in MsgsIn(d) : Expired(k, x) }
  OBVIOUS
<1>7. ASSUME view' \in [Call -> ViewSet], \A j \in Call : j # k => view'[j] = view[j],
             todo' \in [Call -> SUBSET Nat], \A j \in Call : j # k => todo'[j] = todo[j],
             PurgeInv(k)'
      PROVE  BaseInv'
  <2>1. OnlyCall(k)
    BY <1>3, <1>5, <1>7 DEF PurgeDoc, OnlyCall
  <2>2. PlaceInv(k)'
    BY <1>0, <1>4, <1>5 DEF PlaceInv, PlaceOf
  <2>3. CallInvOf(k)'
    BY <1>0, <1>7, <2>2, PurgeCall
  <2>4. QED
    BY <1>0, <1>1, <1>3, <1>5, <1>7, <2>1, <2>3, QuietBase DEF PurgeDoc, StoreType, redisVars, mongoVars
<1>8. CASE /\ IsFull(d) /\ Expired(k, m) /\ todo' = [todo EXCEPT ![k] = @ \cup {d}]
           /\ view' = [view EXCEPT ![k].end = m] /\ Go(k, "scan")
  <2>1. DocSize - 1 \in Index /\ m # 0 /\ m <= op[k].upTo
    BY <1>1, <1>6, <1>8 DEF Index, Expired
  <2>2. m \in Seqs /\ DocOf(m) = d /\ IndexOf(m) = DocSize - 1
    BY <1>1, <1>6, <2>1 DEF BaseInv, SlotInv
  <2>3. d \in Nat
    BY <2>2, SlotOfSeq
  <2>4. PICK v : v = [view[k] EXCEPT !.end = m]
    OBVIOUS
  <2>5. v \in ViewSet /\ v.end = m /\ v.first = view[k].first /\ v.seqs = view[k].seqs
    BY <1>1, <2>2, <2>4 DEF ViewSet, Seqs
  <2>6. view' = [view EXCEPT ![k] = v]
    BY <1>1, <1>8, <2>4 DEF StoreType
  <2>7. view' \in [Call -> ViewSet] /\ view'[k] = v /\ \A j \in Call : j # k => view'[j] = view[j]
    BY <1>1, <2>5, <2>6 DEF StoreType
  <2>8. /\ todo' \in [Call -> SUBSET Nat] /\ todo'[k] = todo[k] \cup {d}
        /\ \A j \in Call : j # k => todo'[j] = todo[j]
    BY <1>1, <1>8, <2>3 DEF StoreType
  <2>9. pc'[k] = "scan"
    BY <1>1, <1>8, GoMoves DEF Place
  <2>10. m \in 0 .. op[k].upTo
    BY <1>2, <2>1, <2>2 DEF Seqs
  <2>11. ASSUME NEW s \in Seqs, DocOf(s) \in todo'[k] PROVE s <= op[k].upTo
    <3>1. CASE DocOf(s) \in todo[k]
      BY <1>0, <1>1, <3>1 DEF PurgeInv
    <3>2. CASE DocOf(s) = d
      <4>1. s <= m
        BY <2>2, <3>2, LastSlotIsGreatest
      <4>2. s \in Nat /\ m \in Nat
        BY <2>2 DEF Seqs
      <4>3. QED  BY <1>2, <2>1, <4>1, <4>2
    <3>3. QED  BY <2>8, <2>11, <3>1, <3>2
  <2>12. PurgeInv(k)'
    BY <1>0, <1>1, <2>5, <2>7, <2>9, <2>10, <2>11 DEF PurgeInv
  <2>13. QED  BY <1>7, <2>7, <2>8, <2>12
<1>9. CASE /\ old # {} /\ view' = [view EXCEPT ![k].first = d, ![k].seqs = old]
           /\ Go(k, "expire") /\ UNCHANGED todo
  <2>1. ASSUME NEW x \in old PROVE x \in Seqs /\ DocOf(x) = d /\ x <= op[k].upTo
    BY <1>1, <1>6, MsgsInDoc DEF Expired
  <2>2. d \in Nat
    <3>1. PICK x \in old : TRUE
      BY <1>9
    <3>2. QED  BY <2>1, <3>1, SlotOfSeq
  <2>3. old \in SUBSET Seqs
    BY <2>1
  <2>4. PICK v : v = [view[k] EXCEPT !.first = d, !.seqs = old]
    OBVIOUS
  <2>5. v \in ViewSet /\ v.end = view[k].end /\ v.first = d /\ v.seqs = old
    <3>1. view[k] \in ViewSet /\ d \in Int
      BY <1>1, <2>2
    <3>2. v \in ViewSet
      BY <2>3, <2>4, <3>1 DEF ViewSet
    <3>3. v.end = view[k].end /\ v.first = d /\ v.seqs = old
      BY <2>4, <3>1 DEF ViewSet
    <3>4. QED  BY <3>2, <3>3
  <2>6. view' = [view EXCEPT ![k] = v]
    BY <1>1, <1>9, <2>4 DEF StoreType
  <2>7. view' \in [Call -> ViewSet] /\ view'[k] = v /\ \A j \in Call : j # k => view'[j] = view[j]
    BY <1>1, <2>5, <2>6 DEF StoreType
  <2>8. pc'[k] = "expire"
    BY <1>1, <1>9, GoMoves DEF Place
  <2>9. PurgeInv(k)'
    BY <1>0, <1>1, <1>9, <2>1, <2>5, <2>7, <2>8 DEF PurgeInv
  <2>10. QED  BY <1>1, <1>7, <1>9, <2>7, <2>9 DEF StoreType
<1>10. CASE Go(k, "scan") /\ UNCHANGED <<view, todo>>
  <2>1. pc'[k] = "scan"
    BY <1>1, <1>10, GoMoves DEF Place
  <2>2. PurgeInv(k)'
    BY <1>0, <1>1, <1>10, <2>1 DEF PurgeInv
  <2>3. QED  BY <1>1, <1>7, <1>10, <2>2 DEF StoreType
<1>11. QED  BY <1>6, <1>8, <1>9, <1>10 DEF PurgeDoc

LEMMA PurgeCacheBase ==
  ASSUME BaseInv, NEW k \in Call, PurgeCache(k)
  PROVE  BaseInv'
<1>0. Kind(k) = "purge" /\ pc[k] = "clean" /\ op' = op /\ Kind(k)' = Kind(k) /\ Go(k, "setMin")
  BY KindAt DEF PurgeCache, Kind
<1>1. StoreType /\ PurgeInv(k)
  BY CallFacts
<1>2. /\ pc' \in [Call -> Place] /\ hist' \in [Call -> HistSet] /\ pc'[k] = "setMin"
      /\ \A j \in Call : j # k => pc'[j] = pc[j]
  BY <1>0, <1>1, GoMoves DEF Place
<1>3. OnlyCall(k) /\ cache' \subseteq Seqs
  BY <1>2 DEF PurgeCache, OnlyCall
<1>4. PlaceInv(k)' /\ PurgeInv(k)'
  BY <1>0, <1>1, <1>2 DEF PlaceInv, PlaceOf, PurgeInv, PurgeCache
<1>5. CallInvOf(k)'
  BY <1>0, <1>4, PurgeCall
<1>6. QED
  BY <1>0, <1>1, <1>2, <1>3, <1>5, QuietBase DEF PurgeCache, StoreType, mongoVars

LEMMA DestructDocBase ==
  ASSUME BaseInv, NEW k \in Call, NEW d \in docs, DestructDoc(k, d)
  PROVE  BaseInv'
<1>0. Kind(k) = "destruct" /\ op' = op /\ Kind(k)' = Kind(k) /\ op[k].upTo <= maxSeq /\ maxSeq' = maxSeq
  BY DEF DestructDoc, Kind, redisVars
<1>1. StoreType /\ DestructInv(k) /\ d \in Docs /\ todo[k] \subseteq Nat /\ num[k] \in Nat
  BY CallFacts DEF StoreType
<1>2. op[k].upTo \in Nat
  BY <1>0, <1>1, Requests
<1>3. PICK l \in {"look", "getMin"} : Go(k, l)
  BY DEF DestructDoc
<1>4. /\ pc' \in [Call -> Place] /\ hist' \in [Call -> HistSet] /\ pc'[k] = l
      /\ \A j \in Call : j # k => pc'[j] = pc[j]
  <2>1. l \in Place
    BY <1>3 DEF Place
  <2>2. QED  BY <1>1, <1>3, <2>1, GoMoves
<1>5. PICK more : /\ todo' = [todo EXCEPT ![k] = @ \cup more]
                  /\ \A m \in more : \E i \in Index : m = slot[d][i].msg /\ Expired(k, m)
  <2>1. PICK keep, old, more :
          /\ keep = { i \in Index : ~Expired(k, slot[d][i].msg) }
          /\ old = { i \in Index : \A j \in keep : i < j }
          /\ more = { m \in { slot[d][i].msg :
                               i \in { j \in old : op[k].user \notin slot[d][j].del } } : m > op[k].since }
    OBVIOUS
  <2>2. todo' = [todo EXCEPT ![k] = @ \cup more]
    BY <2>1 DEF DestructDoc
  <2>3. ASSUME NEW i \in old PROVE i \in Index /\ Expired(k, slot[d][i].msg)
    <3>1. i \in Index /\ i \in Int
      BY <2>1 DEF Index
    <3>2. i \notin keep
      BY <2>1, <3>1
    <3>3. QED  BY <2>1, <3>1, <3>2
  <2>4. ASSUME NEW m \in more PROVE \E i \in Index : m = slot[d][i].msg /\ Expired(k, m)
    BY <2>1, <2>3
  <2>5. QED  BY <2>2, <2>4
<1>6. more \subseteq 1 .. op[k].upTo
  <2>1. ASSUME NEW m \in more PROVE m \in 1 .. op[k].upTo
    <3>1. PICK i \in Index : m = slot[d][i].msg /\ Expired(k, m)
      BY <1>5
    <3>2. m # 0 /\ m <= op[k].upTo
      BY <3>1 DEF Expired
    <3>3. m \in Seqs
      BY <1>1, <3>1, <3>2 DEF BaseInv, SlotInv
    <3>4. QED  BY <1>2, <3>2, <3>3 DEF Seqs
  <2>2. QED  BY <2>1
<1>7. /\ todo' \in [Call -> SUBSET Nat] /\ todo'[k] = todo[k] \cup more
      /\ \A j \in Call : j # k => todo'[j] = todo[j]
  <2>1. more \subseteq Nat /\ todo \in [Call -> SUBSET Nat] /\ todo' = [todo EXCEPT ![k] = @ \cup more]
    BY <1>1, <1>2, <1>5, <1>6 DEF StoreType
  <2>2. QED  BY <2>1
<1>8. num' \in [Call -> Nat] /\ OnlyCall(k)
  BY <1>1, <1>4, <1>7 DEF DestructDoc, StoreType, OnlyCall
<1>9. PlaceInv(k)' /\ DestructInv(k)'
  BY <1>0, <1>1, <1>3, <1>4, <1>6, <1>7 DEF PlaceInv, PlaceOf, DestructInv
<1>10. CallInvOf(k)'
  BY <1>0, <1>9, DestructCall
<1>11. QED
  BY <1>0, <1>1, <1>4, <1>7, <1>8, <1>10, QuietBase DEF DestructDoc, StoreType, redisVars, mongoVars

LEMMA DestructNoDocBase ==
  ASSUME BaseInv, NEW k \in Call, DestructNoDoc(k)
  PROVE  BaseInv'
<1>0. Kind(k) = "destruct" /\ op' = op /\ Kind(k)' = Kind(k) /\ Go(k, "getMin")
  BY DEF DestructNoDoc, Kind
<1>1. StoreType /\ DestructInv(k)
  BY CallFacts
<1>2. /\ pc' \in [Call -> Place] /\ hist' \in [Call -> HistSet] /\ pc'[k] = "getMin"
      /\ \A j \in Call : j # k => pc'[j] = pc[j]
  BY <1>0, <1>1, GoMoves DEF Place
<1>3. OnlyCall(k)
  BY <1>2 DEF DestructNoDoc, OnlyCall
<1>4. PlaceInv(k)' /\ DestructInv(k)'
  BY <1>0, <1>1, <1>2 DEF PlaceInv, PlaceOf, DestructInv, DestructNoDoc, redisVars
<1>5. CallInvOf(k)'
  BY <1>0, <1>4, DestructCall
<1>6. QED
  BY <1>0, <1>1, <1>2, <1>3, <1>5, QuietBase DEF DestructNoDoc, StoreType, redisVars, mongoVars

LEMMA DestructGetMinBase ==
  ASSUME BaseInv, NEW k \in Call, DestructGetMin(k)
  PROVE  BaseInv'
<1>0. Kind(k) = "destruct" /\ pc[k] = "getMin" /\ op' = op /\ Kind(k)' = Kind(k)
  BY KindAt DEF DestructGetMin, Kind
<1>1. StoreType /\ DestructInv(k)
  BY CallFacts
<1>2. PICK l \in {"moveMin", "done"} : Go(k, l) /\ (l = "moveMin" => todo[k] # {})
  BY DEF DestructGetMin
<1>3. /\ pc' \in [Call -> Place] /\ hist' \in [Call -> HistSet] /\ pc'[k] = l
      /\ \A j \in Call : j # k => pc'[j] = pc[j]
  <2>1. l \in Place
    BY <1>2 DEF Place
  <2>2. QED  BY <1>1, <1>2, <2>1, GoMoves
<1>4. OnlyCall(k)
  BY <1>3 DEF DestructGetMin, OnlyCall
<1>5. PlaceInv(k)' /\ DestructInv(k)'
  BY <1>0, <1>1, <1>2, <1>3 DEF PlaceInv, PlaceOf, DestructInv, DestructGetMin, redisVars, Final
<1>6. CallInvOf(k)'
  BY <1>0, <1>5, DestructCall
<1>7. QED
  BY <1>0, <1>1, <1>3, <1>4, <1>6, QuietBase DEF DestructGetMin, StoreType, redisVars, mongoVars

\* A step that moves a limit.
LEMMA LimitBase ==
  ASSUME BaseInv, NEW k \in Call, OnlyCall(k), CallInvOf(k)', LimitsInRange', op' = op,
         UNCHANGED <<maxSeq, cache, docs, slot, feedVars, view, todo, num, blk>>,
         minSeq' \in Nat, userMin' \in [User -> Nat], hasRead' \in [User -> Nat],
         pc' \in [Call -> Place], hist' \in [Call -> HistSet]
  PROVE  BaseInv'
<1>1. StoreType'
  BY DEF BaseInv, StoreType, feedVars
<1>2. SlotInv'
  BY DEF BaseInv, SlotInv
<1>3. QED  BY <1>1, <1>2, CallBase

LEMMA PurgeSetsMinBase ==
  ASSUME BaseInv, NEW k \in Call, PurgeSetsMin(k)
  PROVE  BaseInv'
<1>0. Kind(k) = "purge" /\ pc[k] = "setMin" /\ op' = op /\ Kind(k)' = Kind(k) /\ Go(k, "done")
  BY KindAt DEF PurgeSetsMin, Kind
<1>1. StoreType /\ PurgeInv(k) /\ maxSeq \in Nat
  BY CallFacts
<1>2. op[k].upTo \in Nat /\ op[k].upTo <= maxSeq /\ view[k].end \in 0 .. op[k].upTo
  BY <1>0, <1>1, Requests DEF PurgeInv
<1>3. /\ pc' \in [Call -> Place] /\ hist' \in [Call -> HistSet] /\ pc'[k] = "done"
      /\ \A j \in Call : j # k => pc'[j] = pc[j]
  BY <1>0, <1>1, GoMoves DEF Place
<1>4. OnlyCall(k)
  BY <1>3 DEF PurgeSetsMin, OnlyCall
<1>5. minSeq' \in Nat /\ minSeq' <= maxSeq + 1
  BY <1>1, <1>2 DEF PurgeSetsMin, AfterPurged
<1>6. LimitsInRange'
  BY <1>5 DEF PurgeSetsMin, LimitsInRange, BaseInv
<1>7. PlaceInv(k)' /\ PurgeInv(k)'
  BY <1>0, <1>1, <1>3 DEF PlaceInv, PlaceOf, PurgeInv, PurgeSetsMin, Final
<1>8. CallInvOf(k)'
  BY <1>0, <1>7, PurgeCall
<1>9. QED
  BY <1>0, <1>1, <1>3, <1>4, <1>5, <1>6, <1>8, LimitBase DEF PurgeSetsMin, StoreType, mongoVars

LEMMA DestructSetMinBase ==
  ASSUME BaseInv, NEW k \in Call, DestructSetMin(k)
  PROVE  BaseInv'
<1>0. Kind(k) = "destruct" /\ pc[k] = "moveMin" /\ op' = op /\ Kind(k)' = Kind(k) /\ Go(k, "done")
  BY KindAt DEF DestructSetMin, Kind
<1>1. StoreType /\ DestructInv(k) /\ maxSeq \in Nat
  BY CallFacts
<1>2. op[k].upTo \in Nat /\ op[k].user \in User
  BY <1>0, <1>1, Requests
<1>3. op[k].upTo <= maxSeq /\ todo[k] \subseteq 1 .. op[k].upTo /\ todo[k] # {}
  BY <1>0, <1>1 DEF DestructInv
<1>4. PICK n : n = LastOf(todo[k]) + 1
  OBVIOUS
<1>5. n \in Nat /\ n <= maxSeq + 1
  <2>1. todo[k] \subseteq 0 .. op[k].upTo
    BY <1>3
  <2>2. LastOf(todo[k]) \in todo[k]
    BY <1>2, <1>3, <2>1, LastOfIsGreatest
  <2>3. QED  BY <1>1, <1>2, <1>3, <1>4, <2>2
<1>6. /\ pc' \in [Call -> Place] /\ hist' \in [Call -> HistSet] /\ pc'[k] = "done"
      /\ \A j \in Call : j # k => pc'[j] = pc[j]
  BY <1>0, <1>1, GoMoves DEF Place
<1>7. OnlyCall(k)
  BY <1>6 DEF DestructSetMin, OnlyCall
<1>8. userMin' = [userMin EXCEPT ![op[k].user] = n]
  BY <1>4 DEF DestructSetMin
<1>9. userMin' \in [User -> Nat]
  BY <1>1, <1>2, <1>5, <1>8 DEF StoreType
<1>10. LimitsInRange'
  <2>1. ASSUME NEW u \in User PROVE userMin'[u] <= maxSeq + 1
    BY <1>1, <1>5, <1>8 DEF LimitsInRange, BaseInv, StoreType
  <2>2. QED  BY <2>1 DEF DestructSetMin, LimitsInRange, BaseInv
<1>11. PlaceInv(k)' /\ DestructInv(k)'
  BY <1>0, <1>1, <1>6 DEF PlaceInv, PlaceOf, DestructInv, DestructSetMin, Final
<1>12. CallInvOf(k)'
  BY <1>0, <1>11, DestructCall
<1>13. QED
  BY <1>0, <1>1, <1>6, <1>7, <1>9, <1>10, <1>12, LimitBase DEF DestructSetMin, StoreType, mongoVars

\* clearConversation and the read marks.
LEMMA ClearGetMaxBase ==
  ASSUME BaseInv, NEW k \in Call, ClearGetMax(k)
  PROVE  BaseInv'
<1>0. Kind(k) \in {"clearSelf", "clearAll"} /\ op' = op /\ Kind(k)' = Kind(k)
  BY DEF ClearGetMax, Kind
<1>1. StoreType /\ maxSeq \in Nat
  BY CallFacts
<1>2. PICK l \in {"done", "hide"} : Go(k, l)
  BY DEF ClearGetMax
<1>3. /\ pc' \in [Call -> Place] /\ hist' \in [Call -> HistSet] /\ pc'[k] = l
      /\ \A j \in Call : j # k => pc'[j] = pc[j]
  <2>1. l \in Place
    BY <1>2 DEF Place
  <2>2. QED  BY <1>1, <1>2, <2>1, GoMoves
<1>4. num' \in [Call -> Nat] /\ num'[k] = maxSeq /\ OnlyCall(k)
  BY <1>1, <1>3 DEF ClearGetMax, OnlyCall, StoreType
<1>5. PlaceInv(k)'
  BY <1>0, <1>2, <1>3 DEF PlaceInv, PlaceOf, Final
<1>6. MarkInv(k)'
  BY <1>0, <1>1, <1>4 DEF MarkInv, ClearGetMax, redisVars, MarkKinds
<1>7. CallInvOf(k)'
  BY <1>0, <1>5, <1>6, MarkCall
<1>8. QED
  BY <1>0, <1>1, <1>3, <1>4, <1>7, QuietBase DEF ClearGetMax, StoreType, redisVars, mongoVars

LEMMA ClearSetMinBase ==
  ASSUME BaseInv, NEW k \in Call, ClearSetMin(k)
  PROVE  BaseInv'
<1>0. /\ Kind(k) \in {"clearSelf", "clearAll"} /\ pc[k] = "hide" /\ op' = op /\ Kind(k)' = Kind(k)
      /\ Go(k, "setRead")
  BY KindAt DEF ClearSetMin, Kind
<1>1. StoreType /\ MarkInv(k) /\ maxSeq \in Nat /\ num[k] \in Nat
  BY CallFacts
<1>2. op[k].user \in User /\ num[k] <= maxSeq
  BY <1>0, <1>1, Requests DEF MarkInv
<1>3. PICK n : n = AfterLast(num[k])
  OBVIOUS
<1>4. n \in Nat /\ n <= maxSeq + 1
  BY <1>1, <1>2, <1>3 DEF AfterLast
<1>5. /\ pc' \in [Call -> Place] /\ hist' \in [Call -> HistSet] /\ pc'[k] = "setRead"
      /\ \A j \in Call : j # k => pc'[j] = pc[j]
  BY <1>0, <1>1, GoMoves DEF Place
<1>6. OnlyCall(k)
  BY <1>5 DEF ClearSetMin, OnlyCall
<1>7. \/ userMin' = [userMin EXCEPT ![op[k].user] = n] /\ minSeq' = minSeq
      \/ minSeq' = n /\ userMin' = userMin
  BY <1>3 DEF ClearSetMin
<1>8. userMin' \in [User -> Nat] /\ minSeq' \in Nat
  BY <1>1, <1>2, <1>4, <1>7 DEF StoreType
<1>9. LimitsInRange'
  <2>1. ASSUME NEW u \in User PROVE userMin'[u] <= maxSeq + 1
    BY <1>1, <1>4, <1>7 DEF LimitsInRange, BaseInv, StoreType
  <2>2. minSeq' <= maxSeq + 1
    BY <1>4, <1>7 DEF LimitsInRange, BaseInv
  <2>3. QED  BY <2>1, <2>2 DEF ClearSetMin, LimitsInRange, BaseInv
<1>10. PlaceInv(k)'
  BY <1>0, <1>5 DEF PlaceInv, PlaceOf, Final
<1>11. MarkInv(k)'
  BY <1>0, <1>2 DEF MarkInv, ClearSetMin, MarkKinds
<1>12. CallInvOf(k)'
  BY <1>0, <1>10, <1>11, MarkCall
<1>13. QED
  BY <1>0, <1>1, <1>5, <1>6, <1>8, <1>9, <1>12, LimitBase DEF ClearSetMin, StoreType, mongoVars

LEMMA MarkCheckMaxBase ==
  ASSUME BaseInv, NEW k \in Call, MarkCheckMax(k)
  PROVE  BaseInv'
<1>0. /\ Kind(k) \in {"markMsgs", "setRead"} /\ Kind(k) \in MarkKinds /\ op' = op
      /\ Kind(k)' = Kind(k) /\ maxSeq' = maxSeq
  BY DEF MarkCheckMax, Kind, MarkKinds, redisVars
<1>1. StoreType /\ maxSeq \in Nat
  BY CallFacts
<1>2. op[k].seqs \subseteq Seqs /\ MarkTo(k) \in Nat
  BY <1>0, <1>1, Requests, MarkToSeq DEF Seqs
<1>3. PICK l \in {"failed", "mark", "setRead"} :
         /\ Go(k, l)
         /\ l # "failed" => MarkTo(k) <= maxSeq
         /\ l = "mark" => Kind(k) = "markMsgs"
  BY <1>1, <1>2 DEF MarkCheckMax
<1>4. /\ pc' \in [Call -> Place] /\ hist' \in [Call -> HistSet] /\ pc'[k] = l
      /\ \A j \in Call : j # k => pc'[j] = pc[j]
  <2>1. l \in Place
    BY <1>3 DEF Place
  <2>2. QED  BY <1>1, <1>3, <2>1, GoMoves
<1>5. todo' \in [Call -> SUBSET Nat] /\ todo'[k] = op[k].seqs /\ OnlyCall(k)
  BY <1>1, <1>2, <1>4 DEF MarkCheckMax, OnlyCall, StoreType, Seqs
<1>6. PlaceInv(k)'
  BY <1>0, <1>3, <1>4 DEF PlaceInv, PlaceOf, Final
<1>7. MarkInv(k)'
  <2>1. MarkTo(k)' = MarkTo(k)
    BY <1>0 DEF MarkTo, MarkKinds
  <2>2. QED  BY <1>0, <1>2, <1>3, <1>4, <1>5, <2>1 DEF MarkInv
<1>8. CallInvOf(k)'
  BY <1>0, <1>6, <1>7, MarkCall
<1>9. QED
  BY <1>0, <1>1, <1>4, <1>5, <1>8, QuietBase DEF MarkCheckMax, StoreType, redisVars, mongoVars

LEMMA MarkGetReadBase ==
  ASSUME BaseInv, NEW k \in Call, MarkGetRead(k)
  PROVE  BaseInv'
<1>0. /\ Kind(k) \in {"markMsgs", "markConv", "readSeq"} /\ Kind(k) \in MarkKinds /\ op' = op
      /\ Kind(k)' = Kind(k) /\ maxSeq' = maxSeq
  BY DEF MarkGetRead, Kind, MarkKinds, redisVars
<1>1. StoreType /\ MarkInv(k) /\ maxSeq \in Nat
  BY CallFacts
<1>2. /\ op[k].seqs \subseteq Seqs /\ MarkTo(k) \in Seqs /\ op[k].user \in User
      /\ hasRead[op[k].user] \in Nat
  BY <1>0, <1>1, Requests, MarkToSeq DEF StoreType
<1>3. MarkTo(k) <= maxSeq
  BY <1>0, <1>1 DEF MarkGetRead, MarkInv
<1>4. PICK l \in {"mark", "setRead", "done"} : Go(k, l) /\ (l = "mark" => Kind(k) = "markConv")
  BY DEF MarkGetRead
<1>5. /\ pc' \in [Call -> Place] /\ hist' \in [Call -> HistSet] /\ pc'[k] = l
      /\ \A j \in Call : j # k => pc'[j] = pc[j]
  <2>1. l \in Place
    BY <1>4 DEF Place
  <2>2. QED  BY <1>1, <1>4, <2>1, GoMoves
<1>6. PICK t : t = IF Kind(k) = "markConv"
                   THEN (hasRead[op[k].user] + 1 .. MarkTo(k)) \cup op[k].seqs ELSE {}
  OBVIOUS
<1>7. t \subseteq Seqs /\ t \subseteq Nat
  BY <1>2, <1>6, ConstantsAssumption DEF Seqs
<1>8. todo' = [todo EXCEPT ![k] = t] /\ num' = [num EXCEPT ![k] = hasRead[op[k].user]]
  BY <1>6 DEF MarkGetRead
<1>9. todo' \in [Call -> SUBSET Nat] /\ todo'[k] = t /\ num' \in [Call -> Nat] /\ OnlyCall(k)
  BY <1>1, <1>2, <1>5, <1>7, <1>8 DEF MarkGetRead, OnlyCall, StoreType
<1>10. PlaceInv(k)'
  BY <1>0, <1>4, <1>5 DEF PlaceInv, PlaceOf, Final
<1>11. MarkInv(k)'
  <2>1. MarkTo(k)' = MarkTo(k)
    BY <1>0 DEF MarkTo, MarkKinds
  <2>2. QED  BY <1>0, <1>3, <1>7, <1>9, <2>1 DEF MarkInv
<1>12. CallInvOf(k)'
  BY <1>0, <1>10, <1>11, MarkCall
<1>13. QED
  BY <1>0, <1>1, <1>5, <1>9, <1>12, QuietBase DEF MarkGetRead, StoreType, redisVars, mongoVars

LEMMA MarkedAllBase ==
  ASSUME BaseInv, NEW k \in Call, MarkedAll(k)
  PROVE  BaseInv'
<1>0. /\ Kind(k) \in {"markMsgs", "markConv"} /\ Kind(k) \in MarkKinds /\ pc[k] = "mark" /\ op' = op
      /\ Kind(k)' = Kind(k) /\ maxSeq' = maxSeq
  BY KindAt DEF MarkedAll, Kind, MarkKinds, redisVars
<1>1. StoreType /\ MarkInv(k)
  BY CallFacts
<1>2. PICK l \in {"getRead", "setRead", "done"} : Go(k, l) /\ (l = "getRead" => Kind(k) = "markMsgs")
  BY DEF MarkedAll
<1>3. /\ pc' \in [Call -> Place] /\ hist' \in [Call -> HistSet] /\ pc'[k] = l
      /\ \A j \in Call : j # k => pc'[j] = pc[j]
  <2>1. l \in Place
    BY <1>2 DEF Place
  <2>2. QED  BY <1>1, <1>2, <2>1, GoMoves
<1>4. OnlyCall(k)
  BY <1>3 DEF MarkedAll, OnlyCall
<1>5. PlaceInv(k)'
  BY <1>0, <1>2, <1>3 DEF PlaceInv, PlaceOf, Final
<1>6. MarkInv(k)'
  <2>1. MarkTo(k)' = MarkTo(k)
    BY <1>0 DEF MarkTo, MarkKinds
  <2>2. QED  BY <1>0, <1>1, <1>2, <1>3, <2>1 DEF MarkInv
<1>7. CallInvOf(k)'
  BY <1>0, <1>5, <1>6, MarkCall
<1>8. QED
  BY <1>0, <1>1, <1>3, <1>4, <1>7, QuietBase DEF MarkedAll, StoreType, redisVars, mongoVars

LEMMA SetHasReadBase ==
  ASSUME BaseInv, NEW k \in Call, SetHasRead(k)
  PROVE  BaseInv'
<1>0. /\ Kind(k) \in {"clearSelf", "clearAll"} \cup MarkKinds /\ pc[k] = "setRead" /\ op' = op
      /\ Kind(k)' = Kind(k) /\ Go(k, "done")
  BY KindAt DEF SetHasRead, Kind
<1>1. StoreType /\ MarkInv(k) /\ maxSeq \in Nat /\ num[k] \in Nat
  BY CallFacts
<1>2. op[k].user \in User
  BY <1>0, <1>1, Requests DEF MarkKinds
<1>3. MarkTo(k) \in Nat /\ MarkTo(k) <= maxSeq
  <2>1. CASE Kind(k) \in {"clearSelf", "clearAll"}
    BY <1>0, <1>1, <2>1 DEF MarkTo, MarkInv
  <2>2. CASE Kind(k) \in MarkKinds
    BY <1>0, <1>1, <2>2, MarkToSeq DEF MarkInv, Seqs
  <2>3. QED  BY <1>0, <2>1, <2>2
<1>4. /\ pc' \in [Call -> Place] /\ hist' \in [Call -> HistSet] /\ pc'[k] = "done"
      /\ \A j \in Call : j # k => pc'[j] = pc[j]
  BY <1>0, <1>1, GoMoves DEF Place
<1>5. OnlyCall(k)
  BY <1>4 DEF SetHasRead, OnlyCall
<1>6. PICK n : n = MarkTo(k)
  OBVIOUS
<1>7. hasRead' = [hasRead EXCEPT ![op[k].user] = n]
  BY <1>6 DEF SetHasRead
<1>8. hasRead' \in [User -> Nat]
  BY <1>1, <1>2, <1>3, <1>6, <1>7 DEF StoreType
<1>9. LimitsInRange'
  <2>1. ASSUME NEW u \in User PROVE hasRead'[u] <= maxSeq
    BY <1>1, <1>3, <1>6, <1>7 DEF LimitsInRange, BaseInv, StoreType
  <2>2. QED  BY <2>1 DEF SetHasRead, LimitsInRange, BaseInv
<1>10. PlaceInv(k)'
  BY <1>0, <1>4 DEF PlaceInv, PlaceOf, Final
<1>11. MarkInv(k)'
  BY <1>4 DEF MarkInv
<1>12. CallInvOf(k)'
  BY <1>0, <1>10, <1>11, MarkCall
<1>13. QED
  BY <1>0, <1>1, <1>4, <1>5, <1>8, <1>9, <1>12, LimitBase DEF SetHasRead, StoreType, mongoVars

-----------------------------------------------------------------------------
(* Writes to MongoDB.                                                      *)

\* What one step makes of the slot of a message that no call has begun to remove:
\* the message, the revoke, the read mark and the deletions it held are still there.
SlotsGrow ==
    \A s \in Seqs : ~Covered(s)' =>
        /\ SlotOf(s).hasDel => SlotOf(s)'.hasDel
        /\ DocOf(s) \in docs =>
             /\ DocOf(s) \in docs'
             /\ SlotOf(s).msg = s => SlotOf(s)'.msg = s
             /\ SlotOf(s).revoke => SlotOf(s)'.revoke
             /\ SlotOf(s).isRead => SlotOf(s)'.isRead
             /\ SlotOf(s).del \subseteq SlotOf(s)'.del

\* No user is added to a del_list.
NoneAdded == \A s \in Seqs : SlotOf(s)'.del \subseteq SlotOf(s).del

LEMMA SlotTypes ==
  ASSUME BaseInv, NEW s \in Seqs
  PROVE  SlotOf(s) \in SlotSet /\ SlotOf(s).msg \in {0, s}
<1>1. DocOf(s) \in Docs /\ IndexOf(s) \in Index
  BY SlotOfSeq
<1>2. SlotOf(s) \in SlotSet
  BY <1>1 DEF BaseInv, StoreType, SlotOf
<1>3. ASSUME SlotOf(s).msg # 0 PROVE SlotOf(s).msg = s
  <2>1. PICK m : m = SlotOf(s).msg
    OBVIOUS
  <2>2. m \in Seqs /\ DocOf(m) = DocOf(s) /\ IndexOf(m) = IndexOf(s)
    BY <1>1, <1>3, <2>1 DEF BaseInv, SlotInv, SlotOf
  <2>3. QED  BY <2>1, <2>2, OneSlotOneSeq
<1>4. QED  BY <1>2, <1>3

\* One slot is written.
LEMMA PointWrite ==
  ASSUME BaseInv, NEW s \in Seqs, NEW x \in SlotSet, x.msg \in {0, s},
         slot' = [slot EXCEPT ![DocOf(s)][IndexOf(s)] = x]
  PROVE  /\ slot' \in [Docs -> [Index -> SlotSet]] /\ SlotInv'
         /\ SlotOf(s)' = x
         /\ \A t \in Seqs : t # s => SlotOf(t)' = SlotOf(t)
<1>1. DocOf(s) \in Docs /\ IndexOf(s) \in Index /\ slot \in [Docs -> [Index -> SlotSet]]
  BY SlotOfSeq DEF BaseInv, StoreType
<1>2. PICK d, i : d = DocOf(s) /\ i = IndexOf(s)
  OBVIOUS
<1>3. d \in Docs /\ i \in Index /\ slot' = [slot EXCEPT ![d][i] = x]
  BY <1>1, <1>2
<1>4. slot' \in [Docs -> [Index -> SlotSet]]
  BY <1>1, <1>3
<1>5. slot'[d][i] = x
  BY <1>1, <1>3
<1>6. \A e \in Docs : \A j \in Index : e # d \/ j # i => slot'[e][j] = slot[e][j]
  BY <1>1, <1>3
<1>7. ASSUME NEW t \in Seqs, t # s PROVE SlotOf(t)' = SlotOf(t)
  <2>1. DocOf(t) \in Docs /\ IndexOf(t) \in Index
    BY SlotOfSeq
  <2>2. DocOf(t) # d \/ IndexOf(t) # i
    BY <1>2, <1>7, OneSlotOneSeq
  <2>3. QED  BY <1>6, <2>1, <2>2 DEF SlotOf
<1>8. SlotInv'
  <2>1. ASSUME NEW e \in Docs, NEW j \in Index, slot'[e][j].msg # 0
        PROVE  slot'[e][j].msg \in Seqs /\ DocOf(slot'[e][j].msg) = e /\ IndexOf(slot'[e][j].msg) = j
    <3>1. CASE e = d /\ j = i
      <4>1. slot'[e][j].msg = s
        BY <1>5, <2>1, <3>1
      <4>2. QED  BY <1>2, <3>1, <4>1
    <3>2. CASE e # d \/ j # i
      BY <1>6, <2>1, <3>2 DEF BaseInv, SlotInv
    <3>3. QED  BY <3>1, <3>2
  <2>2. QED  BY <2>1 DEF SlotInv, DocOf, IndexOf
<1>9. SlotOf(s)' = x
  BY <1>2, <1>5 DEF SlotOf
<1>10. QED  BY <1>4, <1>7, <1>8, <1>9

\* One document is written.
LEMMA DocWrite ==
  ASSUME BaseInv, NEW d \in Docs, NEW g \in [Index -> SlotSet], slot' = [slot EXCEPT ![d] = g],
         \A i \in Index : \/ g[i].msg \in {0, slot[d][i].msg}
                          \/ g[i].msg \in Seqs /\ DocOf(g[i].msg) = d /\ IndexOf(g[i].msg) = i
  PROVE  /\ slot' \in [Docs -> [Index -> SlotSet]] /\ SlotInv'
         /\ \A t \in Seqs : SlotOf(t)' = IF DocOf(t) = d THEN g[IndexOf(t)] ELSE SlotOf(t)
<1>1. slot \in [Docs -> [Index -> SlotSet]]
  BY DEF BaseInv, StoreType
<1>2. slot' \in [Docs -> [Index -> SlotSet]] /\ slot'[d] = g /\ \A e \in Docs : e # d => slot'[e] = slot[e]
  BY <1>1
<1>3. ASSUME NEW t \in Seqs PROVE SlotOf(t)' = IF DocOf(t) = d THEN g[IndexOf(t)] ELSE SlotOf(t)
  <2>1. DocOf(t) \in Docs /\ IndexOf(t) \in Index
    BY SlotOfSeq
  <2>2. QED  BY <1>2, <2>1 DEF SlotOf
<1>4. SlotInv'
  <2>1. ASSUME NEW e \in Docs, NEW j \in Index, slot'[e][j].msg # 0
        PROVE  slot'[e][j].msg \in Seqs /\ DocOf(slot'[e][j].msg) = e /\ IndexOf(slot'[e][j].msg) = j
    <3>1. CASE e = d
      <4>1. slot'[e][j] = g[j]
        BY <1>2, <3>1
      <4>2. CASE g[j].msg = slot[d][j].msg
        BY <2>1, <3>1, <4>1, <4>2 DEF BaseInv, SlotInv
      <4>3. QED  BY <2>1, <3>1, <4>1, <4>2
    <3>2. CASE e # d
      BY <1>2, <2>1, <3>2 DEF BaseInv, SlotInv
    <3>3. QED  BY <3>1, <3>2
  <2>2. QED  BY <2>1 DEF SlotInv, DocOf, IndexOf
<1>5. QED  BY <1>2, <1>3, <1>4

\* A call's step that writes to MongoDB.
LEMMA SlotBase ==
  ASSUME BaseInv, NEW k \in Call, OnlyCall(k), CallInvOf(k)', SlotInv', op' = op,
         UNCHANGED <<redisVars, feedVars>>,
         docs' \subseteq Docs, slot' \in [Docs -> [Index -> SlotSet]],
         pc' \in [Call -> Place], hist' \in [Call -> HistSet],
         view' \in [Call -> ViewSet], todo' \in [Call -> SUBSET Nat], num' \in [Call -> Nat],
         blk' \in [Call \cup {Consumer} -> BlockSet]
  PROVE  BaseInv'
<1>1. StoreType'
  BY DEF BaseInv, StoreType, feedVars, redisVars
<1>2. LimitsInRange' /\ maxSeq' = maxSeq
  BY DEF BaseInv, LimitsInRange, redisVars
<1>3. QED  BY <1>1, <1>2, CallBase

\* RewriteQuote: the message is written back with another quote.
LEMMA RewriteQuoteWrites ==
  ASSUME BaseInv, NEW k \in Call, NEW e \in view[k].page, RewriteQuote(k, e)
  PROVE  slot' \in [Docs -> [Index -> SlotSet]] /\ SlotInv' /\ SlotsGrow /\ NoneAdded
<1>1. e.seq \in Seqs
  BY CallFacts DEF ViewSet, EntrySet
<1>2. PICK s : s = e.seq
  OBVIOUS
<1>3. s \in Seqs /\ SlotOf(s) \in SlotSet /\ SlotOf(s).msg \in {0, s} /\ docs' = docs
  BY <1>1, <1>2, SlotTypes DEF RewriteQuote
<1>4. PICK x : x = IF DocOf(s) \in docs THEN [SetField(SlotOf(s), s, "msg") EXCEPT !.rewritten = TRUE]
                   ELSE SlotOf(s)
  OBVIOUS
<1>5. slot' = [slot EXCEPT ![DocOf(s)][IndexOf(s)] = x]
  <2>1. DocOf(s) \in Docs /\ IndexOf(s) \in Index /\ slot \in [Docs -> [Index -> SlotSet]]
    BY <1>3, SlotOfSeq DEF BaseInv, StoreType
  <2>2. QED  BY <1>2, <1>4, <2>1 DEF RewriteQuote, SlotOf
<1>6. PICK sl : sl = SlotOf(s)
  OBVIOUS
<1>7. /\ x \in SlotSet /\ x.msg \in {0, s} /\ (sl.msg = s => x.msg = s)
      /\ x.revoke = sl.revoke /\ x.isRead = sl.isRead /\ x.del = sl.del /\ x.hasDel = sl.hasDel
  <2>1. sl \in SlotSet /\ sl.msg \in {0, s} /\ s \in Nat
    BY <1>3, <1>6 DEF Seqs
  <2>2. x = sl \/ x = [sl EXCEPT !.msg = s, !.rewritten = TRUE]
    BY <1>4, <1>6, <2>1 DEF SetField, SlotSet
  <2>3. CASE x = sl
    BY <2>1, <2>3
  <2>4. CASE x = [sl EXCEPT !.msg = s, !.rewritten = TRUE]
    BY <2>1, <2>4 DEF SlotSet
  <2>5. QED  BY <2>2, <2>3, <2>4
<1>8. /\ slot' \in [Docs -> [Index -> SlotSet]] /\ SlotInv' /\ SlotOf(s)' = x
      /\ \A t \in Seqs : t # s => SlotOf(t)' = SlotOf(t)
  BY <1>3, <1>5, <1>7, PointWrite
<1>9. SlotsGrow /\ NoneAdded
  BY <1>3, <1>6, <1>7, <1>8 DEF SlotsGrow, NoneAdded
<1>10. QED  BY <1>8, <1>9

LEMMA RewriteQuoteBase ==
  ASSUME BaseInv, NEW k \in Call, NEW e \in view[k].page, RewriteQuote(k, e)
  PROVE  BaseInv'
<1>0. /\ Kind(k) \in ReadKinds /\ pc[k] = "rewrite" /\ op' = op /\ Kind(k)' = Kind(k)
      /\ Go(k, "docs") /\ TakeMsg(k, e, [e EXCEPT !.how = "rewritten"])
  BY KindAt DEF RewriteQuote, Kind
<1>1. StoreType /\ view[k] \in ViewSet /\ e \in EntrySet
  BY <1>0, CallFacts DEF ViewSet
<1>2. [e EXCEPT !.how = "rewritten"] \in EntrySet
  BY <1>1 DEF EntrySet
<1>3. view' \in [Call -> ViewSet] /\ \A j \in Call : j # k => view'[j] = view[j]
  BY <1>0, <1>2, TakeMsgView
<1>4. /\ pc' \in [Call -> Place] /\ hist' \in [Call -> HistSet] /\ pc'[k] = "docs"
      /\ \A j \in Call : j # k => pc'[j] = pc[j]
  BY <1>0, <1>1, GoMoves DEF Place
<1>5. OnlyCall(k)
  BY <1>3, <1>4 DEF RewriteQuote, OnlyCall
<1>6. PlaceInv(k)'
  BY <1>0, <1>4 DEF PlaceInv, PlaceOf, ReadKinds, Final
<1>7. ReadInv(k)'
  BY <1>4 DEF ReadInv
<1>8. CallInvOf(k)'
  BY <1>0, <1>6, <1>7, ReadCall
<1>9. slot' \in [Docs -> [Index -> SlotSet]] /\ SlotInv'
  BY RewriteQuoteWrites
<1>10. QED
  BY <1>0, <1>1, <1>3, <1>4, <1>5, <1>8, <1>9, SlotBase DEF RewriteQuote, StoreType

\* PushDelList: the user is added to the slot's del_list.
LEMMA PushDelListWrites ==
  ASSUME BaseInv, NEW k \in Call, NEW s \in Seqs, PushDelList(k, s)
  PROVE  /\ slot' \in [Docs -> [Index -> SlotSet]] /\ SlotInv' /\ SlotsGrow
         /\ DocOf(s) \in docs => op[k].user \in SlotOf(s)'.del
         /\ \A t \in Seqs : \A u \in SlotOf(t)'.del : u \in SlotOf(t).del \/ (t = s /\ u = op[k].user)
<1>0. Kind(k) = "deleteSelf" /\ docs' = docs
  BY KindAt DEF PushDelList
<1>1. op[k].user \in User
  BY <1>0, CallFacts, Requests
<1>2. PICK sl : sl = SlotOf(s)
  OBVIOUS
<1>3. sl \in SlotSet /\ sl.msg \in {0, s}
  BY <1>2, SlotTypes
<1>4. PICK u : u = op[k].user
  OBVIOUS
<1>5. PICK x : x = IF DocOf(s) \in docs THEN AddToDelList(sl, u) ELSE sl
  OBVIOUS
<1>6. slot' = [slot EXCEPT ![DocOf(s)][IndexOf(s)] = x]
  <2>1. DocOf(s) \in Docs /\ IndexOf(s) \in Index /\ slot \in [Docs -> [Index -> SlotSet]]
    BY SlotOfSeq DEF BaseInv, StoreType
  <2>2. QED  BY <1>2, <1>4, <1>5, <2>1 DEF PushDelList, PushMatches, SlotOf
<1>7. /\ x \in SlotSet /\ x.msg = sl.msg
      /\ x.revoke = sl.revoke /\ x.isRead = sl.isRead /\ sl.del \subseteq x.del /\ x.del \subseteq sl.del \cup {u}
      /\ (sl.hasDel => x.hasDel) /\ (DocOf(s) \in docs => u \in x.del)
  <2>1. CASE x = sl /\ DocOf(s) \notin docs
    BY <1>3, <2>1
  <2>2. CASE x = AddToDelList(sl, u)
    BY <1>1, <1>3, <1>4, <2>2 DEF SlotSet, AddToDelList
  <2>3. QED  BY <1>5, <2>1, <2>2
<1>8. /\ slot' \in [Docs -> [Index -> SlotSet]] /\ SlotInv' /\ SlotOf(s)' = x
      /\ \A t \in Seqs : t # s => SlotOf(t)' = SlotOf(t)
  BY <1>3, <1>6, <1>7, PointWrite
<1>9. SlotsGrow
  BY <1>0, <1>2, <1>7, <1>8 DEF SlotsGrow
<1>10. \A t \in Seqs : \A v \in SlotOf(t)'.del : v \in SlotOf(t).del \/ (t = s /\ v = op[k].user)
  BY <1>2, <1>4, <1>7, <1>8
<1>11. QED  BY <1>4, <1>7, <1>8, <1>9, <1>10

LEMMA PushDelListBase ==
  ASSUME BaseInv, NEW k \in Call, NEW s \in Seqs, PushDelList(k, s)
  PROVE  BaseInv'
<1>0. /\ Kind(k) = "deleteSelf" /\ pc[k] = "push" /\ op' = op /\ Kind(k)' = Kind(k) /\ maxSeq' = maxSeq
  BY KindAt DEF PushDelList, Kind, redisVars
<1>1. StoreType /\ DeleteInv(k) /\ todo[k] \subseteq Nat
  BY CallFacts
<1>2. PICK l \in {"done", "push"} : Go(k, l)
  BY DEF PushDelList
<1>3. /\ pc' \in [Call -> Place] /\ hist' \in [Call -> HistSet] /\ pc'[k] = l
      /\ \A j \in Call : j # k => pc'[j] = pc[j]
  <2>1. l \in Place
    BY <1>2 DEF Place
  <2>2. QED  BY <1>1, <1>2, <2>1, GoMoves
<1>4. todo' \in [Call -> SUBSET Nat] /\ todo'[k] = todo[k] \ {s} /\ OnlyCall(k)
  BY <1>1, <1>3 DEF PushDelList, OnlyCall, StoreType
<1>5. PlaceInv(k)' /\ DeleteInv(k)'
  BY <1>0, <1>1, <1>2, <1>3, <1>4 DEF PlaceInv, PlaceOf, DeleteInv, Final
<1>6. CallInvOf(k)'
  BY <1>0, <1>5, DeleteCall
<1>7. slot' \in [Docs -> [Index -> SlotSet]] /\ SlotInv'
  BY PushDelListWrites
<1>8. QED
  BY <1>0, <1>1, <1>3, <1>4, <1>6, <1>7, SlotBase DEF PushDelList, StoreType

\* DeleteMsgsInOneDocByIndex takes messages away that a call covers.
LEMMA RemoveWrites ==
  ASSUME BaseInv, NEW d \in Docs, NEW S, S \subseteq Seqs, Remove(d, S), docs' = docs,
         \A s \in S : DocOf(s) = d /\ Covered(s)'
  PROVE  slot' \in [Docs -> [Index -> SlotSet]] /\ SlotInv' /\ SlotsGrow /\ NoneAdded
<1>1. slot \in [Docs -> [Index -> SlotSet]]
  BY DEF BaseInv, StoreType
<1>2. PICK g : g = [i \in Index |-> IF d \in docs /\ \E s \in S : IndexOf(s) = i THEN RemovedSlot
                                    ELSE slot[d][i]]
  OBVIOUS
<1>3. slot' = [slot EXCEPT ![d] = g]
  BY <1>2 DEF Remove
<1>4. RemovedSlot \in SlotSet /\ RemovedSlot.msg = 0 /\ RemovedSlot.del = {}
  BY DEF RemovedSlot, EmptySlot, SlotSet
<1>5. g \in [Index -> SlotSet]
  BY <1>1, <1>2, <1>4
<1>6. \A i \in Index : g[i].msg \in {0, slot[d][i].msg}
  BY <1>2, <1>4
<1>7. /\ slot' \in [Docs -> [Index -> SlotSet]] /\ SlotInv'
      /\ \A t \in Seqs : SlotOf(t)' = IF DocOf(t) = d THEN g[IndexOf(t)] ELSE SlotOf(t)
  BY <1>3, <1>5, <1>6, DocWrite
<1>8. ASSUME NEW t \in Seqs, ~Covered(t)' PROVE SlotOf(t)' = SlotOf(t)
  <2>1. IndexOf(t) \in Index
    BY SlotOfSeq
  <2>2. CASE DocOf(t) = d
    <3>1. ASSUME NEW s \in S PROVE IndexOf(s) # IndexOf(t)
      BY <1>8, <2>2, OneSlotOneSeq
    <3>2. g[IndexOf(t)] = slot[d][IndexOf(t)]
      BY <1>2, <2>1, <3>1
    <3>3. QED  BY <1>7, <2>2, <3>2 DEF SlotOf
  <2>3. CASE DocOf(t) # d
    BY <1>7, <2>3
  <2>4. QED  BY <2>2, <2>3
<1>9. SlotsGrow
  BY <1>8 DEF SlotsGrow
<1>10. NoneAdded
  <2>1. ASSUME NEW t \in Seqs PROVE SlotOf(t)' = SlotOf(t) \/ SlotOf(t)' = RemovedSlot
    <3>1. IndexOf(t) \in Index
      BY SlotOfSeq
    <3>2. CASE DocOf(t) = d
      BY <1>2, <1>7, <3>1, <3>2 DEF SlotOf
    <3>3. CASE DocOf(t) # d
      BY <1>7, <3>3
    <3>4. QED  BY <3>2, <3>3
  <2>2. QED  BY <1>4, <2>1 DEF NoneAdded
<1>11. QED  BY <1>7, <1>9, <1>10

LEMMA RemoveMsgsWrites ==
  ASSUME BaseInv, NEW k \in Call, NEW d \in Docs, RemoveMsgs(k, d)
  PROVE  slot' \in [Docs -> [Index -> SlotSet]] /\ SlotInv' /\ SlotsGrow /\ NoneAdded
<1>0. Kind(k) = "deleteAll" /\ op' = op /\ Kind(k)' = Kind(k) /\ docs' = docs
  BY KindAt DEF RemoveMsgs, Kind
<1>1. StoreType /\ todo[k] \subseteq op[k].seqs
  BY <1>0, CallFacts DEF DeleteInv
<1>2. op[k].seqs \subseteq Seqs
  BY <1>0, <1>1, Requests
<1>3. PICK l \in {"done", "remove"} : Go(k, l)
  BY DEF RemoveMsgs
<1>4. pc'[k] # "start"
  BY <1>1, <1>3, GoMoves DEF Place
<1>5. PICK S : S = InDoc(todo[k], d)
  OBVIOUS
<1>6. S \subseteq Seqs /\ \A s \in S : DocOf(s) = d /\ Covered(s)'
  BY <1>0, <1>1, <1>2, <1>4, <1>5 DEF InDoc, Covered, Covers, Begun
<1>7. QED  BY <1>0, <1>5, <1>6, RemoveWrites DEF RemoveMsgs

LEMMA RemoveMsgsBase ==
  ASSUME BaseInv, NEW k \in Call, NEW d \in Docs, RemoveMsgs(k, d)
  PROVE  BaseInv'
<1>0. Kind(k) = "deleteAll" /\ op' = op /\ Kind(k)' = Kind(k)
  BY KindAt DEF RemoveMsgs, Kind
<1>1. StoreType /\ DeleteInv(k) /\ todo[k] \subseteq Nat
  BY CallFacts
<1>2. PICK l \in {"done", "remove"} : Go(k, l)
  BY DEF RemoveMsgs
<1>3. /\ pc' \in [Call -> Place] /\ hist' \in [Call -> HistSet] /\ pc'[k] = l
      /\ \A j \in Call : j # k => pc'[j] = pc[j]
  <2>1. l \in Place
    BY <1>2 DEF Place
  <2>2. QED  BY <1>1, <1>2, <2>1, GoMoves
<1>4. todo' \in [Call -> SUBSET Nat] /\ todo'[k] \subseteq todo[k] /\ OnlyCall(k)
  BY <1>1, <1>3 DEF RemoveMsgs, OnlyCall, StoreType
<1>5. PlaceInv(k)' /\ DeleteInv(k)'
  BY <1>0, <1>1, <1>2, <1>3, <1>4 DEF PlaceInv, PlaceOf, DeleteInv, Final
<1>6. CallInvOf(k)'
  BY <1>0, <1>5, DeleteCall
<1>7. slot' \in [Docs -> [Index -> SlotSet]] /\ SlotInv'
  BY RemoveMsgsWrites
<1>8. QED
  BY <1>0, <1>1, <1>3, <1>4, <1>6, <1>7, SlotBase DEF RemoveMsgs, StoreType

LEMMA PurgeExpiredWrites ==
  ASSUME BaseInv, NEW k \in Call, PurgeExpired(k)
  PROVE  slot' \in [Docs -> [Index -> SlotSet]] /\ SlotInv' /\ SlotsGrow /\ NoneAdded
<1>0. Kind(k) = "purge" /\ pc[k] = "expire" /\ op' = op /\ Kind(k)' = Kind(k) /\ docs' = docs
      /\ Go(k, "scan")
  BY KindAt DEF PurgeExpired, Kind
<1>1. StoreType /\ PurgeInv(k) /\ view[k] \in ViewSet
  BY CallFacts
<1>2. pc'[k] # "start"
  BY <1>0, <1>1, GoMoves DEF Place
<1>3. PICK d, S : d = view[k].first /\ S = view[k].seqs
  OBVIOUS
<1>4. d \in Docs /\ S \subseteq Seqs /\ \A s \in S : s <= op[k].upTo /\ DocOf(s) = d
  BY <1>0, <1>1, <1>3 DEF PurgeInv, ViewSet
<1>5. \A s \in S : Covered(s)'
  BY <1>0, <1>2, <1>4 DEF Covered, Covers, Begun
<1>6. QED  BY <1>0, <1>3, <1>4, <1>5, RemoveWrites DEF PurgeExpired

LEMMA PurgeExpiredBase ==
  ASSUME BaseInv, NEW k \in Call, PurgeExpired(k)
  PROVE  BaseInv'
<1>0. /\ Kind(k) = "purge" /\ pc[k] = "expire" /\ op' = op /\ Kind(k)' = Kind(k)
      /\ Go(k, "scan") /\ maxSeq' = maxSeq
  BY KindAt DEF PurgeExpired, Kind, redisVars
<1>1. StoreType /\ PurgeInv(k) /\ view[k] \in ViewSet /\ MaxMsgs \in Nat
  BY CallFacts
<1>2. op[k].upTo \in Nat
  BY <1>0, <1>1, Requests
<1>3. PICK m : m = LastOf(view[k].seqs)
  OBVIOUS
<1>4. m \in Seqs /\ m <= op[k].upTo
  <2>1. view[k].seqs \subseteq Seqs /\ view[k].seqs # {} /\ \A s \in view[k].seqs : s <= op[k].upTo
    BY <1>0, <1>1 DEF PurgeInv, ViewSet
  <2>2. view[k].seqs \subseteq 0 .. MaxMsgs
    BY <1>1, <2>1 DEF Seqs
  <2>3. m \in view[k].seqs
    BY <1>1, <1>3, <2>1, <2>2, LastOfIsGreatest
  <2>4. QED  BY <2>1, <2>3
<1>5. m \in 0 .. op[k].upTo /\ m \in Int
  BY <1>2, <1>4 DEF Seqs
<1>6. PICK v : v = [view[k] EXCEPT !.end = m, !.seqs = {}, !.first = 0]
  OBVIOUS
<1>7. v \in ViewSet
  <2>1. view[k] \in ViewSet /\ m \in Int /\ 0 \in Int /\ {} \in SUBSET Seqs
    BY <1>1, <1>5
  <2>2. QED  BY <1>6, <2>1 DEF ViewSet
<1>8. v.end = m
  BY <1>1, <1>6 DEF ViewSet
<1>9. view' = [view EXCEPT ![k] = v]
  BY <1>1, <1>3, <1>6 DEF PurgeExpired, StoreType
<1>10. /\ pc' \in [Call -> Place] /\ hist' \in [Call -> HistSet] /\ pc'[k] = "scan"
       /\ \A j \in Call : j # k => pc'[j] = pc[j]
  BY <1>0, <1>1, GoMoves DEF Place
<1>11. view' \in [Call -> ViewSet] /\ view'[k] = v /\ OnlyCall(k)
  <2>1. view \in [Call -> ViewSet]
    BY <1>1 DEF StoreType
  <2>2. view' \in [Call -> ViewSet] /\ view'[k] = v /\ \A j \in Call : j # k => view'[j] = view[j]
    BY <1>7, <1>9, <2>1
  <2>3. OnlyCall(k)
    BY <1>10, <2>2 DEF PurgeExpired, OnlyCall
  <2>4. QED  BY <2>2, <2>3
<1>12. PlaceInv(k)'
  BY <1>0, <1>10 DEF PlaceInv, PlaceOf
<1>13. PurgeInv(k)'
  BY <1>0, <1>1, <1>5, <1>8, <1>10, <1>11 DEF PurgeInv, PurgeExpired
<1>14. CallInvOf(k)'
  BY <1>0, <1>12, <1>13, PurgeCall
<1>15. slot' \in [Docs -> [Index -> SlotSet]] /\ SlotInv'
  BY PurgeExpiredWrites
<1>16. QED
  BY <1>0, <1>1, <1>10, <1>11, <1>14, <1>15, SlotBase DEF PurgeExpired, StoreType

\* DeleteDocs: only documents all of whose messages have expired.
LEMMA PurgeDocsWrites ==
  ASSUME BaseInv, NEW k \in Call, PurgeDocs(k)
  PROVE  /\ slot' \in [Docs -> [Index -> SlotSet]] /\ SlotInv' /\ SlotsGrow /\ NoneAdded
         /\ docs' \subseteq Docs
<1>0. Kind(k) = "purge" /\ op' = op /\ Kind(k)' = Kind(k)
  BY KindAt DEF PurgeDocs, Kind
<1>1. StoreType /\ PurgeInv(k)
  BY CallFacts
<1>2. PICK l \in {"clean", "setMin"} : Go(k, l)
  BY DEF PurgeDocs
<1>3. pc'[k] # "start"
  BY <1>1, <1>2, GoMoves DEF Place
<1>4. EmptySlot \in SlotSet /\ EmptySlot.msg = 0 /\ EmptySlot.del = {}
  BY DEF EmptySlot, SlotSet
<1>5. slot' = [d \in Docs |-> IF d \in todo[k] THEN [i \in Index |-> EmptySlot] ELSE slot[d]]
  BY DEF PurgeDocs
<1>6. slot' \in [Docs -> [Index -> SlotSet]]
  BY <1>1, <1>4, <1>5 DEF StoreType
<1>7. SlotInv'
  <2>1. ASSUME NEW d \in Docs, NEW i \in Index, slot'[d][i].msg # 0 PROVE slot'[d][i] = slot[d][i]
    BY <1>4, <1>5, <2>1
  <2>2. QED  BY <2>1 DEF SlotInv, BaseInv, DocOf, IndexOf
<1>8. ASSUME NEW s \in Seqs, ~Covered(s)'
      PROVE  SlotOf(s)' = SlotOf(s) /\ (DocOf(s) \in docs => DocOf(s) \in docs')
  <2>1. ~(s <= op[k].upTo)
    BY <1>0, <1>3, <1>8 DEF Covered, Covers, Begun
  <2>2. DocOf(s) \notin todo[k]
    BY <1>0, <1>1, <2>1 DEF PurgeInv
  <2>3. DocOf(s) \in Docs
    BY SlotOfSeq
  <2>4. QED  BY <1>5, <2>2, <2>3 DEF SlotOf, PurgeDocs
<1>9. SlotsGrow
  BY <1>8 DEF SlotsGrow
<1>10. docs' \subseteq Docs
  BY <1>1 DEF PurgeDocs, StoreType
<1>11. NoneAdded
  <2>1. ASSUME NEW s \in Seqs PROVE SlotOf(s)' = SlotOf(s) \/ SlotOf(s)' = EmptySlot
    <3>1. DocOf(s) \in Docs /\ IndexOf(s) \in Index
      BY SlotOfSeq
    <3>2. QED  BY <1>5, <3>1 DEF SlotOf
  <2>2. QED  BY <1>4, <2>1 DEF NoneAdded
<1>12. QED  BY <1>6, <1>7, <1>9, <1>10, <1>11

LEMMA PurgeDocsBase ==
  ASSUME BaseInv, NEW k \in Call, PurgeDocs(k)
  PROVE  BaseInv'
<1>0. Kind(k) = "purge" /\ pc[k] = "scan" /\ op' = op /\ Kind(k)' = Kind(k) /\ maxSeq' = maxSeq
  BY KindAt DEF PurgeDocs, Kind, redisVars
<1>1. StoreType /\ PurgeInv(k)
  BY CallFacts
<1>2. PICK l \in {"clean", "setMin"} : Go(k, l) /\ (l = "clean" => op[k].clean)
  BY DEF PurgeDocs
<1>3. /\ pc' \in [Call -> Place] /\ hist' \in [Call -> HistSet] /\ pc'[k] = l
      /\ \A j \in Call : j # k => pc'[j] = pc[j]
  <2>1. l \in Place
    BY <1>2 DEF Place
  <2>2. QED  BY <1>1, <1>2, <2>1, GoMoves
<1>4. OnlyCall(k)
  BY <1>3 DEF PurgeDocs, OnlyCall
<1>5. PlaceInv(k)' /\ PurgeInv(k)'
  BY <1>0, <1>1, <1>2, <1>3 DEF PlaceInv, PlaceOf, PurgeInv, PurgeDocs
<1>6. CallInvOf(k)'
  BY <1>0, <1>5, PurgeCall
<1>7. slot' \in [Docs -> [Index -> SlotSet]] /\ SlotInv' /\ docs' \subseteq Docs
  BY PurgeDocsWrites
<1>8. QED
  BY <1>0, <1>1, <1>3, <1>4, <1>6, <1>7, SlotBase DEF PurgeDocs, StoreType

\* MarkSingleChatMsgsAsRead.
LEMMA MarkDocWrites ==
  ASSUME BaseInv, NEW k \in Call, NEW d \in Docs, MarkDoc(k, d)
  PROVE  /\ slot' \in [Docs -> [Index -> SlotSet]] /\ SlotInv' /\ SlotsGrow /\ NoneAdded
         /\ \A s \in InDoc(todo[k], d) : d \in docs => SlotOf(s)'.isRead \/ Sender[s] = op[k].user
<1>0. Kind(k) \in MarkKinds /\ pc[k] = "mark" /\ docs' = docs
  BY KindAt DEF MarkDoc, MarkKinds
<1>1. slot \in [Docs -> [Index -> SlotSet]] /\ todo[k] \subseteq Seqs
  BY <1>0, CallFacts DEF StoreType, MarkInv
<1>2. PICK S : S = InDoc(todo[k], d)
  OBVIOUS
<1>3. PICK M : M = { i \in Index : /\ d \in docs /\ \E s \in S : IndexOf(s) = i
                                   /\ slot[d][i].msg = 0 \/ Sender[slot[d][i].msg] # op[k].user }
  OBVIOUS
<1>4. PICK g : g = [i \in Index |-> IF i \in M THEN [slot[d][i] EXCEPT !.isRead = TRUE] ELSE slot[d][i]]
  OBVIOUS
<1>5. slot' = [slot EXCEPT ![d] = g]
  <2>1. g = [i \in Index |->
               IF /\ d \in docs /\ \E s \in S : IndexOf(s) = i
                  /\ slot[d][i].msg = 0 \/ Sender[slot[d][i].msg] # op[k].user
               THEN [slot[d][i] EXCEPT !.isRead = TRUE] ELSE slot[d][i]]
    BY <1>3, <1>4
  <2>2. QED  BY <1>2, <2>1 DEF MarkDoc
<1>6. \A i \in Index : /\ g[i] \in SlotSet /\ g[i].msg = slot[d][i].msg
                       /\ g[i].revoke = slot[d][i].revoke /\ g[i].del = slot[d][i].del
                       /\ g[i].hasDel = slot[d][i].hasDel
                       /\ (slot[d][i].isRead => g[i].isRead) /\ (i \in M => g[i].isRead)
  <2>1. ASSUME NEW i \in Index, NEW sl \in SlotSet
        PROVE  LET x == [sl EXCEPT !.isRead = TRUE] IN
               /\ x \in SlotSet /\ x.msg = sl.msg /\ x.revoke = sl.revoke /\ x.del = sl.del
               /\ x.hasDel = sl.hasDel /\ x.isRead
    BY DEF SlotSet
  <2>2. ASSUME NEW i \in Index
        PROVE  /\ g[i] \in SlotSet /\ g[i].msg = slot[d][i].msg
               /\ g[i].revoke = slot[d][i].revoke /\ g[i].del = slot[d][i].del
               /\ g[i].hasDel = slot[d][i].hasDel
               /\ (slot[d][i].isRead => g[i].isRead) /\ (i \in M => g[i].isRead)
    <3>1. PICK sl : sl = slot[d][i]
      OBVIOUS
    <3>2. sl \in SlotSet
      BY <1>1, <3>1
    <3>3. g[i] = IF i \in M THEN [sl EXCEPT !.isRead = TRUE] ELSE sl
      BY <1>4, <3>1
    <3>4. QED  BY <2>1, <3>1, <3>2, <3>3
  <2>3. QED  BY <2>2
<1>7. g \in [Index -> SlotSet]
  BY <1>4, <1>6
<1>8. /\ slot' \in [Docs -> [Index -> SlotSet]] /\ SlotInv'
      /\ \A t \in Seqs : SlotOf(t)' = IF DocOf(t) = d THEN g[IndexOf(t)] ELSE SlotOf(t)
  <2>1. \A i \in Index : g[i].msg \in {0, slot[d][i].msg}
    BY <1>6
  <2>2. QED  BY <1>5, <1>7, <2>1, DocWrite
<1>9. SlotsGrow /\ NoneAdded
  <2>1. ASSUME NEW t \in Seqs
        PROVE  /\ SlotOf(t)'.msg = SlotOf(t).msg /\ SlotOf(t)'.revoke = SlotOf(t).revoke
               /\ SlotOf(t)'.del = SlotOf(t).del /\ SlotOf(t)'.hasDel = SlotOf(t).hasDel
               /\ SlotOf(t).isRead => SlotOf(t)'.isRead
    <3>1. IndexOf(t) \in Index
      BY SlotOfSeq
    <3>2. CASE DocOf(t) = d
      <4>1. SlotOf(t)' = g[IndexOf(t)] /\ SlotOf(t) = slot[d][IndexOf(t)]
        BY <1>8, <3>2 DEF SlotOf
      <4>2. QED  BY <1>6, <3>1, <4>1
    <3>3. CASE DocOf(t) # d
      BY <1>8, <3>3
    <3>4. QED  BY <3>2, <3>3
  <2>2. QED  BY <1>0, <2>1 DEF SlotsGrow, NoneAdded
<1>10. ASSUME NEW s \in S, d \in docs PROVE SlotOf(s)'.isRead \/ Sender[s] = op[k].user
  <2>1. s \in Seqs /\ DocOf(s) = d
    BY <1>1, <1>2 DEF InDoc
  <2>2. IndexOf(s) \in Index /\ SlotOf(s)' = g[IndexOf(s)] /\ SlotOf(s) = slot[d][IndexOf(s)]
    BY <1>8, <2>1, SlotOfSeq DEF SlotOf
  <2>3. SlotOf(s).msg \in {0, s}
    BY <2>1, SlotTypes
  <2>4. CASE IndexOf(s) \in M
    BY <1>6, <2>2, <2>4
  <2>5. CASE IndexOf(s) \notin M
    <3>1. SlotOf(s).msg # 0 /\ Sender[SlotOf(s).msg] = op[k].user
      BY <1>3, <1>10, <2>2, <2>5
    <3>2. QED  BY <2>3, <3>1
  <2>6. QED  BY <2>4, <2>5
<1>11. QED  BY <1>2, <1>8, <1>9, <1>10

LEMMA MarkDocBase ==
  ASSUME BaseInv, NEW k \in Call, NEW d \in Docs, MarkDoc(k, d)
  PROVE  /\ BaseInv'
         /\ view'[k].seqs = view[k].seqs \cup { s \in InDoc(todo[k], d) : d \in docs }
<1>0. /\ Kind(k) \in {"markMsgs", "markConv"} /\ Kind(k) \in MarkKinds /\ pc[k] = "mark" /\ op' = op
      /\ Kind(k)' = Kind(k) /\ maxSeq' = maxSeq /\ pc' = pc
  BY KindAt DEF MarkDoc, Kind, MarkKinds, redisVars
<1>1. StoreType /\ MarkInv(k) /\ view[k] \in ViewSet /\ todo[k] \subseteq Nat
  BY CallFacts
<1>2. todo[k] \subseteq Seqs
  BY <1>0, <1>1 DEF MarkInv
<1>3. PICK S, R : S = InDoc(todo[k], d) /\ R = { s \in S : d \in docs }
  OBVIOUS
<1>4. R \subseteq Seqs
  BY <1>2, <1>3 DEF InDoc
<1>5. PICK v : v = [view[k] EXCEPT !.seqs = @ \cup R]
  OBVIOUS
<1>6. v \in ViewSet /\ v.seqs = view[k].seqs \cup R
  BY <1>1, <1>4, <1>5 DEF ViewSet
<1>7. view' = [view EXCEPT ![k] = v] /\ todo' = [todo EXCEPT ![k] = @ \ S]
  BY <1>1, <1>3, <1>5 DEF MarkDoc, StoreType
<1>8. view' \in [Call -> ViewSet] /\ view'[k] = v /\ \A j \in Call : j # k => view'[j] = view[j]
  BY <1>1, <1>6, <1>7 DEF StoreType
<1>9. /\ todo' \in [Call -> SUBSET Nat] /\ todo'[k] = todo[k] \ S
      /\ \A j \in Call : j # k => todo'[j] = todo[j]
  BY <1>1, <1>7 DEF StoreType
<1>10. OnlyCall(k)
  BY <1>8, <1>9 DEF MarkDoc, OnlyCall
<1>11. PlaceInv(k)'
  BY <1>0 DEF PlaceInv, PlaceOf
<1>12. MarkInv(k)'
  <2>1. MarkTo(k)' = MarkTo(k)
    BY <1>0 DEF MarkTo, MarkKinds
  <2>2. QED  BY <1>0, <1>1, <1>2, <1>9, <2>1 DEF MarkInv
<1>13. CallInvOf(k)'
  BY <1>0, <1>11, <1>12, MarkCall
<1>14. slot' \in [Docs -> [Index -> SlotSet]] /\ SlotInv'
  BY MarkDocWrites
<1>15. BaseInv'
  BY <1>0, <1>1, <1>8, <1>9, <1>10, <1>13, <1>14, SlotBase DEF MarkDoc, StoreType
<1>16. QED  BY <1>3, <1>6, <1>8, <1>15

\* What UpdateMsg makes of a slot.
LEMMA SetFieldKeeps ==
  ASSUME NEW sl \in SlotSet, NEW s \in Nat, NEW key \in {"msg", "revoke"}
  PROVE  LET x == SetField(sl, s, key) IN
         /\ x \in SlotSet
         /\ x.hasDel = sl.hasDel /\ x.del = sl.del /\ x.isRead = sl.isRead
         /\ sl.revoke => x.revoke
         /\ x.msg = IF key = "msg" THEN s ELSE sl.msg
         /\ key = "revoke" => x.revoke
<1>1. PICK x : x = SetField(sl, s, key)
  OBVIOUS
<1>2. CASE key = "msg"
  <2>1. x = [sl EXCEPT !.msg = s, !.rewritten = FALSE]
    BY <1>1, <1>2 DEF SetField
  <2>2. x \in SlotSet
    BY <2>1 DEF SlotSet
  <2>3. x.hasDel = sl.hasDel /\ x.del = sl.del /\ x.isRead = sl.isRead /\ x.revoke = sl.revoke /\ x.msg = s
    BY <2>1 DEF SlotSet
  <2>4. QED  BY <1>1, <1>2, <2>2, <2>3
<1>3. CASE key = "revoke"
  <2>1. x = [sl EXCEPT !.revoke = TRUE]
    BY <1>1, <1>3 DEF SetField
  <2>2. x \in SlotSet
    BY <2>1 DEF SlotSet
  <2>3. x.hasDel = sl.hasDel /\ x.del = sl.del /\ x.isRead = sl.isRead /\ x.revoke /\ x.msg = sl.msg
    BY <2>1 DEF SlotSet
  <2>4. QED  BY <1>1, <1>3, <2>2, <2>3
<1>4. QED  BY <1>2, <1>3

\* BatchInsertBlock: where its loop is.
LEMMA BlockRange ==
  ASSUME BaseInv, NEW w \in Call \cup {Consumer}, Writing(w)
  PROVE  /\ blk[w] \in BlockSet
         /\ blk[w].i \in Seqs /\ blk[w].last \in Seqs /\ blk[w].i <= blk[w].last
         /\ w \in Call => /\ w # Consumer /\ pc[w] = "write" /\ Kind(w) = "revoke"
                          /\ blk[w].i = op[w].end /\ blk[w].last = op[w].end
         /\ w = Consumer => /\ mc = "insert" /\ blk[w].last = Batch.last
                            /\ blk[w].i \in Batch.first .. Batch.last
                            /\ Batch.first \in Seqs /\ Batch.last \in Seqs
<1>1. blk[w] \in BlockSet
  BY DEF BaseInv, StoreType
<1>2. CASE w \in Call
  <2>1. w # Consumer /\ pc[w] = "write"
    BY <1>2, ConstantsAssumption DEF Writing
  <2>2. Kind(w) = "revoke" /\ StoreType /\ ReadInv(w)
    BY <1>2, <2>1, KindAt, CallFacts
  <2>3. blk[w].i = op[w].end /\ blk[w].last = op[w].end /\ op[w].end \in Seqs
    BY <1>2, <2>1, <2>2, Requests DEF ReadInv, ReadKinds
  <2>4. QED  BY <1>1, <1>2, <2>1, <2>2, <2>3 DEF Seqs
<1>3. CASE w = Consumer
  <2>1. mc = "insert" /\ w \notin Call
    BY <1>3, ConstantsAssumption DEF Writing
  <2>2. /\ blk[w].i \in Batch.first .. Batch.last /\ blk[w].last = Batch.last /\ qpos < Len(queue)
        /\ qpos \in Nat /\ queue \in Seq(BatchSet)
    BY <1>3, <2>1 DEF BaseInv, FeedInv, StoreType
  <2>3. Batch \in BatchSet
    BY <2>2 DEF Batch
  <2>4. Batch.first \in Seqs /\ Batch.last \in Seqs
    BY <2>3 DEF BatchSet
  <2>5. QED  BY <1>1, <1>3, <2>1, <2>2, <2>4, ConstantsAssumption DEF Seqs
<1>4. QED  BY <1>2, <1>3

\* What one step of BatchInsertBlock writes: nothing, or the key of all the seqs that
\* its loop advances by.
BlockDoes(w, b) ==
    /\ b \in BlockSet /\ b.last = blk[w].last
    /\ AfterBlock(w, b)
    /\ b.i \in blk[w].i .. blk[w].last + 1
    /\ \A t \in blk[w].i .. b.i - 1 :
           /\ DocOf(t) \in docs'
           /\ w = Consumer => SlotOf(t)'.msg = t
           /\ w # Consumer => SlotOf(t)'.revoke

LEMMA BlockUpdateWrites ==
  ASSUME BaseInv, NEW w \in Call \cup {Consumer}, BlockUpdate(w)
  PROVE  /\ slot' \in [Docs -> [Index -> SlotSet]] /\ SlotInv' /\ SlotsGrow /\ NoneAdded /\ docs' \subseteq Docs
         /\ \E b : BlockDoes(w, b)
<1>0. Writing(w) /\ docs' = docs /\ docs \subseteq Docs
  BY DEF BlockUpdate, BaseInv, StoreType
<1>1. PICK s : s = blk[w].i
  OBVIOUS
<1>2. /\ blk[w] \in BlockSet /\ s \in Seqs /\ blk[w].last \in Seqs /\ s <= blk[w].last
      /\ s \in Nat /\ blk[w].last \in Nat
  BY <1>0, <1>1, BlockRange DEF Seqs
<1>3. CASE DocOf(s) \in docs
  <2>1. slot' = [slot EXCEPT ![DocOf(s)][IndexOf(s)] = SetField(@, s, KeyOf(w))]
        /\ AfterBlock(w, [blk[w] EXCEPT !.i = s + 1])
    BY <1>1, <1>3 DEF BlockUpdate
  <2>2. PICK sl : sl = SlotOf(s)
    OBVIOUS
  <2>3. sl \in SlotSet /\ sl.msg \in {0, s}
    BY <1>2, <2>2, SlotTypes
  <2>4. PICK x : x = SetField(sl, s, KeyOf(w))
    OBVIOUS
  <2>5. slot' = [slot EXCEPT ![DocOf(s)][IndexOf(s)] = x]
    <3>1. DocOf(s) \in Docs /\ IndexOf(s) \in Index /\ slot \in [Docs -> [Index -> SlotSet]]
      BY <1>2, SlotOfSeq DEF BaseInv, StoreType
    <3>2. QED  BY <2>1, <2>2, <2>4, <3>1 DEF SlotOf
  <2>6. KeyOf(w) \in {"msg", "revoke"} /\ (w = Consumer => KeyOf(w) = "msg")
        /\ (w # Consumer => KeyOf(w) = "revoke")
    BY DEF KeyOf
  <2>7. /\ x \in SlotSet /\ x.hasDel = sl.hasDel /\ x.del = sl.del /\ x.isRead = sl.isRead
        /\ (sl.revoke => x.revoke) /\ x.msg = IF KeyOf(w) = "msg" THEN s ELSE sl.msg
        /\ (KeyOf(w) = "revoke" => x.revoke)
    BY <1>2, <2>3, <2>4, <2>6, SetFieldKeeps
  <2>8. x.msg \in {0, s} /\ (sl.msg = s => x.msg = s) /\ (w = Consumer => x.msg = s)
        /\ (w # Consumer => x.revoke)
    BY <2>3, <2>6, <2>7
  <2>9. /\ slot' \in [Docs -> [Index -> SlotSet]] /\ SlotInv' /\ SlotOf(s)' = x
        /\ \A t \in Seqs : t # s => SlotOf(t)' = SlotOf(t)
    BY <1>2, <2>5, <2>7, <2>8, PointWrite
  <2>10. SlotsGrow /\ NoneAdded
    BY <1>0, <2>2, <2>7, <2>8, <2>9 DEF SlotsGrow, NoneAdded
  <2>11. PICK b : b = [blk[w] EXCEPT !.i = s + 1]
    OBVIOUS
  <2>12. b \in BlockSet /\ b.i = s + 1 /\ b.last = blk[w].last
    BY <1>2, <2>11 DEF BlockSet
  <2>13. b.i \in s .. blk[w].last + 1 /\ s .. b.i - 1 = {s}
    BY <1>2, <2>12
  <2>14. BlockDoes(w, b)
    BY <1>0, <1>1, <1>3, <2>1, <2>8, <2>9, <2>11, <2>12, <2>13 DEF BlockDoes
  <2>15. QED  BY <1>0, <2>9, <2>10, <2>14
<1>4. CASE DocOf(s) \notin docs
  <2>1. AfterBlock(w, [blk[w] EXCEPT !.try = FALSE]) /\ slot' = slot
    BY <1>1, <1>4 DEF BlockUpdate
  <2>2. PICK b : b = [blk[w] EXCEPT !.try = FALSE]
    OBVIOUS
  <2>3. b \in BlockSet /\ b.i = s /\ b.last = blk[w].last
    BY <1>1, <1>2, <2>2 DEF BlockSet
  <2>4. b.i \in s .. blk[w].last + 1 /\ s .. b.i - 1 = {}
    BY <1>2, <2>3
  <2>5. BlockDoes(w, b)
    BY <1>1, <2>1, <2>2, <2>3, <2>4 DEF BlockDoes
  <2>6. slot' \in [Docs -> [Index -> SlotSet]] /\ SlotInv' /\ SlotsGrow /\ NoneAdded
    BY <1>0, <2>1 DEF BaseInv, StoreType, SlotInv, SlotsGrow, NoneAdded, SlotOf
  <2>7. QED  BY <1>0, <2>5, <2>6
<1>5. QED  BY <1>3, <1>4

LEMMA BlockCreateWrites ==
  ASSUME BaseInv, NEW w \in Call \cup {Consumer}, BlockCreate(w)
  PROVE  /\ slot' \in [Docs -> [Index -> SlotSet]] /\ SlotInv' /\ SlotsGrow /\ NoneAdded /\ docs' \subseteq Docs
         /\ \E b : BlockDoes(w, b)
<1>0. Writing(w) /\ docs \subseteq Docs /\ slot \in [Docs -> [Index -> SlotSet]]
  BY DEF BlockCreate, BaseInv, StoreType
<1>1. PICK s, l, d : s = blk[w].i /\ l = blk[w].last /\ d = DocOf(s)
  OBVIOUS
<1>2. blk[w] \in BlockSet /\ s \in Seqs /\ l \in Seqs /\ s <= l /\ s \in Nat /\ l \in Nat
  BY <1>0, <1>1, BlockRange DEF Seqs
<1>3. CASE d \in docs
  <2>1. AfterBlock(w, RetryDuplicate(blk[w])) /\ slot' = slot /\ docs' = docs
    BY <1>1, <1>3 DEF BlockCreate, mongoVars
  <2>2. PICK b : b = RetryDuplicate(blk[w])
    OBVIOUS
  <2>3. b \in BlockSet /\ b.i = s /\ b.last = l
    BY <1>1, <1>2, <2>2 DEF BlockSet, RetryDuplicate
  <2>4. b.i \in s .. l + 1 /\ s .. b.i - 1 = {}
    BY <1>2, <2>3
  <2>5. BlockDoes(w, b)
    BY <1>1, <2>1, <2>2, <2>3, <2>4 DEF BlockDoes
  <2>6. slot' \in [Docs -> [Index -> SlotSet]] /\ SlotInv' /\ SlotsGrow /\ NoneAdded
    BY <2>1 DEF BaseInv, StoreType, SlotInv, SlotsGrow, NoneAdded, SlotOf
  <2>7. QED  BY <1>0, <2>1, <2>5, <2>6
<1>4. CASE d \notin docs
  <2>1. PICK new : new = InDoc(s .. l, d)
    OBVIOUS
  <2>2. PICK g \in s .. l : new = s .. g /\ Cardinality(new) = g - s + 1
    BY <1>1, <1>2, <2>1, DocTakesPrefix
  <2>3. new \subseteq Seqs /\ g \in Nat /\ \A t \in new : DocOf(t) = d
    BY <1>2, <2>1, ConstantsAssumption DEF InDoc, Seqs
  <2>4. PICK c : c = [i \in Index |->
                        IF \E t \in new : IndexOf(t) = i
                        THEN SetField(EmptySlot, CHOOSE t \in new : IndexOf(t) = i, KeyOf(w))
                        ELSE EmptySlot]
    OBVIOUS
  <2>5. /\ docs' = docs \cup {d} /\ slot' = [slot EXCEPT ![d] = c]
        /\ AfterBlock(w, [blk[w] EXCEPT !.i = s + Cardinality(new)])
    BY <1>1, <1>4, <2>1, <2>4 DEF BlockCreate
  <2>6. EmptySlot \in SlotSet /\ EmptySlot.msg = 0 /\ EmptySlot.hasDel /\ EmptySlot.del = {}
    BY DEF EmptySlot, SlotSet
  <2>7. KeyOf(w) \in {"msg", "revoke"} /\ (w = Consumer => KeyOf(w) = "msg")
        /\ (w # Consumer => KeyOf(w) = "revoke")
    BY DEF KeyOf
  <2>8. ASSUME NEW t \in new
        PROVE  /\ c[IndexOf(t)] = SetField(EmptySlot, t, KeyOf(w))
               /\ w = Consumer => c[IndexOf(t)].msg = t
               /\ w # Consumer => c[IndexOf(t)].revoke
    <3>1. t \in Seqs /\ t \in Nat /\ IndexOf(t) \in Index
      BY <2>3, SlotOfSeq DEF Seqs
    <3>2. \A u \in new : IndexOf(u) = IndexOf(t) => u = t
      BY <2>3, <3>1, OneSlotOneSeq
    <3>3. (CHOOSE u \in new : IndexOf(u) = IndexOf(t)) = t
      BY <3>2
    <3>4. c[IndexOf(t)] = SetField(EmptySlot, t, KeyOf(w))
      BY <2>4, <3>1, <3>3
    <3>5. PICK sl, key, x : sl = EmptySlot /\ key = KeyOf(w) /\ x = SetField(sl, t, key)
      OBVIOUS
    <3>6. sl \in SlotSet /\ key \in {"msg", "revoke"} /\ c[IndexOf(t)] = x
      BY <2>6, <2>7, <3>4, <3>5
    <3>7. x.msg = (IF key = "msg" THEN t ELSE sl.msg) /\ (key = "revoke" => x.revoke)
      BY <3>1, <3>5, <3>6, SetFieldKeeps
    <3>8. QED  BY <2>7, <3>4, <3>5, <3>6, <3>7
  <2>9. ASSUME NEW i \in Index
        PROVE  /\ c[i] \in SlotSet /\ c[i].hasDel /\ c[i].del = {}
               /\ \/ c[i].msg = 0
                  \/ c[i].msg \in Seqs /\ DocOf(c[i].msg) = d /\ IndexOf(c[i].msg) = i
    <3>1. CASE \E t \in new : IndexOf(t) = i
      <4>1. PICK t \in new : IndexOf(t) = i
        BY <3>1
      <4>2. c[i] = SetField(EmptySlot, t, KeyOf(w)) /\ t \in Seqs /\ t \in Nat /\ DocOf(t) = d
        BY <2>3, <2>8, <4>1 DEF Seqs
      <4>3. c[i] \in SlotSet /\ c[i].hasDel /\ c[i].del = {} /\ c[i].msg \in {0, t}
        <5>1. PICK sl, key, x : sl = EmptySlot /\ key = KeyOf(w) /\ x = SetField(sl, t, key)
          OBVIOUS
        <5>2. /\ sl \in SlotSet /\ sl.msg = 0 /\ sl.hasDel /\ sl.del = {} /\ key \in {"msg", "revoke"} /\ c[i] = x
              /\ t \in Nat
          BY <2>6, <2>7, <4>2, <5>1
        <5>3. x \in SlotSet /\ x.hasDel = sl.hasDel /\ x.del = sl.del /\ x.msg = (IF key = "msg" THEN t ELSE sl.msg)
          <6>1. SetField(sl, t, key) \in SlotSet
            BY <5>2, SetFieldKeeps
          <6>2. SetField(sl, t, key).hasDel = sl.hasDel /\ SetField(sl, t, key).del = sl.del
            <7>1. sl \in SlotSet /\ key \in {"msg", "revoke"} /\ t \in Nat
              BY <5>2
            <7>2. QED  BY <7>1, SetFieldKeeps
          <6>3. SetField(sl, t, key).msg = (IF key = "msg" THEN t ELSE sl.msg)
            BY <5>2, SetFieldKeeps
          <6>4. QED  BY <5>1, <6>1, <6>2, <6>3
        <5>4. QED  BY <5>2, <5>3
      <4>4. QED  BY <4>1, <4>2, <4>3
    <3>2. CASE ~\E t \in new : IndexOf(t) = i
      BY <2>4, <2>6, <3>2
    <3>3. QED  BY <3>1, <3>2
  <2>10. c \in [Index -> SlotSet] /\ d \in Docs
    BY <1>1, <1>2, <2>4, <2>9, SlotOfSeq
  <2>11. /\ slot' \in [Docs -> [Index -> SlotSet]] /\ SlotInv'
         /\ \A t \in Seqs : SlotOf(t)' = IF DocOf(t) = d THEN c[IndexOf(t)] ELSE SlotOf(t)
    <3>1. \A i \in Index : \/ c[i].msg \in {0, slot[d][i].msg}
                           \/ c[i].msg \in Seqs /\ DocOf(c[i].msg) = d /\ IndexOf(c[i].msg) = i
      BY <2>9
    <3>2. QED  BY <2>5, <2>10, <3>1, DocWrite
  <2>12. SlotsGrow /\ NoneAdded
    <3>1. ASSUME NEW t \in Seqs, DocOf(t) = d PROVE SlotOf(t)'.hasDel /\ SlotOf(t)'.del = {}
      BY <2>9, <2>11, <3>1, SlotOfSeq
    <3>2. ASSUME NEW t \in Seqs, DocOf(t) # d PROVE SlotOf(t)' = SlotOf(t)
      BY <2>11, <3>2
    <3>3. QED  BY <1>4, <2>5, <3>1, <3>2 DEF SlotsGrow, NoneAdded
  <2>13. PICK b : b = [blk[w] EXCEPT !.i = s + Cardinality(new)]
    OBVIOUS
  <2>14. b \in BlockSet /\ b.i = g + 1 /\ b.last = l
    <3>1. s + Cardinality(new) = g + 1 /\ g + 1 \in Nat
      BY <1>2, <2>2, <2>3
    <3>2. QED  BY <1>1, <1>2, <2>13, <3>1 DEF BlockSet
  <2>15. b.i \in s .. l + 1 /\ s .. b.i - 1 = new
    BY <1>2, <2>2, <2>3, <2>14
  <2>16. ASSUME NEW t \in new
         PROVE  DocOf(t) \in docs' /\ (w = Consumer => SlotOf(t)'.msg = t) /\ (w # Consumer => SlotOf(t)'.revoke)
    BY <2>3, <2>5, <2>8, <2>11
  <2>17. BlockDoes(w, b)
    BY <1>1, <2>5, <2>13, <2>14, <2>15, <2>16 DEF BlockDoes
  <2>18. QED  BY <1>0, <2>5, <2>10, <2>11, <2>12, <2>17
<1>5. QED  BY <1>3, <1>4

\* A step of BatchInsertBlock.
LEMMA BlockWrites ==
  ASSUME BaseInv, NEW w \in Call \cup {Consumer}, BlockUpdate(w) \/ BlockCreate(w)
  PROVE  /\ slot' \in [Docs -> [Index -> SlotSet]] /\ SlotInv' /\ SlotsGrow /\ NoneAdded /\ docs' \subseteq Docs
         /\ Writing(w)
         /\ \E b : BlockDoes(w, b)
         /\ UNCHANGED <<op, redisVars, queue, qpos, fresh, left, users, redelivered, view, todo, num>>
<1>1. CASE BlockUpdate(w)
  BY <1>1, BlockUpdateWrites DEF BlockUpdate
<1>2. CASE BlockCreate(w)
  BY <1>2, BlockCreateWrites DEF BlockCreate
<1>3. QED  BY <1>1, <1>2

\* BatchInsertBlock of a revoke.
LEMMA RevokeBlockBase ==
  ASSUME BaseInv, NEW k \in Call, BlockUpdate(k) \/ BlockCreate(k)
  PROVE  BaseInv'
<1>0. /\ Writing(k) /\ op' = op /\ Kind(k)' = Kind(k) /\ UNCHANGED redisVars
      /\ UNCHANGED <<queue, qpos, fresh, left, users, redelivered, view, todo, num>>
  BY BlockWrites DEF Kind
<1>1. StoreType /\ k # Consumer /\ Kind(k) = "revoke" /\ blk[k].i = op[k].end /\ blk[k].last = op[k].end
      /\ op[k].end \in Nat
  BY <1>0, BlockRange, CallFacts DEF Seqs
<1>2. PICK b : BlockDoes(k, b)
  BY BlockWrites
<1>3. b \in BlockSet /\ b.last = op[k].end /\ b.i \in op[k].end .. op[k].end + 1 /\ AfterBlock(k, b)
  BY <1>1, <1>2 DEF BlockDoes
<1>4. blk' = [blk EXCEPT ![k] = b] /\ mc' = mc /\ Go(k, IF b.i > b.last THEN "done" ELSE "write")
  BY <1>1, <1>3 DEF AfterBlock
<1>5. PICK l \in {"done", "write"} : Go(k, l) /\ (l = "write" => ~(b.i > b.last))
  BY <1>4
<1>6. /\ pc' \in [Call -> Place] /\ hist' \in [Call -> HistSet] /\ pc'[k] = l
      /\ \A j \in Call : j # k => pc'[j] = pc[j]
  <2>1. l \in Place
    BY <1>5 DEF Place
  <2>2. QED  BY <1>1, <1>5, <2>1, GoMoves
<1>7. /\ blk' \in [Call \cup {Consumer} -> BlockSet] /\ blk'[k] = b
      /\ \A j \in Call \cup {Consumer} : j # k => blk'[j] = blk[j]
  <2>1. blk \in [Call \cup {Consumer} -> BlockSet]
    BY <1>1 DEF StoreType
  <2>2. QED  BY <1>3, <1>4, <2>1
<1>8. OnlyCall(k)
  BY <1>0, <1>1, <1>6, <1>7 DEF OnlyCall
<1>9. PlaceInv(k)'
  BY <1>0, <1>1, <1>5, <1>6 DEF PlaceInv, PlaceOf, Final
<1>10. ReadInv(k)'
  BY <1>0, <1>1, <1>3, <1>5, <1>6, <1>7 DEF ReadInv
<1>11. CallInvOf(k)'
  BY <1>0, <1>1, <1>9, <1>10, ReadCall DEF ReadKinds
<1>12. slot' \in [Docs -> [Index -> SlotSet]] /\ SlotInv' /\ docs' \subseteq Docs
  BY BlockWrites
<1>13. UNCHANGED feedVars
  BY <1>0, <1>4 DEF feedVars
<1>14. view' \in [Call -> ViewSet] /\ todo' \in [Call -> SUBSET Nat] /\ num' \in [Call -> Nat]
  BY <1>0, <1>1 DEF StoreType
<1>15. QED
  BY <1>0, <1>6, <1>7, <1>8, <1>11, <1>12, <1>13, <1>14, SlotBase

\* A step of the numbering or of the consumer keeps what is said of the calls.
LEMMA FeedBase ==
  ASSUME BaseInv, StoreType', FeedInv', SlotInv', LimitsInRange', maxSeq <= maxSeq',
         UNCHANGED callVars, \A j \in Call : blk'[j] = blk[j]
  PROVE  BaseInv'
<1>1. ASSUME NEW j \in Call PROVE CallInvOf(j)'
  <2>1. CallInvOf(j) /\ StoreType /\ maxSeq' \in Nat
    BY DEF BaseInv, CallInv, StoreType
  <2>2. op' = op /\ pc'[j] = pc[j] /\ view'[j] = view[j] /\ todo'[j] = todo[j] /\ num'[j] = num[j]
    BY DEF callVars
  <2>3. QED  BY <2>1, <2>2, OthersKeep
<1>2. QED  BY <1>1 DEF BaseInv, CallInv

\* The numbering.
LEMMA CacheBatchBase ==
  ASSUME BaseInv, NEW n \in 1 .. MaxBatch, CacheBatch(n)
  PROVE  BaseInv'
<1>0. maxSeq \in Nat /\ n \in Nat /\ n >= 1 /\ MaxMsgs \in Nat
  BY ConstantsAssumption DEF BaseInv, StoreType
<1>1. cache' \subseteq Seqs
  BY <1>0 DEF BaseInv, StoreType, CacheBatch, Seqs
<1>2. StoreType'
  BY <1>0, <1>1 DEF BaseInv, StoreType, CacheBatch, mongoVars, callVars
<1>3. FeedInv'
  BY <1>0 DEF BaseInv, FeedInv, CacheBatch, Batch
<1>4. SlotInv' /\ LimitsInRange'
  BY DEF BaseInv, SlotInv, LimitsInRange, CacheBatch, mongoVars
<1>5. QED  BY <1>0, <1>2, <1>3, <1>4, FeedBase DEF CacheBatch

LEMMA NumberBatchBase ==
  ASSUME BaseInv, NumberBatch
  PROVE  BaseInv'
<1>0. /\ maxSeq \in Nat /\ fresh.n \in Nat /\ MaxMsgs \in Nat /\ minSeq \in Nat
      /\ fresh \in [pc : {"idle", "cached", "numbered", "marked"}, n : Nat] /\ fresh.pc = "cached"
      /\ maxSeq + fresh.n <= MaxMsgs /\ fresh.n >= 1
  BY ConstantsAssumption DEF BaseInv, StoreType, NumberBatch, FeedInv
<1>1. PICK n : n = fresh.n
  OBVIOUS
<1>2. fresh' = [pc |-> "numbered", n |-> n] /\ maxSeq' = maxSeq + n /\ n \in Nat /\ n >= 1
  BY <1>0, <1>1 DEF NumberBatch
<1>3. StoreType'
  <2>1. fresh' \in [pc : {"idle", "cached", "numbered", "marked"}, n : Nat] /\ maxSeq' \in 0 .. MaxMsgs
    BY <1>0, <1>1, <1>2
  <2>2. QED  BY <2>1 DEF BaseInv, StoreType, NumberBatch, mongoVars, callVars
<1>4. FeedInv'
  <2>1. ASSUME NEW q \in 1 .. Len(queue)
        PROVE  queue[q].first <= queue[q].last /\ queue[q].last <= maxSeq'
    <3>1. queue[q] \in BatchSet
      BY <2>1 DEF BaseInv, StoreType
    <3>2. queue[q].last \in Int
      BY <3>1 DEF BatchSet, Seqs
    <3>3. queue[q].first <= queue[q].last /\ queue[q].last <= maxSeq
      BY DEF BaseInv, FeedInv
    <3>4. QED  BY <1>0, <1>2, <3>2, <3>3
  <2>2. queue' = queue /\ qpos' = qpos /\ mc' = mc /\ blk' = blk
    BY DEF NumberBatch
  <2>3. fresh'.pc = "numbered" /\ fresh'.n = n /\ n <= maxSeq'
    BY <1>0, <1>2
  <2>4. QED  BY <1>2, <2>1, <2>2, <2>3 DEF FeedInv, BaseInv, Batch
<1>5. SlotInv'
  BY DEF BaseInv, SlotInv, NumberBatch, mongoVars
<1>6. LimitsInRange'
  <2>1. ASSUME NEW u \in User PROVE userMin[u] <= maxSeq' + 1 /\ hasRead[u] <= maxSeq'
    <3>1. userMin[u] \in Nat /\ hasRead[u] \in Nat
      BY DEF BaseInv, StoreType
    <3>2. userMin[u] <= maxSeq + 1 /\ hasRead[u] <= maxSeq
      BY DEF BaseInv, LimitsInRange
    <3>3. QED  BY <1>0, <1>2, <3>1, <3>2
  <2>2. minSeq <= maxSeq' + 1
    BY <1>0, <1>2 DEF BaseInv, LimitsInRange
  <2>3. QED  BY <2>1, <2>2 DEF LimitsInRange, NumberBatch
<1>7. QED  BY <1>0, <1>2, <1>3, <1>4, <1>5, <1>6, FeedBase DEF NumberBatch

LEMMA SenderHasReadBase ==
  ASSUME BaseInv, SenderHasRead
  PROVE  BaseInv'
<1>0. /\ maxSeq \in Nat /\ fresh.n \in Nat /\ fresh.n <= maxSeq /\ fresh.pc = "numbered" /\ fresh.n >= 1
      /\ fresh \in [pc : {"idle", "cached", "numbered", "marked"}, n : Nat]
  BY DEF BaseInv, StoreType, SenderHasRead, FeedInv
<1>1. PICK n : n = fresh.n
  OBVIOUS
<1>2. fresh' = [pc |-> "marked", n |-> n] /\ n \in Nat /\ n >= 1 /\ n <= maxSeq /\ maxSeq' = maxSeq
  BY <1>0, <1>1 DEF SenderHasRead
<1>3. ASSUME NEW u \in User PROVE hasRead'[u] \in Nat /\ hasRead'[u] <= maxSeq
  <2>1. PICK own : own = { s \in FirstFresh .. maxSeq : Sender[s] = u }
    OBVIOUS
  <2>2. own \subseteq 0 .. maxSeq
    BY <1>0, <2>1 DEF FirstFresh
  <2>3. hasRead'[u] = IF own = {} THEN hasRead[u] ELSE CHOOSE s \in own : \A t \in own : t <= s
    BY <1>3, <2>1 DEF SenderHasRead
  <2>4. CASE own = {}
    BY <1>3, <2>3, <2>4 DEF BaseInv, StoreType, LimitsInRange
  <2>5. CASE own # {}
    <3>1. LastOf(own) \in own
      BY <1>0, <2>2, <2>5, LastOfIsGreatest
    <3>2. hasRead'[u] = LastOf(own)
      BY <2>3, <2>5 DEF LastOf
    <3>3. hasRead'[u] \in 0 .. maxSeq
      BY <2>2, <3>1, <3>2
    <3>4. QED  BY <1>0, <3>3
  <2>6. QED  BY <2>4, <2>5
<1>4. hasRead' \in [User -> Nat]
  <2>1. PICK h : hasRead' = [u \in User |-> h[u]]
    <3>1. PICK h : h = [u \in User |->
                     LET own == { s \in FirstFresh .. maxSeq : Sender[s] = u } IN
                     IF own = {} THEN hasRead[u] ELSE CHOOSE s \in own : \A t \in own : t <= s]
      OBVIOUS
    <3>2. h = [u \in User |-> h[u]] /\ hasRead' = h
      BY <3>1 DEF SenderHasRead
    <3>3. QED  BY <3>2
  <2>2. QED  BY <1>3, <2>1
<1>5. StoreType'
  <2>1. fresh' \in [pc : {"idle", "cached", "numbered", "marked"}, n : Nat]
    BY <1>2
  <2>2. QED  BY <1>4, <2>1 DEF BaseInv, StoreType, SenderHasRead, mongoVars, callVars
<1>6. FeedInv'
  <2>1. fresh'.pc = "marked" /\ fresh'.n = n
    BY <1>2
  <2>2. QED  BY <1>2, <2>1 DEF FeedInv, BaseInv, Batch, SenderHasRead
<1>7. SlotInv' /\ LimitsInRange'
  BY <1>3 DEF BaseInv, SlotInv, LimitsInRange, SenderHasRead, mongoVars
<1>8. QED  BY <1>0, <1>2, <1>5, <1>6, <1>7, FeedBase DEF SenderHasRead

LEMMA QueueBatchBase ==
  ASSUME BaseInv, QueueBatch
  PROVE  BaseInv'
<1>0. /\ maxSeq \in Nat /\ fresh.n \in Nat /\ fresh.n <= maxSeq /\ fresh.n >= 1 /\ MaxMsgs \in Nat
      /\ maxSeq <= MaxMsgs
  BY ConstantsAssumption DEF BaseInv, StoreType, QueueBatch, FeedInv
<1>1. PICK b : b = [first |-> FirstFresh, last |-> maxSeq]
  OBVIOUS
<1>2. b \in BatchSet /\ b.first <= b.last /\ b.last = maxSeq
  BY <1>0, <1>1 DEF BatchSet, Seqs, FirstFresh
<1>3. queue \in Seq(BatchSet) /\ queue' = Append(queue, b) /\ qpos \in Nat
  BY <1>1 DEF BaseInv, StoreType, QueueBatch
<1>4. /\ queue' \in Seq(BatchSet) /\ Len(queue') = Len(queue) + 1 /\ Len(queue) \in Nat
      /\ queue'[Len(queue) + 1] = b
      /\ \A q \in 1 .. Len(queue) : queue'[q] = queue[q]
  BY <1>2, <1>3
<1>5. StoreType'
  <2>1. fresh' \in [pc : {"idle", "cached", "numbered", "marked"}, n : Nat]
    BY DEF QueueBatch
  <2>2. QED  BY <1>4, <2>1 DEF BaseInv, StoreType, QueueBatch, redisVars, mongoVars, callVars
<1>6. FeedInv'
  <2>1. fresh'.pc = "idle" /\ maxSeq' = maxSeq /\ qpos' = qpos /\ mc' = mc /\ blk' = blk
    BY DEF QueueBatch, redisVars
  <2>2. ASSUME NEW q \in 1 .. Len(queue')
        PROVE  queue'[q].first <= queue'[q].last /\ queue'[q].last <= maxSeq'
    <3>1. CASE q \in 1 .. Len(queue)
      BY <1>4, <2>1, <3>1 DEF BaseInv, FeedInv
    <3>2. CASE q = Len(queue) + 1
      BY <1>0, <1>2, <1>4, <2>1, <3>2
    <3>3. QED  BY <1>4, <3>1, <3>2
  <2>3. qpos <= Len(queue) /\ (mc # "idle" => qpos < Len(queue))
    BY DEF BaseInv, FeedInv
  <2>4. mc # "idle" => Batch' = Batch
    BY <1>3, <1>4, <2>1, <2>3 DEF Batch
  <2>5. QED  BY <1>3, <1>4, <2>1, <2>2, <2>3, <2>4 DEF BaseInv, FeedInv
<1>7. SlotInv' /\ LimitsInRange' /\ maxSeq' = maxSeq
  BY DEF BaseInv, SlotInv, LimitsInRange, QueueBatch, redisVars, mongoVars
<1>8. QED  BY <1>0, <1>5, <1>6, <1>7, FeedBase DEF QueueBatch

\* The Mongo consumer.
LEMMA BatchSeqs ==
  ASSUME BaseInv, qpos < Len(queue)
  PROVE  Batch.first \in Seqs /\ Batch.last \in Seqs /\ Batch.first <= Batch.last /\ Batch.last <= maxSeq
<1>1. qpos \in Nat /\ queue \in Seq(BatchSet)
  BY DEF BaseInv, StoreType
<1>2. qpos + 1 \in 1 .. Len(queue)
  BY <1>1
<1>3. Batch \in BatchSet
  BY <1>1, <1>2 DEF Batch
<1>4. QED  BY <1>2, <1>3 DEF BatchSet, BaseInv, FeedInv, Batch

LEMMA ConsumeBatchBase ==
  ASSUME BaseInv, ConsumeBatch
  PROVE  BaseInv'
<1>0. qpos < Len(queue) /\ mc' = "insert" /\ queue' = queue /\ qpos' = qpos
      /\ blk \in [Call \cup {Consumer} -> BlockSet] /\ maxSeq \in Nat
  BY DEF ConsumeBatch, BaseInv, StoreType
<1>1. Batch.first \in Seqs /\ Batch.last \in Seqs /\ Batch.first <= Batch.last
  BY <1>0, BatchSeqs
<1>2. PICK b : b = [i |-> Batch.first, last |-> Batch.last, try |-> TRUE]
  OBVIOUS
<1>3. b \in BlockSet /\ b.i = Batch.first /\ b.last = Batch.last
  BY <1>1, <1>2 DEF BlockSet, Seqs
<1>4. blk' = [blk EXCEPT ![Consumer] = b]
  BY <1>2 DEF ConsumeBatch
<1>5. /\ blk' \in [Call \cup {Consumer} -> BlockSet] /\ blk'[Consumer] = b
      /\ \A j \in Call : blk'[j] = blk[j]
  BY <1>0, <1>3, <1>4, ConstantsAssumption
<1>6. StoreType'
  BY <1>0, <1>5 DEF BaseInv, StoreType, ConsumeBatch, redisVars, mongoVars, callVars
<1>7. FeedInv'
  <2>1. Batch' = Batch
    BY <1>0 DEF Batch
  <2>2. Batch.first \in Batch.first .. Batch.last
    BY <1>1 DEF Seqs
  <2>3. fresh' = fresh /\ maxSeq' = maxSeq
    BY DEF ConsumeBatch, redisVars
  <2>4. QED  BY <1>0, <1>3, <1>5, <2>1, <2>2, <2>3 DEF FeedInv, BaseInv
<1>8. SlotInv' /\ LimitsInRange' /\ maxSeq' = maxSeq
  BY DEF BaseInv, SlotInv, LimitsInRange, ConsumeBatch, redisVars, mongoVars
<1>9. QED  BY <1>0, <1>5, <1>6, <1>7, <1>8, FeedBase DEF ConsumeBatch

\* BatchInsertBlock of the consumer.
LEMMA ConsumerBlockBase ==
  ASSUME BaseInv, BlockUpdate(Consumer) \/ BlockCreate(Consumer)
  PROVE  BaseInv'
<1>0. /\ Consumer \in Call \cup {Consumer}
      /\ \A k \in Call : k # Consumer
  BY ConstantsAssumption
<1>1. /\ slot' \in [Docs -> [Index -> SlotSet]] /\ SlotInv' /\ docs' \subseteq Docs /\ Writing(Consumer)
      /\ UNCHANGED <<op, redisVars, queue, qpos, fresh, left, users, redelivered, view, todo, num>>
  BY <1>0, BlockWrites
<1>2. PICK b : BlockDoes(Consumer, b)
  BY <1>0, BlockWrites
<1>3. /\ mc = "insert" /\ blk[Consumer].last = Batch.last /\ blk[Consumer].i \in Batch.first .. Batch.last
      /\ Batch.first \in Nat /\ Batch.last \in Nat
  BY <1>0, <1>1, BlockRange DEF Seqs
<1>4. /\ b \in BlockSet /\ b.last = Batch.last /\ b.i \in blk[Consumer].i .. Batch.last + 1
      /\ AfterBlock(Consumer, b)
  BY <1>2, <1>3 DEF BlockDoes
<1>5. /\ blk' = [blk EXCEPT ![Consumer] = b] /\ UNCHANGED <<pc, hist>>
      /\ mc' = (IF b.i > b.last THEN "cache" ELSE "insert")
  BY <1>4 DEF AfterBlock
<1>6. /\ blk' \in [Call \cup {Consumer} -> BlockSet] /\ blk'[Consumer] = b
      /\ \A j \in Call : blk'[j] = blk[j]
  <2>1. blk \in [Call \cup {Consumer} -> BlockSet]
    BY DEF BaseInv, StoreType
  <2>2. QED  BY <1>0, <1>4, <1>5, <2>1
<1>7. StoreType'
  BY <1>1, <1>5, <1>6 DEF BaseInv, StoreType, redisVars
<1>8. FeedInv'
  <2>1. queue' = queue /\ qpos' = qpos /\ fresh' = fresh /\ maxSeq' = maxSeq /\ Batch' = Batch
    BY <1>1 DEF redisVars, Batch
  <2>2. qpos < Len(queue)
    BY <1>3 DEF BaseInv, FeedInv
  <2>3. mc' = "insert" => b.i \in Batch.first .. Batch.last
    BY <1>3, <1>4, <1>5
  <2>4. QED  BY <1>4, <1>6, <2>1, <2>2, <2>3 DEF FeedInv, BaseInv
<1>9. LimitsInRange' /\ maxSeq' = maxSeq /\ maxSeq \in Nat
  BY <1>1 DEF BaseInv, LimitsInRange, redisVars, StoreType
<1>10. UNCHANGED callVars
  BY <1>1, <1>5 DEF callVars
<1>11. QED  BY <1>1, <1>6, <1>7, <1>8, <1>9, <1>10, FeedBase

LEMMA DropFromCacheBase ==
  ASSUME BaseInv, DropFromCache
  PROVE  BaseInv'
<1>1. StoreType' /\ maxSeq \in Nat
  BY DEF BaseInv, StoreType, DropFromCache, mongoVars, callVars
<1>2. FeedInv'
  BY DEF BaseInv, FeedInv, DropFromCache, Batch
<1>3. SlotInv' /\ LimitsInRange' /\ maxSeq' = maxSeq
  BY DEF BaseInv, SlotInv, LimitsInRange, DropFromCache, mongoVars
<1>4. QED  BY <1>1, <1>2, <1>3, FeedBase DEF DropFromCache

LEMMA ReadDelListBase ==
  ASSUME BaseInv, ReadDelList
  PROVE  BaseInv'
<1>1. StoreType' /\ maxSeq \in Nat
  BY DEF BaseInv, StoreType, ReadDelList, redisVars, mongoVars, callVars
<1>2. FeedInv'
  BY DEF BaseInv, FeedInv, ReadDelList, Batch, redisVars
<1>3. SlotInv' /\ LimitsInRange' /\ maxSeq' = maxSeq
  BY DEF BaseInv, SlotInv, LimitsInRange, ReadDelList, redisVars, mongoVars
<1>4. QED  BY <1>1, <1>2, <1>3, FeedBase DEF ReadDelList

LEMMA ClearDelListBase ==
  ASSUME BaseInv, ClearDelList
  PROVE  BaseInv'
<1>1. StoreType' /\ maxSeq \in Nat
  BY DEF BaseInv, StoreType, ClearDelList, mongoVars, callVars
<1>2. FeedInv'
  BY DEF BaseInv, FeedInv, ClearDelList, Batch
<1>3. SlotInv' /\ LimitsInRange' /\ maxSeq' = maxSeq
  BY DEF BaseInv, SlotInv, LimitsInRange, ClearDelList, mongoVars
<1>4. QED  BY <1>1, <1>2, <1>3, FeedBase DEF ClearDelList

LEMMA BatchDoneBase ==
  ASSUME BaseInv, BatchDone
  PROVE  BaseInv'
<1>1. StoreType' /\ maxSeq \in Nat /\ qpos \in Nat /\ queue \in Seq(BatchSet)
  BY DEF BaseInv, StoreType, BatchDone, redisVars, mongoVars, callVars
<1>2. qpos < Len(queue) /\ Len(queue) \in Nat /\ mc' = "idle" /\ qpos' = qpos + 1 /\ queue' = queue
      /\ maxSeq' = maxSeq /\ fresh' = fresh
  BY <1>1 DEF BaseInv, FeedInv, BatchDone, redisVars
<1>3. FeedInv'
  BY <1>1, <1>2 DEF BaseInv, FeedInv
<1>4. SlotInv' /\ LimitsInRange' /\ maxSeq' = maxSeq
  BY DEF BaseInv, SlotInv, LimitsInRange, BatchDone, redisVars, mongoVars
<1>5. QED  BY <1>1, <1>3, <1>4, FeedBase DEF BatchDone

LEMMA RedeliverBase ==
  ASSUME BaseInv, NEW q \in 0 .. qpos, Redeliver(q)
  PROVE  BaseInv'
<1>0. NoBlock \in BlockSet /\ blk \in [Call \cup {Consumer} -> BlockSet] /\ Consumer \notin Call
  BY ConstantsAssumption DEF NoBlock, BlockSet, BaseInv, StoreType
<1>1. blk' \in [Call \cup {Consumer} -> BlockSet] /\ \A j \in Call : blk'[j] = blk[j]
  BY <1>0 DEF Redeliver
<1>2. qpos \in Nat /\ qpos' = q /\ q \in Nat /\ q <= qpos /\ queue \in Seq(BatchSet)
  BY DEF BaseInv, StoreType, Redeliver
<1>3. StoreType' /\ maxSeq \in Nat
  BY <1>1, <1>2 DEF BaseInv, StoreType, Redeliver, redisVars, mongoVars, callVars
<1>4. FeedInv'
  <2>1. qpos <= Len(queue) /\ Len(queue) \in Nat
    BY <1>2 DEF BaseInv, FeedInv
  <2>2. q <= Len(queue)
    BY <1>2, <2>1
  <2>3. mc' = "idle" /\ queue' = queue /\ fresh' = fresh /\ maxSeq' = maxSeq
    BY DEF Redeliver, redisVars
  <2>4. QED  BY <1>2, <2>2, <2>3 DEF BaseInv, FeedInv
<1>5. SlotInv' /\ LimitsInRange' /\ maxSeq' = maxSeq
  BY DEF BaseInv, SlotInv, LimitsInRange, Redeliver, redisVars, mongoVars
<1>6. QED  BY <1>1, <1>3, <1>4, <1>5, FeedBase DEF Redeliver

-----------------------------------------------------------------------------
(* The first part of the invariant holds.                                  *)

LEMMA InitBase == Init => BaseInv
<1> SUFFICES ASSUME Init PROVE BaseInv
  OBVIOUS
<1>0. MaxMsgs \in Nat /\ DocSize \in Nat \ {0} /\ Consumer \notin Call
  BY ConstantsAssumption
<1>1. EmptySlot \in SlotSet /\ NoView \in ViewSet /\ NoBlock \in BlockSet
  BY DEF EmptySlot, SlotSet, NoView, ViewSet, NoBlock, BlockSet
<1>2. StoreType
  <2>1. slot \in [Docs -> [Index -> SlotSet]] /\ view \in [Call -> ViewSet]
        /\ blk \in [Call \cup {Consumer} -> BlockSet]
    BY <1>1 DEF Init
  <2>2. hist \in [Call -> HistSet] /\ pc \in [Call -> Place] /\ todo \in [Call -> SUBSET Nat]
    BY DEF Init, HistSet, Place
  <2>3. /\ fresh \in [pc : {"idle", "cached", "numbered", "marked"}, n : Nat]
        /\ queue \in Seq(BatchSet) /\ qpos \in Nat
    BY DEF Init
  <2>4. QED  BY <1>0, <2>1, <2>2, <2>3 DEF Init, StoreType
<1>3. ASSUME NEW k \in Call PROVE CallInvOf(k)
  <2>1. pc[k] = "start" /\ view[k] = NoView /\ todo[k] = {} /\ Kind(k) \in Kinds
    BY <1>2, Requests DEF Init
  <2>2. PlaceInv(k) /\ ReadInv(k) /\ MarkInv(k) /\ DeleteInv(k)
    BY <2>1 DEF PlaceInv, ReadInv, MarkInv, DeleteInv
  <2>3. PurgeInv(k)
    <3>1. Kind(k) = "purge" => op[k].upTo \in 0 .. MaxMsgs
      BY <1>2, Requests
    <3>2. view[k].end = 0
      BY <2>1 DEF NoView
    <3>3. QED  BY <1>0, <2>1, <3>1, <3>2 DEF PurgeInv
  <2>4. DestructInv(k)
    BY <2>1 DEF DestructInv
  <2>5. QED  BY <2>2, <2>3, <2>4 DEF CallInvOf
<1>4. FeedInv
  BY DEF Init, FeedInv
<1>5. SlotInv
  BY DEF Init, SlotInv, EmptySlot
<1>6. LimitsInRange
  BY DEF Init, LimitsInRange
<1>7. QED  BY <1>2, <1>3, <1>4, <1>5, <1>6 DEF BaseInv, CallInv

\* Every step keeps it.
LEMMA ReadBase ==
  ASSUME BaseInv, NEW k \in Call, Read(k)
  PROVE  BaseInv'
BY GetUserMinSeqBase, GetMinSeqBase, GetMaxSeqBase, ReadCacheBase, DropDeletedBase, ReadAgainBase,
   ReadDocBase, HandleMsgBase, ReadQuotedBase, RewriteQuoteBase, ReadEndsBase DEF Read

LEMMA DeleteBase ==
  ASSUME BaseInv, NEW k \in Call, Delete(k)
  PROVE  BaseInv'
BY FindCachedBase, AddUserBase, AddSeqBase, ListsWrittenBase, PushDelListBase,
   DropDeletedFromCacheBase, RemoveMsgsBase DEF Delete

LEMMA CronBase ==
  ASSUME BaseInv, NEW k \in Call, Cron(k)
  PROVE  BaseInv'
BY PurgeStartsBase, PurgeExpiredBase, PurgeDocsBase, PurgeCacheBase, PurgeSetsMinBase, PurgeDocBase,
   DestructDocBase, DestructNoDocBase, DestructGetMinBase, DestructSetMinBase DEF Cron

LEMMA MarkBase ==
  ASSUME BaseInv, NEW k \in Call, Mark(k)
  PROVE  BaseInv'
BY ClearGetMaxBase, ClearSetMinBase, MarkCheckMaxBase, MarkGetReadBase, MarkedAllBase,
   SetHasReadBase, MarkDocBase DEF Mark

LEMMA NumberingBase ==
  ASSUME BaseInv, Numbering
  PROVE  BaseInv'
BY CacheBatchBase, NumberBatchBase, SenderHasReadBase, QueueBatchBase DEF Numbering

LEMMA InsertBase ==
  ASSUME BaseInv, Insert
  PROVE  BaseInv'
BY ConsumeBatchBase, ConsumerBlockBase, DropFromCacheBase, ReadDelListBase, ClearDelListBase,
   BatchDoneBase DEF Insert

LEMMA BaseNext == BaseInv /\ [Next]_vars => BaseInv'
<1> SUFFICES ASSUME BaseInv, [Next]_vars PROVE BaseInv'
  OBVIOUS
<1>1. CASE Numbering
  BY <1>1, NumberingBase
<1>2. CASE Insert
  BY <1>2, InsertBase
<1>3. CASE \E q \in 0 .. qpos : Redeliver(q)
  BY <1>3, RedeliverBase
<1>4. ASSUME NEW k \in Call, Run(k) PROVE BaseInv'
  BY <1>4, ReadBase, DeleteBase, CronBase, MarkBase, RevokeBlockBase DEF Run
<1>5. CASE UNCHANGED vars
  <2>1. /\ UNCHANGED <<maxSeq, minSeq, userMin, hasRead, cache, queue, qpos, docs, slot, fresh, mc>>
        /\ UNCHANGED <<blk, op, pc, view, todo, num, hist>>
    BY <1>5 DEF vars, redisVars, mongoVars, feedVars, callVars
  <2>2. StoreType'
    BY <2>1 DEF BaseInv, StoreType
  <2>3. FeedInv'
    BY <2>1 DEF BaseInv, FeedInv, Batch
  <2>4. SlotInv' /\ LimitsInRange' /\ maxSeq' = maxSeq /\ maxSeq \in Nat
    BY <2>1 DEF BaseInv, SlotInv, LimitsInRange, StoreType
  <2>5. QED  BY <2>1, <2>2, <2>3, <2>4, FeedBase DEF callVars
<1>6. QED  BY <1>1, <1>2, <1>3, <1>4, <1>5 DEF Next

\* Spec => []BaseInv.
THEOREM BaseInvariant == Spec => []BaseInv
<1>1. QED  BY InitBase, BaseNext, PTL DEF Spec

\* LimitsInRange: neither MIN_SEQ, a user's lower limit nor a read position ever runs
\* ahead of MAX_SEQ, for any number of clears, marks, purges and batches.
THEOREM LimitsInRangeHolds == Spec => []LimitsInRange
<1>1. BaseInv => LimitsInRange
  BY DEF BaseInv
<1>2. QED  BY <1>1, BaseInvariant, PTL

-----------------------------------------------------------------------------
(* Nothing is lost, and what was written stays.                            *)

\* Calls only go forward.
Forward == op' = op /\ \A j \in Call : pc[j] # "start" => pc'[j] # "start"

LEMMA CoveredStays ==
  ASSUME Forward, NEW s, Covered(s)
  PROVE  Covered(s)'
<1>1. PICK j \in Call : Begun(j) /\ Covers(j, s)
  BY DEF Covered
<1>2. Begun(j)' /\ Covers(j, s)'
  BY <1>1 DEF Forward, Begun, Covers, Kind
<1>3. QED  BY <1>2 DEF Covered

\* A stored message stays stored.
LEMMA StoredStays ==
  ASSUME Forward, SlotsGrow, NEW s \in Seqs, Stored(s) \/ Covered(s)
  PROVE  Stored(s)' \/ Covered(s)'
<1>1. CASE Covered(s)
  BY <1>1, CoveredStays
<1>2. CASE Stored(s) /\ ~Covered(s)'
  BY <1>2 DEF Stored, SlotsGrow
<1>3. QED  BY <1>1, <1>2

LEMMA DelListStays ==
  ASSUME Forward, SlotsGrow, KeepInv, NEW s \in Seqs
  PROVE  SlotOf(s)'.hasDel \/ Covered(s)'
<1>1. CASE Covered(s)
  BY <1>1, CoveredStays
<1>2. CASE ~Covered(s) /\ ~Covered(s)'
  BY <1>2 DEF KeepInv, SlotsGrow
<1>3. QED  BY <1>1, <1>2

\* The read marks of a call stay.
LEMMA MarksStay ==
  ASSUME BaseInv, WrittenInv, Forward, SlotsGrow, NEW j \in Call, view'[j].seqs = view[j].seqs
  PROVE  MarkKept(j)'
<1>0. op' = op /\ Kind(j)' = Kind(j) /\ MarkKept(j) /\ view[j] \in ViewSet
  BY CallFacts DEF Forward, Kind, WrittenInv
<1>1. SUFFICES ASSUME Kind(j) \in {"markMsgs", "markConv"}, NEW s \in view[j].seqs
               PROVE  \/ DocOf(s) \in docs' /\ (SlotOf(s)'.isRead \/ Sender[s] = op[j].user)
                      \/ Covered(s)'
  BY <1>0 DEF MarkKept
<1>2. s \in Seqs
  BY <1>0 DEF ViewSet
<1>3. (DocOf(s) \in docs /\ (SlotOf(s).isRead \/ Sender[s] = op[j].user)) \/ Covered(s)
  BY <1>0, <1>1 DEF MarkKept
<1>4. CASE Covered(s)
  BY <1>4, CoveredStays
<1>5. CASE DocOf(s) \in docs /\ (SlotOf(s).isRead \/ Sender[s] = op[j].user) /\ ~Covered(s)'
  BY <1>2, <1>5 DEF SlotsGrow
<1>6. QED  BY <1>3, <1>4, <1>5

\* The deletions of a call stay.
LEMMA DeletesStay ==
  ASSUME BaseInv, WrittenInv, Forward, SlotsGrow, NEW j \in Call, Kind(j) = "deleteSelf",
         pc[j] # "start", \A s \in cache' : s \in cache \/ s > maxSeq, NEW s \in Uncached(j)
  PROVE  /\ s \in Seqs /\ s <= maxSeq /\ s \notin cache /\ s \notin cache'
         /\ Pushed(j, s) => (DocOf(s) \in docs' /\ op[j].user \in SlotOf(s)'.del) \/ Covered(s)'
<1>0. StoreType /\ DeleteKept(j) /\ DeleteInv(j) /\ maxSeq \in Nat
  BY CallFacts DEF WrittenInv
<1>1. s \in Seqs /\ s <= maxSeq /\ s \notin cache /\ s \in Int
  <2>1. s \in op[j].seqs /\ op[j].seqs \subseteq Seqs
    BY <1>0, Requests DEF Uncached
  <2>2. QED  BY <1>0, <2>1 DEF DeleteInv, DeleteKept, Seqs
<1>2. s \notin cache'
  BY <1>0, <1>1
<1>3. ASSUME Pushed(j, s)
      PROVE  (DocOf(s) \in docs' /\ op[j].user \in SlotOf(s)'.del) \/ Covered(s)'
  <2>1. (DocOf(s) \in docs /\ op[j].user \in SlotOf(s).del) \/ Covered(s)
    BY <1>0, <1>3 DEF DeleteKept
  <2>2. CASE Covered(s)
    BY <2>2, CoveredStays
  <2>3. CASE DocOf(s) \in docs /\ op[j].user \in SlotOf(s).del /\ ~Covered(s)'
    BY <1>1, <2>3 DEF SlotsGrow
  <2>4. QED  BY <2>1, <2>2, <2>3
<1>4. QED  BY <1>1, <1>2, <1>3

\* What a call has written stays when the call does not move.
LEMMA KeptStays ==
  ASSUME BaseInv, WrittenInv, Forward, SlotsGrow, NEW j \in Call,
         \A s \in cache' : s \in cache \/ s > maxSeq,
         pc'[j] = pc[j], view'[j] = view[j], todo'[j] = todo[j]
  PROVE  RevokeKept(j)' /\ MarkKept(j)' /\ DeleteKept(j)'
<1>0. /\ op' = op /\ Kind(j)' = Kind(j) /\ StoreType /\ RevokeKept(j) /\ MarkKept(j) /\ DeleteKept(j)
      /\ view[j] \in ViewSet /\ DeleteInv(j) /\ maxSeq \in Nat
  BY CallFacts DEF Forward, Kind, WrittenInv
<1>1. RevokeKept(j)'
  <2>1. SUFFICES ASSUME Kind(j) = "revoke", pc[j] = "done", NEW s \in Seqs, s = op[j].end
                 PROVE  (DocOf(s) \in docs' /\ SlotOf(s)'.revoke) \/ Covered(s)'
    BY <1>0 DEF RevokeKept
  <2>2. (DocOf(s) \in docs /\ SlotOf(s).revoke) \/ Covered(s)
    BY <1>0, <2>1 DEF RevokeKept
  <2>3. CASE Covered(s)
    BY <2>3, CoveredStays
  <2>4. CASE DocOf(s) \in docs /\ SlotOf(s).revoke /\ ~Covered(s)'
    BY <2>4 DEF SlotsGrow
  <2>5. QED  BY <2>2, <2>3, <2>4
<1>2. MarkKept(j)'
  BY MarksStay
<1>3. DeleteKept(j)'
  <2>1. SUFFICES ASSUME Kind(j) = "deleteSelf", pc[j] # "start", NEW s \in Uncached(j)
                 PROVE  /\ s \notin cache'
                        /\ Pushed(j, s) => \/ DocOf(s) \in docs' /\ op[j].user \in SlotOf(s)'.del
                                           \/ Covered(s)'
    BY <1>0 DEF DeleteKept, Uncached, Pushed
  <2>2. QED  BY <2>1, DeletesStay
<1>4. QED  BY <1>1, <1>2, <1>3

\* A call that has ended does not move.
LEMMA AgreeStays ==
  ASSUME Forward, NEW j \in Call, NEW k \in Call, NEW e, AgreesWith(j, k, e),
         pc'[j] = pc[j], view'[j] = view[j]
  PROVE  AgreesWith(j, k, e)'
<1>1. op' = op /\ Kind(j)' = Kind(j) /\ Uncached(j)' = Uncached(j)
  BY DEF Forward, Kind, Uncached
<1>2. Covered(e.seq) => Covered(e.seq)'
  BY CoveredStays
<1>3. QED  BY <1>1, <1>2 DEF AgreesWith

\* A step of one call: it begins or goes on, and what it takes out of the cache it
\* takes away from everyone.
CallStep(k) ==
    /\ op' = op
    /\ pc[k] \notin Final /\ pc'[k] # "start"
    /\ hist'[k].before = IF pc[k] = "start" THEN { j \in Call : Ended(j) } ELSE hist[k].before
    /\ \A j \in Call : j # k => /\ pc'[j] = pc[j] /\ view'[j] = view[j] /\ todo'[j] = todo[j]
                                /\ hist'[j] = hist[j]
    /\ UNCHANGED <<maxSeq, fresh, mc, queue, qpos>> /\ blk'[Consumer] = blk[Consumer]
    /\ cache' \subseteq cache /\ \A s \in cache : s \in cache' \/ Covered(s)'
    /\ SlotsGrow

\* What the step of a call has to show of the call itself.
OwnKept(k) == RevokeKept(k) /\ MarkKept(k) /\ DeleteKept(k)
OwnShown(k) ==
    Kind(k) \in ReadKinds =>
        \A j \in hist[k].before : \A e \in view[k].page \cup view[k].got : AgreesWith(j, k, e)

LEMMA CallKeep ==
  ASSUME StoreInv, BaseInv', NEW k \in Call, CallStep(k)
  PROVE  KeepInv' /\ Forward
<1>0. /\ BaseInv /\ KeepInv /\ SlotsGrow /\ maxSeq' = maxSeq /\ fresh' = fresh /\ mc' = mc /\ Batch' = Batch
      /\ blk'[Consumer] = blk[Consumer] /\ queue' = queue /\ qpos' = qpos
      /\ maxSeq \in 0 .. MaxMsgs /\ MaxMsgs \in Nat /\ fresh.n \in Nat
  BY ConstantsAssumption DEF StoreInv, CallStep, Batch, BaseInv, StoreType
<1>1. Forward
  BY DEF CallStep, Forward
<1>2. \A s \in Seqs : SlotOf(s)'.hasDel \/ Covered(s)'
  BY <1>0, <1>1, DelListStays
<1>3. ASSUME NEW s \in Seqs, s \in cache \/ Covered(s) PROVE s \in cache' \/ Covered(s)'
  BY <1>1, <1>3, CoveredStays DEF CallStep
<1>4. ASSUME NEW s \in Seqs, Stored(s) \/ Covered(s) PROVE Stored(s)' \/ Covered(s)'
  BY <1>0, <1>1, <1>4, StoredStays
<1>5. \A s \in 1 .. maxSeq : s \in cache' \/ Stored(s)' \/ Covered(s)'
  <2>1. 1 .. maxSeq \subseteq Seqs
    BY <1>0 DEF Seqs
  <2>2. QED  BY <1>0, <1>3, <1>4, <2>1 DEF KeepInv
<1>6. fresh.pc = "cached" => \A s \in maxSeq + 1 .. maxSeq + fresh.n : s \in cache' \/ Covered(s)'
  <2>1. fresh.pc = "cached" => maxSeq + 1 .. maxSeq + fresh.n \subseteq Seqs
    BY <1>0 DEF Seqs, BaseInv, FeedInv
  <2>2. QED  BY <1>0, <1>3, <2>1 DEF KeepInv
<1>7. /\ mc = "insert" => \A s \in Batch.first .. blk[Consumer].i - 1 : Stored(s)' \/ Covered(s)'
      /\ mc = "cache" => \A s \in Batch.first .. Batch.last : Stored(s)' \/ Covered(s)'
  <2>1. mc # "idle" => Batch.first \in Seqs /\ Batch.last \in Seqs
    BY <1>0, BatchSeqs DEF BaseInv, FeedInv
  <2>2. mc = "insert" => blk[Consumer].i \in Batch.first .. Batch.last
    BY <1>0 DEF BaseInv, FeedInv
  <2>3. /\ mc = "insert" => Batch.first .. blk[Consumer].i - 1 \subseteq Seqs
        /\ mc = "cache" => Batch.first .. Batch.last \subseteq Seqs
    BY <1>0, <2>1, <2>2 DEF Seqs
  <2>4. QED  BY <1>0, <1>4, <2>3 DEF KeepInv
<1>8. KeepInv'
  BY <1>0, <1>2, <1>5, <1>6, <1>7 DEF KeepInv
<1>9. QED  BY <1>1, <1>8

LEMMA CallKeeps ==
  ASSUME StoreInv, BaseInv', NEW k \in Call, CallStep(k), OwnKept(k)', OwnShown(k)'
  PROVE  StoreInv'
<1>0. BaseInv /\ WrittenInv /\ ShownInv /\ SlotsGrow /\ KeepInv' /\ Forward /\ op' = op
  BY CallKeep DEF StoreInv, CallStep
<1>1. ASSUME NEW j \in Call, j # k PROVE OwnKept(j)'
  <2>1. pc'[j] = pc[j] /\ view'[j] = view[j] /\ todo'[j] = todo[j] /\ cache' \subseteq cache
    BY <1>1 DEF CallStep
  <2>2. QED  BY <1>0, <2>1, KeptStays DEF OwnKept
<1>2. WrittenInv'
  BY <1>1 DEF WrittenInv, OwnKept
<1>3. ASSUME NEW j \in Call, pc[j] \in Final PROVE j # k /\ pc'[j] = pc[j] /\ view'[j] = view[j]
  BY <1>3 DEF CallStep
<1>4. ASSUME NEW i \in Call
      PROVE  /\ \A j \in hist'[i].before : Ended(j)'
             /\ Kind(i)' \in ReadKinds =>
                  \A j \in hist'[i].before : \A e \in view'[i].page \cup view'[i].got : AgreesWith(j, i, e)'
  <2>0. hist[i].before \subseteq Call /\ \A j \in hist[i].before : j \in Call /\ Ended(j)
    <3>1. hist[i] \in HistSet
      BY <1>0 DEF BaseInv, StoreType
    <3>2. QED  BY <1>0, <3>1 DEF HistSet, ShownInv
  <2>1. CASE i = k
    <3>1. \A j \in hist'[i].before : j \in Call /\ Ended(j)
      BY <2>0, <2>1 DEF CallStep
    <3>2. \A j \in hist'[i].before : Ended(j)'
      BY <1>3, <3>1 DEF Ended
    <3>3. QED  BY <2>1, <3>2 DEF OwnShown
  <2>2. CASE i # k
    <3>1. hist'[i] = hist[i] /\ view'[i] = view[i] /\ Kind(i)' = Kind(i)
      BY <2>2 DEF CallStep, Kind
    <3>2. \A j \in hist'[i].before : Ended(j)'
      BY <1>3, <2>0, <3>1 DEF Ended
    <3>3. ASSUME Kind(i) \in ReadKinds, NEW j \in hist[i].before, NEW e \in view[i].page \cup view[i].got
          PROVE  AgreesWith(j, i, e)'
      <4>1. j \in Call /\ pc'[j] = pc[j] /\ view'[j] = view[j]
        BY <1>3, <2>0 DEF Ended
      <4>2. AgreesWith(j, i, e)
        BY <1>0, <3>3 DEF ShownInv
      <4>3. QED  BY <1>0, <4>1, <4>2, AgreeStays
    <3>4. QED  BY <3>1, <3>2, <3>3
  <2>3. QED  BY <2>1, <2>2
<1>5. ShownInv'
  BY <1>4 DEF ShownInv
<1>6. QED  BY <1>0, <1>2, <1>5 DEF StoreInv

LEMMA GoHistory ==
  ASSUME StoreType, NEW k \in Call, NEW l, Go(k, l)
  PROVE  /\ hist'[k].before = IF pc[k] = "start" THEN { j \in Call : Ended(j) } ELSE hist[k].before
         /\ \A j \in Call : j # k => hist'[j] = hist[j]
<1>1. hist \in [Call -> HistSet]
  BY DEF StoreType
<1>2. PICK b, d : /\ b = IF pc[k] = "start" THEN { j \in Call : Ended(j) } ELSE hist[k].before
                  /\ d = IF l \in Final THEN { j \in Call : pc[j] # "start" } ELSE hist[k].during
  OBVIOUS
<1>3. hist' = [hist EXCEPT ![k].before = b, ![k].during = d]
  BY <1>1, <1>2 DEF Go, HistSet
<1>4. PICK h : h = [hist[k] EXCEPT !.before = b, !.during = d]
  OBVIOUS
<1>5. h.before = b
  BY <1>1, <1>4 DEF HistSet
<1>6. hist' = [hist EXCEPT ![k] = h]
  BY <1>1, <1>3, <1>4
<1>7. QED  BY <1>1, <1>2, <1>5, <1>6

\* The steps of a call are steps of one call.
LEMMA MoveStep ==
  ASSUME BaseInv, NEW k \in Call, NEW l \in Place \ {"start"}, Go(k, l), pc[k] \notin Final,
         op' = op, UNCHANGED <<maxSeq, feedVars>>, blk'[Consumer] = blk[Consumer],
         \A j \in Call : j # k => view'[j] = view[j] /\ todo'[j] = todo[j],
         cache' \subseteq cache, \A s \in cache : s \in cache' \/ Covered(s)', SlotsGrow
  PROVE  CallStep(k) /\ pc'[k] = l
<1>1. pc'[k] = l /\ \A j \in Call : j # k => pc'[j] = pc[j]
  BY GoMoves DEF BaseInv
<1>2. /\ hist'[k].before = IF pc[k] = "start" THEN { j \in Call : Ended(j) } ELSE hist[k].before
      /\ \A j \in Call : j # k => hist'[j] = hist[j]
  BY GoHistory DEF BaseInv
<1>3. UNCHANGED <<maxSeq, fresh, mc, queue, qpos>>
  BY DEF feedVars
<1>4. QED  BY <1>1, <1>2, <1>3 DEF CallStep

LEMMA StayStep ==
  ASSUME BaseInv, NEW k \in Call, UNCHANGED <<pc, hist>>, pc[k] \notin Final \cup {"start"},
         op' = op, UNCHANGED <<maxSeq, cache, feedVars>>, blk'[Consumer] = blk[Consumer],
         \A j \in Call : j # k => view'[j] = view[j] /\ todo'[j] = todo[j], SlotsGrow
  PROVE  CallStep(k)
<1>1. UNCHANGED <<maxSeq, fresh, mc, queue, qpos>>
  BY DEF feedVars
<1>2. QED  BY <1>1 DEF CallStep

LEMMA NoWrite ==
  ASSUME UNCHANGED mongoVars
  PROVE  SlotsGrow /\ NoneAdded
BY DEF SlotsGrow, NoneAdded, mongoVars, SlotOf

\* Of a read that is not a revoke about to end, and of a job or a clear, there is
\* nothing to show.
LEMMA NothingWritten ==
  ASSUME NEW k \in Call, Kind(k)' = Kind(k),
         Kind(k) \notin {"markMsgs", "markConv", "deleteSelf"},
         Kind(k) = "revoke" => pc'[k] # "done"
  PROVE  OwnKept(k)'
BY DEF OwnKept, RevokeKept, MarkKept, DeleteKept

LEMMA NothingRead ==
  ASSUME NEW k \in Call, Kind(k)' = Kind(k), Kind(k) \notin ReadKinds
  PROVE  OwnShown(k)'
BY DEF OwnShown

LEMMA MarkKeeps ==
  ASSUME StoreInv, BaseInv', NEW k \in Call, CallStep(k), Kind(k) \notin {"revoke", "deleteSelf"},
         view'[k].seqs = view[k].seqs
  PROVE  OwnKept(k)'
<1>1. BaseInv /\ WrittenInv /\ Forward /\ SlotsGrow /\ op' = op /\ Kind(k)' = Kind(k)
  BY CallKeep DEF StoreInv, CallStep, Kind
<1>2. MarkKept(k)'
  BY <1>1, MarksStay
<1>3. QED  BY <1>1, <1>2 DEF OwnKept, RevokeKept, DeleteKept

\* What a read takes from the cache was deleted by none of the calls before it.
LEMMA CachedAgrees ==
  ASSUME StoreInv, NEW k \in Call, NEW j \in hist[k].before, NEW s \in cache
  PROVE  AgreesWith(j, k, [seq |-> s, how |-> "cached"])
<1>1. j \in Call /\ DeleteKept(j)
  <2>1. hist[k] \in HistSet
    BY DEF StoreInv, BaseInv, StoreType
  <2>2. QED  BY <2>1 DEF HistSet, StoreInv, WrittenInv
<1>2. PICK e : e = [seq |-> s, how |-> "cached"]
  OBVIOUS
<1>3. e.seq = s /\ e.how = "cached"
  BY <1>2
<1>4. ~(Kind(j) = "deleteSelf" /\ pc[j] = "done" /\ s \in Uncached(j))
  BY <1>1 DEF DeleteKept
<1>5. AgreesWith(j, k, e)
  BY <1>3, <1>4 DEF AgreesWith
<1>6. QED  BY <1>2, <1>5

\* What a read takes out of a slot agrees with what the calls before it wrote there.
LEMMA ShownAgrees ==
  ASSUME StoreInv, NEW k \in Call, NEW j \in hist[k].before, NEW s \in Seqs,
         ~ReadSkips(op[k].user, s)
  PROVE  AgreesWith(j, k, Shown(s))
<1>1. j \in Call /\ DeleteKept(j) /\ RevokeKept(j) /\ BaseInv
  <2>1. hist[k] \in HistSet
    BY DEF StoreInv, BaseInv, StoreType
  <2>2. QED  BY <2>1 DEF HistSet, StoreInv, WrittenInv
<1>2. PICK e : e = Shown(s)
  OBVIOUS
<1>3. SlotOf(s).msg # 0 /\ op[k].user \notin SlotOf(s).del
  BY DEF ReadSkips
<1>4. e.seq = s /\ (SlotOf(s).revoke => e.how = "revoked")
  BY <1>1, <1>2, <1>3, ShownEntry
<1>5. ASSUME Kind(j) = "revoke", pc[j] = "done", s = op[j].end
      PROVE  e.how \in {"revoked", "cached"} \/ Covered(s)
  BY <1>1, <1>4, <1>5 DEF RevokeKept
<1>6. ASSUME Kind(j) = "deleteSelf", pc[j] = "done", op[j].user = op[k].user, s \in Uncached(j)
      PROVE  Covered(s)
  BY <1>1, <1>3, <1>6 DEF DeleteKept, Pushed
<1>7. AgreesWith(j, k, e)
  BY <1>4, <1>5, <1>6 DEF AgreesWith
<1>8. QED  BY <1>2, <1>7

\* The step of a read that has begun adds entries that agree.
LEMMA ReadShown ==
  ASSUME StoreInv, BaseInv', NEW k \in Call, CallStep(k), pc[k] # "start",
         \A e \in view'[k].page \cup view'[k].got :
             e \in view[k].page \cup view[k].got \/ \A j \in hist[k].before : AgreesWith(j, k, e)
  PROVE  OwnShown(k)'
<1>1. Kind(k)' = Kind(k) /\ Forward /\ hist'[k].before = hist[k].before
  BY CallKeep DEF CallStep, Kind
<1>2. ASSUME Kind(k) \in ReadKinds, NEW j \in hist[k].before, NEW e \in view'[k].page \cup view'[k].got
      PROVE  AgreesWith(j, k, e)'
  <2>1. j \in Call /\ Ended(j)
    <3>1. hist[k] \in HistSet
      BY DEF StoreInv, BaseInv, StoreType
    <3>2. QED  BY <3>1 DEF HistSet, StoreInv, ShownInv
  <2>2. pc'[j] = pc[j] /\ view'[j] = view[j]
    BY <2>1 DEF CallStep, Ended
  <2>3. AgreesWith(j, k, e)
    BY <1>2 DEF StoreInv, ShownInv
  <2>4. QED  BY <1>1, <2>1, <2>2, <2>3, AgreeStays
<1>3. QED  BY <1>1, <1>2 DEF OwnShown

LEMMA ReadKeeps ==
  ASSUME StoreInv, BaseInv', NEW k \in Call, CallStep(k), Kind(k) \in ReadKinds,
         pc[k] # "start", Kind(k) = "revoke" => pc'[k] # "done",
         \A e \in view'[k].page \cup view'[k].got :
             e \in view[k].page \cup view[k].got \/ \A j \in hist[k].before : AgreesWith(j, k, e)
  PROVE  StoreInv'
<1>1. Kind(k)' = Kind(k)
  BY DEF CallStep, Kind
<1>2. OwnKept(k)'
  BY <1>1, NothingWritten DEF ReadKinds
<1>3. OwnShown(k)'
  BY ReadShown
<1>4. QED  BY <1>2, <1>3, CallKeeps

\* Steps that write neither to Redis nor to MongoDB.
LEMMA QuietStep ==
  ASSUME BaseInv, NEW k \in Call, NEW l \in Place \ {"start"}, Go(k, l), pc[k] \notin Final,
         UNCHANGED <<op, redisVars, mongoVars, feedVars>>, blk'[Consumer] = blk[Consumer],
         \A j \in Call : j # k => view'[j] = view[j] /\ todo'[j] = todo[j]
  PROVE  CallStep(k) /\ pc'[k] = l
<1>1. op' = op /\ maxSeq' = maxSeq /\ cache' = cache
  BY DEF redisVars
<1>2. QED  BY <1>1, MoveStep, NoWrite

\* The reads.
LEMMA GetUserMinSeqKeeps ==
  ASSUME StoreInv, NEW k \in Readers, GetUserMinSeq(k)
  PROVE  StoreInv' /\ CallStep(k)
<1>0. BaseInv /\ BaseInv' /\ k \in Call /\ Kind(k) \in ReadKinds
  BY GetUserMinSeqBase DEF StoreInv, Readers, ReadKinds
<1>1. pc[k] = "start" /\ Go(k, "min") /\ "min" \in Place \ {"start"} /\ pc[k] \notin Final
  BY DEF GetUserMinSeq, Place, Final
<1>2. CallStep(k) /\ pc'[k] = "min"
  BY <1>0, <1>1, QuietStep DEF GetUserMinSeq
<1>3. Kind(k)' = Kind(k)
  BY DEF GetUserMinSeq, Kind
<1>4. OwnKept(k)'
  BY <1>0, <1>2, <1>3, NothingWritten DEF ReadKinds
<1>5. view'[k] = NoView
  BY <1>0, <1>1, CallFacts DEF PlaceInv, GetUserMinSeq
<1>6. OwnShown(k)'
  BY <1>5 DEF OwnShown, NoView
<1>7. QED  BY <1>0, <1>2, <1>4, <1>6, CallKeeps

LEMMA GetMinSeqKeeps ==
  ASSUME StoreInv, NEW k \in Call, GetMinSeq(k)
  PROVE  StoreInv' /\ CallStep(k)
<1>0. BaseInv /\ BaseInv' /\ Kind(k) \in ReadKinds /\ pc[k] = "min" /\ view \in [Call -> ViewSet]
  BY GetMinSeqBase DEF StoreInv, BaseInv, StoreType, GetMinSeq, Readers, ReadKinds
<1>1. PICK l \in {"done", "max"} : Go(k, l) /\ (l = "done" => Kind(k) = "pull")
  BY DEF GetMinSeq
<1>2. PICK b : view' = view \/ view' = [view EXCEPT ![k].begin = b]
  BY DEF GetMinSeq
<1>3. /\ \A j \in Call : j # k => view'[j] = view[j]
      /\ view'[k].page = view[k].page /\ view'[k].got = view[k].got
  BY <1>0, <1>2 DEF ViewSet
<1>4. l \in Place \ {"start"} /\ pc[k] \notin Final
  BY <1>0, <1>1 DEF Place, Final
<1>5. CallStep(k) /\ pc'[k] = l
  BY <1>0, <1>1, <1>3, <1>4, QuietStep DEF GetMinSeq
<1>6. QED  BY <1>0, <1>1, <1>3, <1>5, ReadKeeps

LEMMA GetMaxSeqKeeps ==
  ASSUME StoreInv, NEW k \in Call, GetMaxSeq(k)
  PROVE  StoreInv' /\ CallStep(k)
<1>0. BaseInv /\ BaseInv' /\ Kind(k) \in ReadKinds /\ pc[k] = "max" /\ view \in [Call -> ViewSet]
  BY GetMaxSeqBase DEF StoreInv, BaseInv, StoreType, GetMaxSeq, Readers, ReadKinds
<1>1. PICK l \in {"failed", "cache"} : Go(k, l)
  BY DEF GetMaxSeq
<1>2. PICK a, b : view' = view \/ view' = [view EXCEPT ![k].end = a, ![k].first = b]
  BY DEF GetMaxSeq
<1>3. /\ \A j \in Call : j # k => view'[j] = view[j]
      /\ view'[k].page = view[k].page /\ view'[k].got = view[k].got
  BY <1>0, <1>2 DEF ViewSet
<1>4. l \in Place \ {"start"} /\ pc[k] \notin Final
  BY <1>0, <1>1 DEF Place, Final
<1>5. CallStep(k) /\ pc'[k] = l
  BY <1>0, <1>1, <1>3, <1>4, QuietStep DEF GetMaxSeq
<1>6. QED  BY <1>0, <1>1, <1>3, <1>5, ReadKeeps

LEMMA ReadCacheKeeps ==
  ASSUME StoreInv, NEW k \in Call, ReadCache(k)
  PROVE  StoreInv' /\ CallStep(k)
<1>0. BaseInv /\ BaseInv' /\ Kind(k) \in ReadKinds /\ pc[k] = "cache" /\ view \in [Call -> ViewSet]
  BY ReadCacheBase, KindAt DEF StoreInv, BaseInv, StoreType, ReadCache
<1>1. PICK l \in {"dels", "docs"} : Go(k, l)
  BY DEF ReadCache
<1>2. PICK g, m : /\ view' = [view EXCEPT ![k].got = g, ![k].miss = m]
                  /\ g = Cached(Page(k) \cap cache)
  BY DEF ReadCache
<1>3. /\ \A j \in Call : j # k => view'[j] = view[j]
      /\ view'[k].page = view[k].page /\ view'[k].got = g
  BY <1>0, <1>2 DEF ViewSet
<1>4. l \in Place \ {"start"} /\ pc[k] \notin Final
  BY <1>0, <1>1 DEF Place, Final
<1>5. CallStep(k) /\ pc'[k] = l
  BY <1>0, <1>1, <1>3, <1>4, QuietStep DEF ReadCache
<1>6. \A e \in g : \A j \in hist[k].before : AgreesWith(j, k, e)
  BY <1>2, CachedAgrees DEF Cached
<1>7. QED  BY <1>0, <1>1, <1>3, <1>5, <1>6, ReadKeeps

LEMMA DropDeletedKeeps ==
  ASSUME StoreInv, NEW k \in Call, DropDeleted(k)
  PROVE  StoreInv' /\ CallStep(k)
<1>0. /\ BaseInv /\ BaseInv' /\ Kind(k) \in ReadKinds /\ pc[k] = "dels" /\ view \in [Call -> ViewSet]
      /\ todo \in [Call -> SUBSET Nat]
  BY DropDeletedBase, KindAt DEF StoreInv, BaseInv, StoreType, DropDeleted, ReadKinds
<1>1. PICK l \in {"spin", "again", "docs"} : Go(k, l)
  BY DEF DropDeleted
<1>2. PICK g, m : view' = [view EXCEPT ![k].got = @ \ g] /\ todo' = [todo EXCEPT ![k] = m]
  BY DEF DropDeleted
<1>3. /\ \A j \in Call : j # k => view'[j] = view[j] /\ todo'[j] = todo[j]
      /\ view'[k].page = view[k].page /\ view'[k].got \subseteq view[k].got
  BY <1>0, <1>2 DEF ViewSet
<1>4. l \in Place \ {"start"} /\ pc[k] \notin Final
  BY <1>0, <1>1 DEF Place, Final
<1>5. CallStep(k) /\ pc'[k] = l
  BY <1>0, <1>1, <1>3, <1>4, QuietStep DEF DropDeleted
<1>6. QED  BY <1>0, <1>1, <1>3, <1>5, ReadKeeps

LEMMA ReadAgainKeeps ==
  ASSUME StoreInv, NEW k \in Call, ReadAgain(k)
  PROVE  StoreInv' /\ CallStep(k)
<1>0. /\ BaseInv /\ BaseInv' /\ Kind(k) \in ReadKinds /\ pc[k] = "again" /\ view \in [Call -> ViewSet]
      /\ todo \in [Call -> SUBSET Nat] /\ Go(k, "docs")
  BY ReadAgainBase, KindAt DEF StoreInv, BaseInv, StoreType, ReadAgain, ReadKinds
<1>1. PICK g, m : /\ view' = [view EXCEPT ![k].got = @ \cup g, ![k].miss = @ \cup m]
                  /\ g = Cached(todo[k] \cap cache)
                  /\ todo' = [todo EXCEPT ![k] = {}]
  BY DEF ReadAgain
<1>2. /\ \A j \in Call : j # k => view'[j] = view[j] /\ todo'[j] = todo[j]
      /\ view'[k].page = view[k].page /\ view'[k].got = view[k].got \cup g
  BY <1>0, <1>1 DEF ViewSet
<1>3. "docs" \in Place \ {"start"} /\ pc[k] \notin Final
  BY <1>0 DEF Place, Final
<1>4. CallStep(k) /\ pc'[k] = "docs"
  BY <1>0, <1>2, <1>3, QuietStep DEF ReadAgain
<1>5. \A e \in g : \A j \in hist[k].before : AgreesWith(j, k, e)
  BY <1>1, CachedAgrees DEF Cached
<1>6. QED  BY <1>0, <1>2, <1>4, <1>5, ReadKeeps

LEMMA ReadDocKeeps ==
  ASSUME StoreInv, NEW k \in Call, NEW d \in Docs, ReadDoc(k, d)
  PROVE  StoreInv' /\ CallStep(k)
<1>0. BaseInv /\ BaseInv' /\ Kind(k) \in ReadKinds /\ pc[k] = "docs" /\ view \in [Call -> ViewSet]
  BY ReadDocBase, KindAt DEF StoreInv, BaseInv, StoreType, ReadDoc
<1>1. PICK P, M, sh :
         /\ P \subseteq { s \in InDoc(view[k].miss, d) : ~ReadSkips(op[k].user, s) }
         /\ sh = { Shown(s) : s \in P }
         /\ \/ Go(k, "failed") /\ UNCHANGED view
            \/ view' = [view EXCEPT ![k].page = sh, ![k].miss = @ \ M] /\ UNCHANGED <<pc, hist>>
  <2>1. PICK M, P :
          /\ M = InDoc(view[k].miss, d)
          /\ P \subseteq { s \in M : ~ReadSkips(op[k].user, s) }
          /\ \/ Go(k, "failed") /\ UNCHANGED view
             \/ /\ view' = [view EXCEPT ![k].page = { Shown(s) : s \in P }, ![k].miss = @ \ M]
                /\ UNCHANGED <<pc, hist>>
    BY DEF ReadDoc
  <2>2. PICK sh : sh = { Shown(s) : s \in P }
    OBVIOUS
  <2>3. QED  BY <2>1, <2>2
<1>2. /\ \A j \in Call : j # k => view'[j] = view[j]
      /\ view'[k].got = view[k].got /\ view'[k].page \in {view[k].page, sh}
  BY <1>0, <1>1 DEF ViewSet
<1>3. CallStep(k) /\ pc'[k] # "done"
  <2>1. CASE Go(k, "failed")
    <3>1. "failed" \in Place \ {"start"} /\ pc[k] \notin Final
      BY <1>0 DEF Place, Final
    <3>2. QED  BY <1>0, <1>2, <2>1, <3>1, QuietStep DEF ReadDoc
  <2>2. CASE UNCHANGED <<pc, hist>>
    <3>1. pc[k] \notin Final \cup {"start"} /\ SlotsGrow /\ pc'[k] # "done"
      BY <1>0, <2>2, NoWrite DEF Final, ReadDoc
    <3>2. QED  BY <1>0, <1>2, <2>2, <3>1, StayStep DEF ReadDoc, redisVars
  <2>3. QED  BY <1>1, <2>1, <2>2
<1>4. \A e \in sh : \A j \in hist[k].before : AgreesWith(j, k, e)
  <2>1. view[k].miss \subseteq Seqs
    BY <1>0 DEF ViewSet
  <2>2. QED  BY <1>1, <2>1, ShownAgrees DEF InDoc
<1>5. QED  BY <1>0, <1>2, <1>3, <1>4, ReadKeeps

\* A message is taken from the page.
LEMMA TakeKeeps ==
  ASSUME BaseInv, NEW k \in Call, NEW e \in view[k].page, NEW as \in EntrySet, TakeMsg(k, e, as)
  PROVE  /\ \A j \in Call : j # k => view'[j] = view[j]
         /\ \A f \in view'[k].page \cup view'[k].got : f \in view[k].page \cup view[k].got \/ f = as
<1>1. /\ \A j \in Call : j # k => view'[j] = view[j]
      /\ view'[k].page = view[k].page \ {e} /\ view'[k].got = view[k].got \cup {as}
  BY TakeMsgView
<1>2. QED  BY <1>1

LEMMA HandleMsgKeeps ==
  ASSUME StoreInv, NEW k \in Call, NEW e \in view[k].page, HandleMsg(k, e)
  PROVE  StoreInv' /\ CallStep(k)
<1>0. BaseInv /\ BaseInv' /\ Kind(k) \in ReadKinds /\ pc[k] = "docs" /\ e \in EntrySet
  BY HandleMsgBase, KindAt, CallFacts DEF StoreInv, HandleMsg, ViewSet
<1>1. pc[k] \notin Final \cup {"start"} /\ SlotsGrow /\ pc'[k] # "done"
  BY <1>0, NoWrite DEF Final, HandleMsg
<1>2. /\ \A j \in Call : j # k => view'[j] = view[j]
      /\ \A f \in view'[k].page \cup view'[k].got : f \in view[k].page \cup view[k].got
  BY <1>0, TakeKeeps DEF HandleMsg
<1>3. CallStep(k)
  BY <1>0, <1>1, <1>2, StayStep DEF HandleMsg, redisVars
<1>4. QED  BY <1>0, <1>1, <1>2, <1>3, ReadKeeps

LEMMA ReadQuotedKeeps ==
  ASSUME StoreInv, NEW k \in Call, NEW e \in view[k].page, ReadQuoted(k, e)
  PROVE  StoreInv' /\ CallStep(k)
<1>0. BaseInv /\ BaseInv' /\ Kind(k) \in ReadKinds /\ pc[k] = "docs" /\ e \in EntrySet
  BY ReadQuotedBase, KindAt, CallFacts DEF StoreInv, ReadQuoted, ViewSet
<1>1. CASE TakeMsg(k, e, e) /\ UNCHANGED <<pc, hist>>
  <2>1. pc[k] \notin Final \cup {"start"} /\ SlotsGrow /\ pc'[k] # "done"
    BY <1>0, <1>1, NoWrite DEF Final, ReadQuoted
  <2>2. /\ \A j \in Call : j # k => view'[j] = view[j]
        /\ \A f \in view'[k].page \cup view'[k].got : f \in view[k].page \cup view[k].got
    BY <1>0, <1>1, TakeKeeps
  <2>3. CallStep(k)
    BY <1>0, <1>1, <2>1, <2>2, StayStep DEF ReadQuoted, redisVars
  <2>4. QED  BY <1>0, <2>1, <2>2, <2>3, ReadKeeps
<1>2. CASE Go(k, "rewrite") /\ UNCHANGED view
  <2>1. "rewrite" \in Place \ {"start"} /\ pc[k] \notin Final
    BY <1>0 DEF Place, Final
  <2>2. CallStep(k) /\ pc'[k] = "rewrite"
    BY <1>0, <1>2, <2>1, QuietStep DEF ReadQuoted
  <2>3. QED  BY <1>0, <1>2, <2>2, ReadKeeps
<1>3. QED  BY <1>1, <1>2 DEF ReadQuoted

\* A page has one next message.
LEMMA OneNext ==
  ASSUME BaseInv, NEW k \in Call, NEW e \in view[k].page, NEW f \in view[k].page, IsNext(k, e), IsNext(k, f)
  PROVE  e = f
<1>1. view[k] \in ViewSet
  BY CallFacts
<1>2. view[k].first \in Int /\ e \in EntrySet /\ f \in EntrySet
  BY <1>1 DEF ViewSet
<1>3. PICK s, t, a : s = e.seq /\ t = f.seq /\ a = view[k].first
  OBVIOUS
<1>4. s \in Int /\ t \in Int /\ a \in Int
  BY <1>2, <1>3 DEF EntrySet, Seqs
<1>5. ~(Before(k, s, t) /\ Before(k, t, s))
  BY <1>3, <1>4 DEF Before
<1>6. QED  BY <1>3, <1>5 DEF IsNext

LEMMA RewriteQuoteKeeps ==
  ASSUME StoreInv, NEW k \in Call, NEW e \in view[k].page, RewriteQuote(k, e)
  PROVE  StoreInv' /\ CallStep(k)
<1>0. /\ BaseInv /\ BaseInv' /\ Kind(k) \in ReadKinds /\ pc[k] = "rewrite" /\ e \in EntrySet /\ SlotsGrow
      /\ Go(k, "docs") /\ op' = op
  BY RewriteQuoteBase, RewriteQuoteWrites, KindAt, CallFacts DEF StoreInv, RewriteQuote, ViewSet
<1>1. e.how = "plain"
  <2>1. PICK f \in view[k].page : IsNext(k, f) /\ LiveQuote(f)
    BY <1>0, CallFacts DEF ReadInv
  <2>2. f = e
    BY <1>0, <2>1, OneNext DEF RewriteQuote
  <2>3. QED  BY <2>1, <2>2 DEF LiveQuote
<1>2. PICK as : as = [e EXCEPT !.how = "rewritten"]
  OBVIOUS
<1>3. as \in EntrySet /\ as.seq = e.seq
  BY <1>0, <1>2 DEF EntrySet
<1>4. /\ \A j \in Call : j # k => view'[j] = view[j]
      /\ \A f \in view'[k].page \cup view'[k].got : f \in view[k].page \cup view[k].got \/ f = as
  BY <1>0, <1>2, <1>3, TakeKeeps DEF RewriteQuote
<1>5. "docs" \in Place \ {"start"} /\ pc[k] \notin Final
  BY <1>0 DEF Place, Final
<1>6. UNCHANGED <<maxSeq, cache, feedVars, blk, todo>>
  BY DEF RewriteQuote, redisVars
<1>7. CallStep(k) /\ pc'[k] = "docs"
  BY <1>0, <1>4, <1>5, <1>6, MoveStep
<1>8. ASSUME NEW j \in hist[k].before PROVE AgreesWith(j, k, as)
  <2>1. AgreesWith(j, k, e)
    BY <1>0 DEF StoreInv, ShownInv
  <2>2. QED  BY <1>1, <1>3, <2>1 DEF AgreesWith
<1>9. QED  BY <1>0, <1>4, <1>7, <1>8, ReadKeeps

LEMMA ReadEndsKeeps ==
  ASSUME StoreInv, NEW k \in Readers, ReadEnds(k)
  PROVE  StoreInv' /\ CallStep(k)
<1>0. BaseInv /\ BaseInv' /\ k \in Call /\ Kind(k) \in ReadKinds /\ pc[k] = "docs" /\ k # Consumer
  BY ReadEndsBase, ConstantsAssumption DEF StoreInv, ReadEnds, Readers, ReadKinds
<1>1. PICK l \in {"write", "failed", "done"} : Go(k, l) /\ (Kind(k) = "revoke" => l # "done")
  BY DEF ReadEnds
<1>2. l \in Place \ {"start"} /\ pc[k] \notin Final
  BY <1>0, <1>1 DEF Place, Final
<1>3. blk'[Consumer] = blk[Consumer]
  <2>1. PICK b : blk' = blk \/ blk' = [blk EXCEPT ![k] = b]
    BY DEF ReadEnds
  <2>2. blk \in [Call \cup {Consumer} -> BlockSet]
    BY <1>0 DEF BaseInv, StoreType
  <2>3. QED  BY <1>0, <2>1, <2>2
<1>4. CallStep(k) /\ pc'[k] = l
  BY <1>0, <1>1, <1>2, <1>3, QuietStep DEF ReadEnds
<1>5. view' = view
  BY DEF ReadEnds
<1>6. QED  BY <1>0, <1>1, <1>4, <1>5, ReadKeeps

\* BatchInsertBlock of a revoke answers when the revoke is in the slot.
LEMMA RevokeBlockKeeps ==
  ASSUME StoreInv, NEW k \in Call, BlockUpdate(k) \/ BlockCreate(k)
  PROVE  StoreInv' /\ CallStep(k)
<1>0. /\ BaseInv /\ BaseInv' /\ SlotsGrow /\ Writing(k) /\ op' = op /\ UNCHANGED <<redisVars, view, todo>>
      /\ UNCHANGED <<queue, qpos, fresh, left, users, redelivered>> /\ Kind(k)' = Kind(k)
  BY RevokeBlockBase, BlockWrites DEF StoreInv, Kind
<1>1. /\ k # Consumer /\ Kind(k) = "revoke" /\ pc[k] = "write" /\ blk[k].i = op[k].end
      /\ blk[k].last = op[k].end /\ op[k].end \in Seqs /\ op[k].end \in Nat
  BY <1>0, BlockRange DEF Seqs
<1>2. PICK b : BlockDoes(k, b)
  BY <1>0, BlockWrites
<1>3. PICK s : s = op[k].end
  OBVIOUS
<1>4. /\ b \in BlockSet /\ b.last = s /\ b.i \in s .. s + 1 /\ AfterBlock(k, b)
      /\ \A t \in s .. b.i - 1 : DocOf(t) \in docs' /\ SlotOf(t)'.revoke
  BY <1>1, <1>2, <1>3 DEF BlockDoes
<1>5. blk' = [blk EXCEPT ![k] = b] /\ mc' = mc /\ Go(k, IF b.i > b.last THEN "done" ELSE "write")
  BY <1>1, <1>4 DEF AfterBlock
<1>6. PICK l \in {"done", "write"} : Go(k, l) /\ (l = "done" => b.i > b.last)
  BY <1>5
<1>7. l \in Place \ {"start"} /\ pc[k] \notin Final
  BY <1>1, <1>6 DEF Place, Final
<1>8. blk'[Consumer] = blk[Consumer]
  <2>1. blk \in [Call \cup {Consumer} -> BlockSet]
    BY <1>0 DEF BaseInv, StoreType
  <2>2. QED  BY <1>1, <1>5, <2>1
<1>9. UNCHANGED <<maxSeq, cache, feedVars>>
  BY <1>0, <1>5 DEF redisVars, feedVars
<1>10. CallStep(k) /\ pc'[k] = l
  BY <1>0, <1>6, <1>7, <1>8, <1>9, MoveStep
<1>11. pc'[k] = "done" => DocOf(s) \in docs' /\ SlotOf(s)'.revoke
  <2>1. pc'[k] = "done" => b.i = s + 1
    BY <1>1, <1>3, <1>4, <1>6, <1>10
  <2>2. b.i = s + 1 => s \in s .. b.i - 1
    BY <1>1, <1>3
  <2>3. QED  BY <1>4, <2>1, <2>2
<1>12. OwnKept(k)'
  BY <1>0, <1>1, <1>3, <1>11 DEF OwnKept, RevokeKept, MarkKept, DeleteKept
<1>13. OwnShown(k)'
  BY <1>0, <1>1, <1>10, ReadShown
<1>14. QED  BY <1>0, <1>10, <1>12, <1>13, CallKeeps

\* The deletes of a user.
LEMMA FindCachedKeeps ==
  ASSUME StoreInv, NEW k \in Call, FindCached(k)
  PROVE  StoreInv' /\ CallStep(k)
<1>0. /\ BaseInv /\ BaseInv' /\ Kind(k) = "deleteSelf" /\ pc[k] = "start" /\ op' = op /\ Kind(k)' = Kind(k)
      /\ view \in [Call -> ViewSet] /\ todo \in [Call -> SUBSET Nat] /\ Go(k, "users") /\ cache' = cache
  BY FindCachedBase DEF StoreInv, BaseInv, StoreType, FindCached, Kind, redisVars
<1>1. PICK S : S = op[k].seqs \cap cache
  OBVIOUS
<1>2. view' = [view EXCEPT ![k].seqs = S] /\ todo' = [todo EXCEPT ![k] = S]
  BY <1>1 DEF FindCached
<1>3. /\ \A j \in Call : j # k => view'[j] = view[j] /\ todo'[j] = todo[j]
      /\ view'[k].seqs = S
  BY <1>0, <1>2 DEF ViewSet
<1>4. "users" \in Place \ {"start"} /\ pc[k] \notin Final
  BY <1>0 DEF Place, Final
<1>5. CallStep(k) /\ pc'[k] = "users"
  BY <1>0, <1>3, <1>4, QuietStep DEF FindCached
<1>6. DeleteKept(k)'
  <2>1. Uncached(k)' = op[k].seqs \ S
    BY <1>0, <1>3 DEF Uncached
  <2>2. \A s \in op[k].seqs \ S : s \notin cache' /\ ~Pushed(k, s)'
    BY <1>0, <1>1, <1>5 DEF Pushed
  <2>3. QED  BY <2>1, <2>2 DEF DeleteKept
<1>7. OwnKept(k)'
  BY <1>0, <1>6 DEF OwnKept, RevokeKept, MarkKept
<1>8. OwnShown(k)'
  BY <1>0, NothingRead DEF ReadKinds
<1>9. QED  BY <1>0, <1>5, <1>7, <1>8, CallKeeps

\* A step of a user's delete keeps what it deleted, and pushes no seq it did not write.
LEMMA DeleteKeeps ==
  ASSUME StoreInv, BaseInv', NEW k \in Call, CallStep(k), Kind(k) = "deleteSelf", pc[k] # "start",
         view'[k].seqs = view[k].seqs,
         \A s \in Uncached(k) : Pushed(k, s)' =>
             \/ Pushed(k, s)
             \/ DocOf(s) \in docs' /\ op[k].user \in SlotOf(s)'.del
             \/ Covered(s)'
  PROVE  StoreInv'
<1>0. BaseInv /\ WrittenInv /\ SlotsGrow /\ op' = op /\ Kind(k)' = Kind(k) /\ Forward /\ cache' \subseteq cache
  BY CallKeep DEF StoreInv, CallStep, Kind
<1>1. Uncached(k)' = Uncached(k)
  BY <1>0 DEF Uncached
<1>2. ASSUME NEW s \in Uncached(k)
      PROVE  /\ s \notin cache'
             /\ Pushed(k, s)' => \/ DocOf(s) \in docs' /\ op[k].user \in SlotOf(s)'.del
                                 \/ Covered(s)'
  <2>1. \A t \in cache' : t \in cache \/ t > maxSeq
    BY <1>0
  <2>2. s \notin cache' /\ (Pushed(k, s) => (DocOf(s) \in docs' /\ op[k].user \in SlotOf(s)'.del) \/ Covered(s)')
    BY <1>0, <2>1, DeletesStay
  <2>3. QED  BY <2>2
<1>3. DeleteKept(k)'
  BY <1>0, <1>1, <1>2 DEF DeleteKept
<1>4. OwnKept(k)'
  BY <1>0, <1>3 DEF OwnKept, RevokeKept, MarkKept
<1>5. OwnShown(k)'
  BY <1>0, NothingRead DEF ReadKinds
<1>6. QED  BY <1>4, <1>5, CallKeeps

LEMMA AddUserKeeps ==
  ASSUME StoreInv, NEW k \in Call, AddUser(k)
  PROVE  StoreInv' /\ CallStep(k)
<1>0. BaseInv /\ BaseInv' /\ Kind(k) = "deleteSelf" /\ pc[k] = "users" /\ Go(k, "seqs") /\ op' = op
  BY AddUserBase, KindAt DEF StoreInv, AddUser
<1>1. "seqs" \in Place \ {"start"} /\ pc[k] \notin Final /\ SlotsGrow
  BY <1>0, NoWrite DEF Place, Final, AddUser
<1>2. CallStep(k) /\ pc'[k] = "seqs"
  BY <1>0, <1>1, MoveStep DEF AddUser
<1>3. view' = view /\ \A s : ~Pushed(k, s)'
  BY <1>2 DEF AddUser, Pushed
<1>4. QED  BY <1>0, <1>2, <1>3, DeleteKeeps

LEMMA AddSeqKeeps ==
  ASSUME StoreInv, NEW k \in Call, AddSeq(k)
  PROVE  StoreInv' /\ CallStep(k)
<1>0. /\ BaseInv /\ BaseInv' /\ Kind(k) = "deleteSelf" /\ pc[k] = "seqs" /\ Go(k, "users") /\ op' = op
      /\ todo \in [Call -> SUBSET Nat]
  BY AddSeqBase, KindAt DEF StoreInv, AddSeq, BaseInv, StoreType
<1>1. "users" \in Place \ {"start"} /\ pc[k] \notin Final /\ SlotsGrow
  BY <1>0, NoWrite DEF Place, Final, AddSeq
<1>2. \A j \in Call : j # k => view'[j] = view[j] /\ todo'[j] = todo[j]
  BY <1>0 DEF AddSeq
<1>3. CallStep(k) /\ pc'[k] = "users"
  BY <1>0, <1>1, <1>2, MoveStep DEF AddSeq
<1>4. view' = view /\ \A s : ~Pushed(k, s)'
  BY <1>3 DEF AddSeq, Pushed
<1>5. QED  BY <1>0, <1>3, <1>4, DeleteKeeps

LEMMA ListsWrittenKeeps ==
  ASSUME StoreInv, NEW k \in Call, ListsWritten(k)
  PROVE  StoreInv' /\ CallStep(k)
<1>0. /\ BaseInv /\ BaseInv' /\ Kind(k) = "deleteSelf" /\ pc[k] = "users" /\ Go(k, "push") /\ op' = op
      /\ todo \in [Call -> SUBSET Nat]
  BY ListsWrittenBase, KindAt DEF StoreInv, ListsWritten, BaseInv, StoreType
<1>1. "push" \in Place \ {"start"} /\ pc[k] \notin Final
  BY <1>0 DEF Place, Final
<1>2. /\ \A j \in Call : j # k => view'[j] = view[j] /\ todo'[j] = todo[j]
      /\ todo'[k] = op[k].seqs
  BY <1>0 DEF ListsWritten
<1>3. CallStep(k) /\ pc'[k] = "push"
  BY <1>0, <1>1, <1>2, QuietStep DEF ListsWritten
<1>4. view' = view /\ \A s \in Uncached(k) : ~Pushed(k, s)'
  BY <1>2, <1>3 DEF ListsWritten, Pushed, Uncached
<1>5. QED  BY <1>0, <1>3, <1>4, DeleteKeeps

\* PushUnique finds the document of a message that is not cached.
LEMMA PushDelListKeeps ==
  ASSUME StoreInv, NEW k \in Call, NEW s \in Seqs, PushDelList(k, s)
  PROVE  StoreInv' /\ CallStep(k)
<1>0. /\ BaseInv /\ BaseInv' /\ Kind(k) = "deleteSelf" /\ pc[k] = "push" /\ op' = op
      /\ todo \in [Call -> SUBSET Nat] /\ SlotsGrow /\ docs' = docs /\ view' = view
      /\ (DocOf(s) \in docs => op[k].user \in SlotOf(s)'.del)
  BY PushDelListBase, PushDelListWrites, KindAt DEF StoreInv, PushDelList, BaseInv, StoreType
<1>1. PICK l \in {"done", "push"} : Go(k, l) /\ (l = "done" => todo[k] = {s})
  BY DEF PushDelList
<1>2. l \in Place \ {"start"} /\ pc[k] \notin Final
  BY <1>0, <1>1 DEF Place, Final
<1>3. /\ \A j \in Call : j # k => view'[j] = view[j] /\ todo'[j] = todo[j]
      /\ todo'[k] = todo[k] \ {s}
  BY <1>0 DEF PushDelList
<1>4. UNCHANGED <<maxSeq, cache, feedVars, blk>>
  BY DEF PushDelList, redisVars
<1>5. CallStep(k) /\ pc'[k] = l
  BY <1>0, <1>1, <1>2, <1>3, <1>4, MoveStep
<1>6. Forward
  BY <1>0, <1>5, CallKeep
<1>7. ASSUME NEW t \in Uncached(k), Pushed(k, t)'
      PROVE  Pushed(k, t) \/ (DocOf(t) \in docs' /\ op[k].user \in SlotOf(t)'.del) \/ Covered(t)'
  <2>1. CASE t # s
    BY <1>0, <1>1, <1>3, <1>5, <1>7, <2>1 DEF Pushed
  <2>2. CASE t = s
    <3>1. s \notin cache /\ s <= maxSeq /\ s \in 1 .. maxSeq
      <4>1. s \notin cache /\ s <= maxSeq
        <5>1. \A x \in cache' : x \in cache \/ x > maxSeq
          BY <1>4
        <5>2. QED  BY <1>0, <1>6, <2>2, <5>1, DeletesStay DEF StoreInv
      <4>2. maxSeq \in Nat
        BY <1>0 DEF BaseInv, StoreType
      <4>3. QED  BY <4>1, <4>2 DEF Seqs
    <3>2. Stored(s) \/ Covered(s)
      BY <3>1 DEF StoreInv, KeepInv
    <3>3. CASE Stored(s)
      BY <1>0, <2>2, <3>3 DEF Stored
    <3>4. CASE Covered(s)
      BY <1>6, <2>2, <3>4, CoveredStays
    <3>5. QED  BY <3>2, <3>3, <3>4
  <2>3. QED  BY <2>1, <2>2
<1>8. QED  BY <1>0, <1>5, <1>7, DeleteKeeps


\* The calls that delete for everyone and the jobs leave no mark of their own.
LEMMA JobKeeps ==
  ASSUME StoreInv, BaseInv', NEW k \in Call, CallStep(k),
         Kind(k) \in {"deleteAll", "purge", "destruct", "clearSelf", "clearAll", "readSeq", "setRead"}
  PROVE  StoreInv'
<1>1. Kind(k)' = Kind(k)
  BY DEF CallStep, Kind
<1>2. OwnKept(k)' /\ OwnShown(k)'
  BY <1>1, NothingWritten, NothingRead DEF ReadKinds
<1>3. QED  BY <1>2, CallKeeps

LEMMA DropDeletedFromCacheKeeps ==
  ASSUME StoreInv, NEW k \in Call, DropDeletedFromCache(k)
  PROVE  StoreInv' /\ CallStep(k)
<1>0. /\ BaseInv /\ BaseInv' /\ Kind(k) = "deleteAll" /\ pc[k] = "start" /\ Go(k, "remove") /\ op' = op
      /\ todo \in [Call -> SUBSET Nat] /\ StoreType /\ Kind(k)' = Kind(k)
  BY DropDeletedFromCacheBase DEF StoreInv, DropDeletedFromCache, BaseInv, StoreType, Kind
<1>1. "remove" \in Place \ {"start"} /\ pc[k] \notin Final /\ SlotsGrow
  BY <1>0, NoWrite DEF Place, Final, DropDeletedFromCache
<1>2. \A j \in Call : j # k => view'[j] = view[j] /\ todo'[j] = todo[j]
  BY <1>0 DEF DropDeletedFromCache
<1>3. pc'[k] = "remove"
  BY <1>0, <1>1, GoMoves
<1>4. cache' \subseteq cache /\ \A s \in cache : s \in cache' \/ Covered(s)'
  <2>1. \A s \in op[k].seqs : Covered(s)'
    BY <1>0, <1>3 DEF Covered, Begun, Covers
  <2>2. cache' = cache \ op[k].seqs
    BY DEF DropDeletedFromCache
  <2>3. QED  BY <2>1, <2>2
<1>5. CallStep(k)
  BY <1>0, <1>1, <1>2, <1>4, MoveStep DEF DropDeletedFromCache
<1>6. QED  BY <1>0, <1>5, JobKeeps

LEMMA RemoveMsgsKeeps ==
  ASSUME StoreInv, NEW k \in Call, NEW d \in Docs, RemoveMsgs(k, d)
  PROVE  StoreInv' /\ CallStep(k)
<1>0. /\ BaseInv /\ BaseInv' /\ Kind(k) = "deleteAll" /\ pc[k] = "remove" /\ op' = op
      /\ todo \in [Call -> SUBSET Nat] /\ SlotsGrow
  BY RemoveMsgsBase, RemoveMsgsWrites, KindAt DEF StoreInv, RemoveMsgs, BaseInv, StoreType
<1>1. PICK l \in {"done", "remove"} : Go(k, l)
  BY DEF RemoveMsgs
<1>2. l \in Place \ {"start"} /\ pc[k] \notin Final
  BY <1>0, <1>1 DEF Place, Final
<1>3. \A j \in Call : j # k => view'[j] = view[j] /\ todo'[j] = todo[j]
  BY <1>0 DEF RemoveMsgs
<1>4. UNCHANGED <<maxSeq, cache, feedVars, blk>>
  BY DEF RemoveMsgs, redisVars
<1>5. CallStep(k)
  BY <1>0, <1>1, <1>2, <1>3, <1>4, MoveStep
<1>6. QED  BY <1>0, <1>5, JobKeeps

\* The jobs.
LEMMA PurgeStartsKeeps ==
  ASSUME StoreInv, NEW k \in Call, PurgeStarts(k)
  PROVE  StoreInv' /\ CallStep(k)
<1>0. BaseInv /\ BaseInv' /\ Kind(k) = "purge" /\ pc[k] = "start" /\ Go(k, "scan")
  BY PurgeStartsBase DEF StoreInv, PurgeStarts
<1>1. "scan" \in Place \ {"start"} /\ pc[k] \notin Final
  BY <1>0 DEF Place, Final
<1>2. CallStep(k)
  BY <1>0, <1>1, QuietStep DEF PurgeStarts
<1>3. QED  BY <1>0, <1>2, JobKeeps

LEMMA PurgeDocKeeps ==
  ASSUME StoreInv, NEW k \in Call, NEW d \in docs, PurgeDoc(k, d)
  PROVE  StoreInv' /\ CallStep(k)
<1>0. /\ BaseInv /\ BaseInv' /\ Kind(k) = "purge" /\ pc[k] = "scan"
      /\ todo \in [Call -> SUBSET Nat] /\ view \in [Call -> ViewSet]
  BY PurgeDocBase, KindAt DEF StoreInv, PurgeDoc, BaseInv, StoreType
<1>1. PICK l \in {"scan", "expire"} : Go(k, l)
  BY DEF PurgeDoc
<1>2. l \in Place \ {"start"} /\ pc[k] \notin Final
  BY <1>0, <1>1 DEF Place, Final
<1>3. PICK a, b : /\ \/ view' = view
                     \/ view' = [view EXCEPT ![k].end = a]
                     \/ view' = [view EXCEPT ![k].first = d, ![k].seqs = a]
                  /\ todo' = todo \/ todo' = [todo EXCEPT ![k] = b]
  BY DEF PurgeDoc
<1>4. \A j \in Call : j # k => view'[j] = view[j] /\ todo'[j] = todo[j]
  BY <1>0, <1>3
<1>5. CallStep(k)
  BY <1>0, <1>1, <1>2, <1>4, QuietStep DEF PurgeDoc
<1>6. QED  BY <1>0, <1>5, JobKeeps

LEMMA PurgeExpiredKeeps ==
  ASSUME StoreInv, NEW k \in Call, PurgeExpired(k)
  PROVE  StoreInv' /\ CallStep(k)
<1>0. /\ BaseInv /\ BaseInv' /\ Kind(k) = "purge" /\ pc[k] = "expire" /\ op' = op /\ Go(k, "scan")
      /\ view \in [Call -> ViewSet] /\ SlotsGrow
  BY PurgeExpiredBase, PurgeExpiredWrites, KindAt DEF StoreInv, PurgeExpired, BaseInv, StoreType
<1>1. "scan" \in Place \ {"start"} /\ pc[k] \notin Final
  BY <1>0 DEF Place, Final
<1>2. PICK a : view' = [view EXCEPT ![k].end = a, ![k].seqs = {}, ![k].first = 0]
  BY DEF PurgeExpired
<1>3. \A j \in Call : j # k => view'[j] = view[j]
  BY <1>0, <1>2
<1>4. UNCHANGED <<maxSeq, cache, feedVars, blk, todo>>
  BY DEF PurgeExpired, redisVars
<1>5. CallStep(k)
  BY <1>0, <1>1, <1>3, <1>4, MoveStep
<1>6. QED  BY <1>0, <1>5, JobKeeps

LEMMA PurgeDocsKeeps ==
  ASSUME StoreInv, NEW k \in Call, PurgeDocs(k)
  PROVE  StoreInv' /\ CallStep(k)
<1>0. BaseInv /\ BaseInv' /\ Kind(k) = "purge" /\ pc[k] = "scan" /\ op' = op /\ SlotsGrow
  BY PurgeDocsBase, PurgeDocsWrites, KindAt DEF StoreInv, PurgeDocs
<1>1. PICK l \in {"clean", "setMin"} : Go(k, l)
  BY DEF PurgeDocs
<1>2. l \in Place \ {"start"} /\ pc[k] \notin Final
  BY <1>0, <1>1 DEF Place, Final
<1>3. UNCHANGED <<maxSeq, cache, feedVars, blk, view, todo>>
  BY DEF PurgeDocs, redisVars
<1>4. CallStep(k)
  BY <1>0, <1>1, <1>2, <1>3, MoveStep
<1>5. QED  BY <1>0, <1>4, JobKeeps

\* A purge that empties the cache takes every message away.
LEMMA PurgeCacheKeeps ==
  ASSUME StoreInv, NEW k \in Call, PurgeCache(k)
  PROVE  StoreInv' /\ CallStep(k)
<1>0. /\ BaseInv /\ BaseInv' /\ Kind(k) = "purge" /\ pc[k] = "clean" /\ op' = op /\ Go(k, "setMin")
      /\ op[k].clean /\ Kind(k)' = Kind(k) /\ StoreType
  BY PurgeCacheBase, KindAt, CallFacts DEF StoreInv, PurgeCache, Kind, BaseInv, PurgeInv
<1>1. "setMin" \in Place \ {"start"} /\ pc[k] \notin Final /\ SlotsGrow
  BY <1>0, NoWrite DEF Place, Final, PurgeCache
<1>2. pc'[k] = "setMin"
  BY <1>0, <1>1, GoMoves
<1>3. \A s \in cache : Covered(s)'
  BY <1>0, <1>2 DEF Covered, Begun, Covers
<1>4. cache' = {}
  BY DEF PurgeCache
<1>5. CallStep(k)
  BY <1>0, <1>1, <1>3, <1>4, MoveStep DEF PurgeCache
<1>6. QED  BY <1>0, <1>5, JobKeeps


LEMMA PurgeSetsMinKeeps ==
  ASSUME StoreInv, NEW k \in Call, PurgeSetsMin(k)
  PROVE  StoreInv' /\ CallStep(k)
<1>0. BaseInv /\ BaseInv' /\ Kind(k) = "purge" /\ pc[k] = "setMin" /\ Go(k, "done") /\ op' = op
  BY PurgeSetsMinBase, KindAt DEF StoreInv, PurgeSetsMin
<1>1. "done" \in Place \ {"start"} /\ pc[k] \notin Final /\ SlotsGrow
  BY <1>0, NoWrite DEF Place, Final, PurgeSetsMin
<1>2. CallStep(k)
  BY <1>0, <1>1, MoveStep DEF PurgeSetsMin
<1>3. QED  BY <1>0, <1>2, JobKeeps

LEMMA DestructDocKeeps ==
  ASSUME StoreInv, NEW k \in Call, NEW d \in docs, DestructDoc(k, d)
  PROVE  StoreInv' /\ CallStep(k)
<1>0. /\ BaseInv /\ BaseInv' /\ Kind(k) = "destruct" /\ pc[k] \in {"start", "look"}
      /\ todo \in [Call -> SUBSET Nat]
  BY DestructDocBase DEF StoreInv, DestructDoc, BaseInv, StoreType
<1>1. PICK l \in {"look", "getMin"} : Go(k, l)
  BY DEF DestructDoc
<1>2. l \in Place \ {"start"} /\ pc[k] \notin Final
  BY <1>0, <1>1 DEF Place, Final
<1>3. PICK b : todo' = [todo EXCEPT ![k] = b]
  BY <1>0 DEF DestructDoc
<1>4. \A j \in Call : j # k => view'[j] = view[j] /\ todo'[j] = todo[j]
  BY <1>0, <1>3 DEF DestructDoc
<1>5. CallStep(k)
  BY <1>0, <1>1, <1>2, <1>4, QuietStep DEF DestructDoc
<1>6. QED  BY <1>0, <1>5, JobKeeps

LEMMA DestructNoDocKeeps ==
  ASSUME StoreInv, NEW k \in Call, DestructNoDoc(k)
  PROVE  StoreInv' /\ CallStep(k)
<1>0. BaseInv /\ BaseInv' /\ Kind(k) = "destruct" /\ pc[k] \in {"start", "look"} /\ Go(k, "getMin")
  BY DestructNoDocBase DEF StoreInv, DestructNoDoc
<1>1. "getMin" \in Place \ {"start"} /\ pc[k] \notin Final
  BY <1>0 DEF Place, Final
<1>2. CallStep(k)
  BY <1>0, <1>1, QuietStep DEF DestructNoDoc
<1>3. QED  BY <1>0, <1>2, JobKeeps

LEMMA DestructGetMinKeeps ==
  ASSUME StoreInv, NEW k \in Call, DestructGetMin(k)
  PROVE  StoreInv' /\ CallStep(k)
<1>0. BaseInv /\ BaseInv' /\ Kind(k) = "destruct" /\ pc[k] = "getMin"
  BY DestructGetMinBase, KindAt DEF StoreInv, DestructGetMin
<1>1. PICK l \in {"moveMin", "done"} : Go(k, l)
  BY DEF DestructGetMin
<1>2. l \in Place \ {"start"} /\ pc[k] \notin Final
  BY <1>0, <1>1 DEF Place, Final
<1>3. CallStep(k)
  BY <1>0, <1>1, <1>2, QuietStep DEF DestructGetMin
<1>4. QED  BY <1>0, <1>3, JobKeeps

LEMMA DestructSetMinKeeps ==
  ASSUME StoreInv, NEW k \in Call, DestructSetMin(k)
  PROVE  StoreInv' /\ CallStep(k)
<1>0. BaseInv /\ BaseInv' /\ Kind(k) = "destruct" /\ pc[k] = "moveMin" /\ Go(k, "done") /\ op' = op
  BY DestructSetMinBase, KindAt DEF StoreInv, DestructSetMin
<1>1. "done" \in Place \ {"start"} /\ pc[k] \notin Final /\ SlotsGrow
  BY <1>0, NoWrite DEF Place, Final, DestructSetMin
<1>2. CallStep(k)
  BY <1>0, <1>1, MoveStep DEF DestructSetMin
<1>3. QED  BY <1>0, <1>2, JobKeeps

\* The clears and the read marks.
LEMMA ClearGetMaxKeeps ==
  ASSUME StoreInv, NEW k \in Call, ClearGetMax(k)
  PROVE  StoreInv' /\ CallStep(k)
<1>0. BaseInv /\ BaseInv' /\ Kind(k) \in {"clearSelf", "clearAll"} /\ pc[k] = "start"
  BY ClearGetMaxBase DEF StoreInv, ClearGetMax
<1>1. PICK l \in {"hide", "done"} : Go(k, l)
  BY DEF ClearGetMax
<1>2. l \in Place \ {"start"} /\ pc[k] \notin Final
  BY <1>0, <1>1 DEF Place, Final
<1>3. CallStep(k)
  BY <1>0, <1>1, <1>2, QuietStep DEF ClearGetMax
<1>4. QED  BY <1>0, <1>3, JobKeeps

LEMMA ClearSetMinKeeps ==
  ASSUME StoreInv, NEW k \in Call, ClearSetMin(k)
  PROVE  StoreInv' /\ CallStep(k)
<1>0. /\ BaseInv /\ BaseInv' /\ Kind(k) \in {"clearSelf", "clearAll"} /\ pc[k] = "hide" /\ op' = op
      /\ Go(k, "setRead")
  BY ClearSetMinBase, KindAt DEF StoreInv, ClearSetMin
<1>1. "setRead" \in Place \ {"start"} /\ pc[k] \notin Final /\ SlotsGrow
  BY <1>0, NoWrite DEF Place, Final, ClearSetMin
<1>2. CallStep(k)
  BY <1>0, <1>1, MoveStep DEF ClearSetMin
<1>3. QED  BY <1>0, <1>2, JobKeeps

\* A mark that leaves the messages it has marked alone.
LEMMA MarkStepKeeps ==
  ASSUME StoreInv, BaseInv', NEW k \in Call, CallStep(k), view' = view,
         Kind(k) \in {"clearSelf", "clearAll"} \cup MarkKinds
  PROVE  StoreInv'
<1>1. Kind(k)' = Kind(k)
  BY DEF CallStep, Kind
<1>2. OwnKept(k)'
  BY MarkKeeps DEF MarkKinds
<1>3. OwnShown(k)'
  BY <1>1, NothingRead DEF ReadKinds, MarkKinds
<1>4. QED  BY <1>2, <1>3, CallKeeps

LEMMA MarkCheckMaxKeeps ==
  ASSUME StoreInv, NEW k \in Call, MarkCheckMax(k)
  PROVE  StoreInv' /\ CallStep(k)
<1>0. /\ BaseInv /\ BaseInv' /\ Kind(k) \in MarkKinds /\ pc[k] = "start" /\ todo \in [Call -> SUBSET Nat]
      /\ view' = view
  BY MarkCheckMaxBase DEF StoreInv, MarkCheckMax, BaseInv, StoreType, MarkKinds
<1>1. PICK l \in {"failed", "mark", "setRead"} : Go(k, l)
  BY DEF MarkCheckMax
<1>2. l \in Place \ {"start"} /\ pc[k] \notin Final
  BY <1>0, <1>1 DEF Place, Final
<1>3. \A j \in Call : j # k => view'[j] = view[j] /\ todo'[j] = todo[j]
  BY <1>0 DEF MarkCheckMax
<1>4. CallStep(k)
  BY <1>0, <1>1, <1>2, <1>3, QuietStep DEF MarkCheckMax
<1>5. QED  BY <1>0, <1>4, MarkStepKeeps

LEMMA MarkGetReadKeeps ==
  ASSUME StoreInv, NEW k \in Call, MarkGetRead(k)
  PROVE  StoreInv' /\ CallStep(k)
<1>0. /\ BaseInv /\ BaseInv' /\ Kind(k) \in MarkKinds /\ pc[k] \in {"start", "getRead"}
      /\ todo \in [Call -> SUBSET Nat] /\ view' = view
  BY MarkGetReadBase DEF StoreInv, MarkGetRead, BaseInv, StoreType, MarkKinds
<1>1. PICK l \in {"mark", "setRead", "done"} : Go(k, l)
  BY DEF MarkGetRead
<1>2. l \in Place \ {"start"} /\ pc[k] \notin Final
  BY <1>0, <1>1 DEF Place, Final
<1>3. PICK b : todo' = [todo EXCEPT ![k] = b]
  BY DEF MarkGetRead
<1>4. \A j \in Call : j # k => view'[j] = view[j] /\ todo'[j] = todo[j]
  BY <1>0, <1>3
<1>5. CallStep(k)
  BY <1>0, <1>1, <1>2, <1>4, QuietStep DEF MarkGetRead
<1>6. QED  BY <1>0, <1>5, MarkStepKeeps

LEMMA MarkedAllKeeps ==
  ASSUME StoreInv, NEW k \in Call, MarkedAll(k)
  PROVE  StoreInv' /\ CallStep(k)
<1>0. BaseInv /\ BaseInv' /\ Kind(k) \in MarkKinds /\ pc[k] = "mark" /\ view' = view
  BY MarkedAllBase, KindAt DEF StoreInv, MarkedAll, MarkKinds
<1>1. PICK l \in {"getRead", "setRead", "done"} : Go(k, l)
  BY DEF MarkedAll
<1>2. l \in Place \ {"start"} /\ pc[k] \notin Final
  BY <1>0, <1>1 DEF Place, Final
<1>3. CallStep(k)
  BY <1>0, <1>1, <1>2, QuietStep DEF MarkedAll
<1>4. QED  BY <1>0, <1>3, MarkStepKeeps

LEMMA SetHasReadKeeps ==
  ASSUME StoreInv, NEW k \in Call, SetHasRead(k)
  PROVE  StoreInv' /\ CallStep(k)
<1>0. /\ BaseInv /\ BaseInv' /\ Kind(k) \in {"clearSelf", "clearAll"} \cup MarkKinds /\ pc[k] = "setRead"
      /\ view' = view /\ op' = op /\ Go(k, "done")
  BY SetHasReadBase, KindAt DEF StoreInv, SetHasRead
<1>1. "done" \in Place \ {"start"} /\ pc[k] \notin Final /\ SlotsGrow
  BY <1>0, NoWrite DEF Place, Final, SetHasRead
<1>2. CallStep(k)
  BY <1>0, <1>1, MoveStep DEF SetHasRead
<1>3. QED  BY <1>0, <1>2, MarkStepKeeps

LEMMA MarkDocKeeps ==
  ASSUME StoreInv, NEW k \in Call, NEW d \in Docs, MarkDoc(k, d)
  PROVE  StoreInv' /\ CallStep(k)
<1>0. /\ BaseInv /\ BaseInv' /\ Kind(k) \in {"markMsgs", "markConv"} /\ pc[k] = "mark" /\ op' = op
      /\ UNCHANGED <<pc, hist>> /\ Kind(k)' = Kind(k) /\ docs' = docs /\ WrittenInv
      /\ todo \in [Call -> SUBSET Nat] /\ view \in [Call -> ViewSet]
  BY MarkDocBase, KindAt DEF StoreInv, MarkDoc, Kind, BaseInv, StoreType
<1>1. PICK S, R : S = InDoc(todo[k], d) /\ R = { s \in S : d \in docs }
  OBVIOUS
<1>2. /\ SlotsGrow /\ view'[k].seqs = view[k].seqs \cup R
      /\ \A s \in S : d \in docs => SlotOf(s)'.isRead \/ Sender[s] = op[k].user
  BY <1>0, <1>1, MarkDocBase, MarkDocWrites
<1>3. view' = [view EXCEPT ![k].seqs = @ \cup R] /\ todo' = [todo EXCEPT ![k] = @ \ S]
  BY <1>1 DEF MarkDoc
<1>4. \A j \in Call : j # k => view'[j] = view[j] /\ todo'[j] = todo[j]
  BY <1>0, <1>3
<1>5. pc[k] \notin Final \cup {"start"} /\ UNCHANGED <<maxSeq, cache, feedVars, blk>>
  BY <1>0 DEF Final, MarkDoc, redisVars
<1>6. CallStep(k)
  BY <1>0, <1>2, <1>4, <1>5, StayStep
<1>7. Forward
  BY <1>0, <1>6, CallKeep
<1>8. ASSUME NEW s \in view'[k].seqs
      PROVE  \/ DocOf(s) \in docs' /\ (SlotOf(s)'.isRead \/ Sender[s] = op[k].user)
             \/ Covered(s)'
  <2>1. CASE s \in R
    BY <1>0, <1>1, <1>2, <2>1 DEF InDoc
  <2>2. CASE s \in view[k].seqs
    <3>1. s \in Seqs
      BY <1>0, <2>2 DEF ViewSet
    <3>2. (DocOf(s) \in docs /\ (SlotOf(s).isRead \/ Sender[s] = op[k].user)) \/ Covered(s)
      BY <1>0, <2>2 DEF WrittenInv, MarkKept
    <3>3. CASE Covered(s)
      BY <1>7, <3>3, CoveredStays
    <3>4. CASE DocOf(s) \in docs /\ (SlotOf(s).isRead \/ Sender[s] = op[k].user) /\ ~Covered(s)'
      BY <1>2, <3>1, <3>4 DEF SlotsGrow
    <3>5. QED  BY <3>2, <3>3, <3>4
  <2>3. QED  BY <1>2, <2>1, <2>2
<1>9. OwnKept(k)'
  BY <1>0, <1>8 DEF OwnKept, RevokeKept, MarkKept, DeleteKept
<1>10. OwnShown(k)'
  BY <1>0, NothingRead DEF ReadKinds
<1>11. QED  BY <1>0, <1>6, <1>9, <1>10, CallKeeps

\* The numbering and the consumer.
LEMMA KeepBy ==
  ASSUME StoreInv, Forward, SlotsGrow,
         maxSeq <= maxSeq', maxSeq' \in 0 .. MaxMsgs,
         \A s \in cache : s \in cache' \/ Stored(s)' \/ Covered(s)',
         \A s \in maxSeq + 1 .. maxSeq' : s \in cache' \/ Covered(s)',
         fresh'.pc = "cached" =>
             \A s \in maxSeq' + 1 .. maxSeq' + fresh'.n : s \in cache' \/ Covered(s)',
         mc' = "insert" => \A s \in Batch'.first .. blk'[Consumer].i - 1 : Stored(s)' \/ Covered(s)',
         mc' = "cache" => \A s \in Batch'.first .. Batch'.last : Stored(s)' \/ Covered(s)'
  PROVE  KeepInv'
<1>0. BaseInv /\ KeepInv /\ maxSeq \in Nat /\ maxSeq' \in Nat /\ MaxMsgs \in Nat
  BY ConstantsAssumption DEF StoreInv, BaseInv, StoreType
<1>1. \A s \in Seqs : SlotOf(s)'.hasDel \/ Covered(s)'
  BY <1>0, DelListStays
<1>2. ASSUME NEW s \in 1 .. maxSeq' PROVE s \in cache' \/ Stored(s)' \/ Covered(s)'
  <2>1. s \in Seqs
    BY <1>0 DEF Seqs
  <2>2. CASE s \in 1 .. maxSeq
    <3>1. s \in cache \/ Stored(s) \/ Covered(s)
      BY <1>0, <2>2 DEF KeepInv
    <3>2. CASE s \in cache
      BY <3>2
    <3>3. CASE Stored(s) \/ Covered(s)
      BY <2>1, <3>3, StoredStays
    <3>4. QED  BY <3>1, <3>2, <3>3
  <2>3. CASE s \in maxSeq + 1 .. maxSeq'
    BY <2>3
  <2>4. QED  BY <1>0, <2>2, <2>3
<1>3. QED  BY <1>1, <1>2 DEF KeepInv

LEMMA FeedKeeps ==
  ASSUME StoreInv, BaseInv', UNCHANGED callVars, SlotsGrow, KeepInv',
         \A s \in cache' : s \in cache \/ s > maxSeq
  PROVE  StoreInv'
<1>0. BaseInv /\ WrittenInv /\ ShownInv /\ UNCHANGED <<op, pc, view, todo, hist>> /\ Forward
  BY DEF StoreInv, callVars, Forward
<1>1. ASSUME NEW j \in Call PROVE RevokeKept(j)' /\ MarkKept(j)' /\ DeleteKept(j)'
  BY <1>0, KeptStays
<1>2. ASSUME NEW k \in Call
      PROVE  /\ \A j \in hist'[k].before : Ended(j)'
             /\ Kind(k)' \in ReadKinds =>
                  \A j \in hist'[k].before : \A e \in view'[k].page \cup view'[k].got : AgreesWith(j, k, e)'
  <2>1. hist[k].before \subseteq Call
    <3>1. hist[k] \in HistSet
      BY <1>0 DEF BaseInv, StoreType
    <3>2. QED  BY <3>1 DEF HistSet
  <2>2. \A j \in hist'[k].before : Ended(j)'
    BY <1>0 DEF ShownInv, Ended
  <2>3. Kind(k)' = Kind(k)
    BY <1>0 DEF Kind
  <2>4. ASSUME Kind(k) \in ReadKinds, NEW j \in hist[k].before, NEW e \in view[k].page \cup view[k].got
        PROVE  AgreesWith(j, k, e)'
    <3>1. AgreesWith(j, k, e) /\ j \in Call
      BY <1>0, <2>1, <2>4 DEF ShownInv
    <3>2. QED  BY <1>0, <3>1, AgreeStays
  <2>5. QED  BY <1>0, <2>2, <2>3, <2>4
<1>3. WrittenInv' /\ ShownInv'
  BY <1>1, <1>2 DEF WrittenInv, ShownInv
<1>4. QED  BY <1>3 DEF StoreInv

\* Facts every step of the numbering or of the consumer uses.
LEMMA FeedFacts ==
  ASSUME StoreInv, UNCHANGED callVars
  PROVE  /\ BaseInv /\ KeepInv /\ Forward /\ maxSeq \in Nat /\ maxSeq \in 0 .. MaxMsgs /\ MaxMsgs \in Nat
         /\ maxSeq <= maxSeq /\ maxSeq + 1 .. maxSeq = {}
         /\ fresh.n \in Nat
BY ConstantsAssumption DEF StoreInv, BaseInv, StoreType, Forward, callVars

\* What was in its slot when the step began is there when it ends.
LEMMA BatchStays ==
  ASSUME StoreInv, Forward, SlotsGrow
  PROVE  /\ mc = "insert" => \A s \in Batch.first .. blk[Consumer].i - 1 : s \in Seqs /\ (Stored(s)' \/ Covered(s)')
         /\ mc = "cache" => \A s \in Batch.first .. Batch.last : s \in Seqs /\ (Stored(s)' \/ Covered(s)')
<1>1. BaseInv /\ KeepInv /\ MaxMsgs \in Nat
  BY ConstantsAssumption DEF StoreInv
<1>2. mc # "idle" => Batch.first \in Seqs /\ Batch.last \in Seqs
  BY <1>1, BatchSeqs DEF BaseInv, FeedInv
<1>3. mc = "insert" => blk[Consumer].i \in Batch.first .. Batch.last
  BY <1>1 DEF BaseInv, FeedInv
<1>4. /\ mc = "insert" => Batch.first .. blk[Consumer].i - 1 \subseteq Seqs
      /\ mc = "cache" => Batch.first .. Batch.last \subseteq Seqs
  BY <1>1, <1>2, <1>3 DEF Seqs
<1>5. QED  BY <1>1, <1>4, StoredStays DEF KeepInv

LEMMA CacheBatchKeeps ==
  ASSUME StoreInv, NEW n \in 1 .. MaxBatch, CacheBatch(n)
  PROVE  StoreInv'
<1>0. BaseInv' /\ UNCHANGED callVars /\ SlotsGrow /\ n \in Nat
  BY CacheBatchBase, NoWrite, ConstantsAssumption DEF StoreInv, CacheBatch
<1>1. BaseInv /\ KeepInv /\ Forward /\ maxSeq \in Nat /\ maxSeq \in 0 .. MaxMsgs
      /\ maxSeq <= maxSeq /\ maxSeq + 1 .. maxSeq = {}
  BY <1>0, FeedFacts
<1>2. /\ maxSeq' = maxSeq /\ cache' = cache \cup (maxSeq + 1 .. maxSeq + n) /\ fresh' = [pc |-> "cached", n |-> n]
      /\ mc' = mc /\ blk' = blk /\ Batch' = Batch
  BY DEF CacheBatch, Batch
<1>3. fresh'.n = n
  BY <1>2
<1>4. KeepInv'
  BY <1>0, <1>1, <1>2, <1>3, BatchStays, KeepBy
<1>5. \A s \in cache' : s \in cache \/ s > maxSeq
  BY <1>0, <1>1, <1>2
<1>6. QED  BY <1>0, <1>4, <1>5, FeedKeeps

LEMMA NumberBatchKeeps ==
  ASSUME StoreInv, NumberBatch
  PROVE  StoreInv'
<1>0. BaseInv' /\ UNCHANGED callVars /\ SlotsGrow
  BY NumberBatchBase, NoWrite DEF StoreInv, NumberBatch
<1>1. BaseInv /\ KeepInv /\ Forward /\ maxSeq \in Nat /\ fresh.n \in Nat
  BY <1>0, FeedFacts
<1>2. maxSeq' = maxSeq + fresh.n /\ cache' = cache /\ mc' = mc /\ blk' = blk /\ Batch' = Batch
      /\ fresh.pc = "cached"
  BY DEF NumberBatch, Batch
<1>3. fresh'.pc = "numbered"
  BY <1>1 DEF NumberBatch, BaseInv, StoreType
<1>4. maxSeq <= maxSeq' /\ maxSeq' \in 0 .. MaxMsgs
  BY <1>0, <1>1, <1>2 DEF BaseInv, StoreType
<1>5. \A s \in maxSeq + 1 .. maxSeq' : s \in cache' \/ Covered(s)'
  <2>1. \A s \in maxSeq + 1 .. maxSeq' : s \in cache \/ Covered(s)
    BY <1>1, <1>2 DEF KeepInv
  <2>2. QED  BY <1>1, <1>2, <2>1, CoveredStays
<1>6. KeepInv'
  BY <1>0, <1>1, <1>2, <1>3, <1>4, <1>5, BatchStays, KeepBy
<1>7. QED  BY <1>0, <1>2, <1>6, FeedKeeps

\* The batch in the cache that is being numbered stays there.
LEMMA FreshStays ==
  ASSUME StoreInv, Forward, fresh' = fresh, maxSeq' = maxSeq, \A s \in cache : s > maxSeq => s \in cache'
  PROVE  fresh'.pc = "cached" =>
             \A s \in maxSeq' + 1 .. maxSeq' + fresh'.n : s \in cache' \/ Covered(s)'
<1>0. KeepInv /\ maxSeq \in Nat /\ fresh.n \in Nat
  BY DEF StoreInv, BaseInv, StoreType
<1>1. fresh.pc = "cached" => \A s \in maxSeq + 1 .. maxSeq + fresh.n : s \in cache \/ Covered(s)
  BY <1>0 DEF KeepInv
<1>2. \A s \in maxSeq + 1 .. maxSeq + fresh.n : s > maxSeq
  BY <1>0
<1>3. QED  BY <1>1, <1>2, CoveredStays

\* A step of the consumer outside the insert that leaves the cache alone.
LEMMA ConsumerKeeps ==
  ASSUME StoreInv, BaseInv', UNCHANGED callVars, UNCHANGED <<maxSeq, cache, fresh, docs, slot>>,
         mc' \notin {"insert", "cache"}
  PROVE  StoreInv'
<1>0. SlotsGrow /\ Forward /\ maxSeq \in 0 .. MaxMsgs /\ maxSeq <= maxSeq /\ maxSeq + 1 .. maxSeq = {}
  <2>1. UNCHANGED mongoVars /\ BaseInv
    BY DEF mongoVars, StoreInv
  <2>2. SlotsGrow
    BY <2>1, NoWrite
  <2>3. QED  BY <2>2, FeedFacts
<1>1. fresh'.pc = "cached" => \A s \in maxSeq' + 1 .. maxSeq' + fresh'.n : s \in cache' \/ Covered(s)'
  BY <1>0, FreshStays
<1>2. KeepInv'
  BY <1>0, <1>1, KeepBy
<1>3. QED  BY <1>0, <1>2, FeedKeeps

LEMMA SenderHasReadKeeps ==
  ASSUME StoreInv, SenderHasRead
  PROVE  StoreInv'
<1>0. BaseInv' /\ UNCHANGED callVars /\ SlotsGrow
  BY SenderHasReadBase, NoWrite DEF StoreInv, SenderHasRead
<1>1. BaseInv /\ Forward /\ maxSeq \in 0 .. MaxMsgs /\ maxSeq <= maxSeq /\ maxSeq + 1 .. maxSeq = {}
  BY <1>0, FeedFacts
<1>2. maxSeq' = maxSeq /\ cache' = cache /\ mc' = mc /\ blk' = blk /\ Batch' = Batch
  BY DEF SenderHasRead, Batch
<1>3. fresh'.pc = "marked"
  BY <1>1 DEF SenderHasRead, BaseInv, StoreType
<1>4. KeepInv'
  BY <1>0, <1>1, <1>2, <1>3, BatchStays, KeepBy
<1>5. QED  BY <1>0, <1>2, <1>4, FeedKeeps

LEMMA QueueBatchKeeps ==
  ASSUME StoreInv, QueueBatch
  PROVE  StoreInv'
<1>0. BaseInv' /\ UNCHANGED callVars /\ SlotsGrow
  BY QueueBatchBase, NoWrite DEF StoreInv, QueueBatch
<1>1. BaseInv /\ Forward /\ maxSeq \in 0 .. MaxMsgs /\ maxSeq <= maxSeq /\ maxSeq + 1 .. maxSeq = {}
  BY <1>0, FeedFacts
<1>2. maxSeq' = maxSeq /\ cache' = cache /\ mc' = mc /\ blk' = blk /\ fresh'.pc = "idle" /\ qpos' = qpos
  BY DEF QueueBatch, redisVars
<1>3. mc # "idle" => Batch' = Batch
  <2>1. PICK b : queue' = Append(queue, b)
    BY DEF QueueBatch
  <2>2. queue \in Seq(BatchSet) /\ qpos \in Nat /\ (mc # "idle" => qpos < Len(queue))
    BY <1>1 DEF BaseInv, StoreType, FeedInv
  <2>3. \A q \in 1 .. Len(queue) : queue'[q] = queue[q]
    BY <2>1, <2>2
  <2>4. QED  BY <1>2, <2>2, <2>3 DEF Batch
<1>4. KeepInv'
  BY <1>0, <1>1, <1>2, <1>3, BatchStays, KeepBy
<1>5. QED  BY <1>0, <1>2, <1>4, FeedKeeps

LEMMA ConsumeBatchKeeps ==
  ASSUME StoreInv, ConsumeBatch
  PROVE  StoreInv'
<1>0. BaseInv' /\ UNCHANGED callVars /\ SlotsGrow
  BY ConsumeBatchBase, NoWrite DEF StoreInv, ConsumeBatch
<1>1. BaseInv /\ Forward /\ maxSeq \in 0 .. MaxMsgs /\ maxSeq <= maxSeq /\ maxSeq + 1 .. maxSeq = {}
  BY <1>0, FeedFacts
<1>2. maxSeq' = maxSeq /\ cache' = cache /\ mc' = "insert" /\ Batch' = Batch /\ fresh' = fresh
      /\ qpos < Len(queue)
  BY DEF ConsumeBatch, Batch, redisVars
<1>3. Batch.first \in Nat
  BY <1>1, <1>2, BatchSeqs DEF Seqs
<1>4. blk'[Consumer].i = Batch.first
  <2>1. blk \in [Call \cup {Consumer} -> BlockSet]
    BY <1>1 DEF BaseInv, StoreType
  <2>2. QED  BY <2>1 DEF ConsumeBatch
<1>5. Batch'.first .. blk'[Consumer].i - 1 = {}
  BY <1>2, <1>3, <1>4
<1>6. fresh'.pc = "cached" => \A s \in maxSeq' + 1 .. maxSeq' + fresh'.n : s \in cache' \/ Covered(s)'
  BY <1>1, <1>2, FreshStays
<1>7. KeepInv'
  BY <1>0, <1>1, <1>2, <1>5, <1>6, KeepBy
<1>8. QED  BY <1>0, <1>2, <1>7, FeedKeeps

\* The consumer writes its message beside whatever a revoke, a mark or a delete left in the slot.
LEMMA ConsumerBlockKeeps ==
  ASSUME StoreInv, BlockUpdate(Consumer) \/ BlockCreate(Consumer)
  PROVE  StoreInv'
<1>0. /\ BaseInv /\ BaseInv' /\ Consumer \in Call \cup {Consumer}
  BY ConsumerBlockBase DEF StoreInv
<1>1. /\ SlotsGrow /\ Writing(Consumer)
      /\ UNCHANGED <<op, redisVars, queue, qpos, fresh, left, users, redelivered, view, todo, num>>
  BY <1>0, BlockWrites
<1>2. PICK b : BlockDoes(Consumer, b)
  BY <1>0, BlockWrites
<1>3. /\ mc = "insert" /\ blk[Consumer].last = Batch.last /\ blk[Consumer].i \in Batch.first .. Batch.last
      /\ Batch.first \in Nat /\ Batch.last \in Nat
  BY <1>0, <1>1, BlockRange DEF Seqs
<1>4. /\ b \in BlockSet /\ b.last = Batch.last /\ b.i \in blk[Consumer].i .. Batch.last + 1
      /\ AfterBlock(Consumer, b)
      /\ \A t \in blk[Consumer].i .. b.i - 1 : DocOf(t) \in docs' /\ SlotOf(t)'.msg = t
  BY <1>2, <1>3 DEF BlockDoes
<1>5. /\ blk' = [blk EXCEPT ![Consumer] = b] /\ UNCHANGED <<pc, hist>>
      /\ mc' = (IF b.i > b.last THEN "cache" ELSE "insert")
  BY <1>4 DEF AfterBlock
<1>6. blk'[Consumer] = b
  <2>1. blk \in [Call \cup {Consumer} -> BlockSet]
    BY <1>0 DEF BaseInv, StoreType
  <2>2. QED  BY <1>5, <2>1
<1>7. UNCHANGED callVars /\ maxSeq' = maxSeq /\ cache' = cache /\ fresh' = fresh /\ Batch' = Batch
  BY <1>1, <1>5 DEF callVars, redisVars, Batch
<1>8. Forward /\ maxSeq \in 0 .. MaxMsgs /\ maxSeq <= maxSeq /\ maxSeq + 1 .. maxSeq = {}
  BY <1>7, FeedFacts
<1>9. ASSUME NEW s \in Batch.first .. b.i - 1 PROVE Stored(s)' \/ Covered(s)'
  <2>1. CASE s \in Batch.first .. blk[Consumer].i - 1
    BY <1>1, <1>3, <1>8, <2>1, BatchStays
  <2>2. CASE s \in blk[Consumer].i .. b.i - 1
    BY <1>4, <2>2 DEF Stored
  <2>3. QED  BY <1>3, <1>4, <2>1, <2>2
<1>10. mc' = "cache" => b.i - 1 = Batch.last
  BY <1>3, <1>4, <1>5
<1>11. fresh'.pc = "cached" => \A s \in maxSeq' + 1 .. maxSeq' + fresh'.n : s \in cache' \/ Covered(s)'
  BY <1>7, <1>8, FreshStays
<1>12. mc' = "cache" => \A s \in Batch'.first .. Batch'.last : Stored(s)' \/ Covered(s)'
  BY <1>7, <1>9, <1>10
<1>13. KeepInv'
  BY <1>1, <1>6, <1>7, <1>8, <1>9, <1>11, <1>12, KeepBy
<1>14. QED  BY <1>0, <1>1, <1>7, <1>13, FeedKeeps

LEMMA DropFromCacheKeeps ==
  ASSUME StoreInv, DropFromCache
  PROVE  StoreInv'
<1>0. BaseInv' /\ UNCHANGED callVars /\ SlotsGrow
  BY DropFromCacheBase, NoWrite DEF StoreInv, DropFromCache
<1>1. BaseInv /\ Forward /\ maxSeq \in Nat /\ maxSeq \in 0 .. MaxMsgs /\ maxSeq <= maxSeq /\ maxSeq + 1 .. maxSeq = {}
  BY <1>0, FeedFacts
<1>2. /\ maxSeq' = maxSeq /\ cache' = cache \ (Batch.first .. Batch.last) /\ mc = "cache" /\ mc' = "lists"
      /\ fresh' = fresh
  BY DEF DropFromCache
<1>3. Batch.first \in Nat /\ Batch.last \in Nat /\ Batch.last <= maxSeq
  <2>1. qpos < Len(queue)
    BY <1>1, <1>2 DEF BaseInv, FeedInv
  <2>2. QED  BY <1>1, <2>1, BatchSeqs DEF Seqs
<1>4. \A s \in Batch.first .. Batch.last : Stored(s)' \/ Covered(s)'
  BY <1>0, <1>1, <1>2, BatchStays
<1>5. \A s \in cache : s > maxSeq => s \in cache'
  BY <1>1, <1>2, <1>3
<1>6. fresh'.pc = "cached" => \A s \in maxSeq' + 1 .. maxSeq' + fresh'.n : s \in cache' \/ Covered(s)'
  BY <1>1, <1>2, <1>5, FreshStays
<1>7. KeepInv'
  BY <1>0, <1>1, <1>2, <1>4, <1>6, KeepBy
<1>8. QED  BY <1>0, <1>2, <1>7, FeedKeeps

LEMMA ReadDelListKeeps ==
  ASSUME StoreInv, ReadDelList
  PROVE  StoreInv'
BY ReadDelListBase, ConsumerKeeps DEF StoreInv, ReadDelList, redisVars, mongoVars

LEMMA ClearDelListKeeps ==
  ASSUME StoreInv, ClearDelList
  PROVE  StoreInv'
<1>1. BaseInv' /\ UNCHANGED callVars /\ UNCHANGED <<maxSeq, cache, fresh, docs, slot>> /\ mc' = "lists"
  BY ClearDelListBase DEF StoreInv, ClearDelList, mongoVars
<1>2. QED  BY <1>1, ConsumerKeeps

LEMMA BatchDoneKeeps ==
  ASSUME StoreInv, BatchDone
  PROVE  StoreInv'
BY BatchDoneBase, ConsumerKeeps DEF StoreInv, BatchDone, redisVars, mongoVars

LEMMA RedeliverKeeps ==
  ASSUME StoreInv, NEW q \in 0 .. qpos, Redeliver(q)
  PROVE  StoreInv'
<1>1. BaseInv' /\ UNCHANGED callVars /\ UNCHANGED <<maxSeq, cache, fresh, docs, slot>> /\ mc' = "idle"
  BY RedeliverBase DEF StoreInv, Redeliver, redisVars, mongoVars
<1>2. QED  BY <1>1, ConsumerKeeps

-----------------------------------------------------------------------------
(* The whole invariant holds.                                              *)

LEMMA InitStore == Init => StoreInv
<1> SUFFICES ASSUME Init PROVE StoreInv
  OBVIOUS
<1>1. BaseInv
  BY InitBase
<1>2. KeepInv
  <2>1. \A s \in Seqs : SlotOf(s).hasDel
    <3>1. ASSUME NEW s \in Seqs PROVE SlotOf(s) = EmptySlot
      <4>1. DocOf(s) \in Docs /\ IndexOf(s) \in Index
        BY SlotOfSeq
      <4>2. QED  BY <4>1 DEF Init, SlotOf
    <3>2. QED  BY <3>1 DEF EmptySlot
  <2>2. 1 .. maxSeq = {} /\ fresh.pc = "idle" /\ mc = "idle"
    BY DEF Init
  <2>3. QED  BY <2>1, <2>2 DEF KeepInv
<1>3. WrittenInv
  <2>1. ASSUME NEW k \in Call PROVE RevokeKept(k) /\ MarkKept(k) /\ DeleteKept(k)
    <3>1. pc[k] = "start" /\ view[k].seqs = {}
      BY DEF Init, NoView
    <3>2. QED  BY <3>1 DEF RevokeKept, MarkKept, DeleteKept
  <2>2. QED  BY <2>1 DEF WrittenInv
<1>4. ShownInv
  <2>1. \A k \in Call : hist[k].before = {}
    BY DEF Init
  <2>2. QED  BY <2>1 DEF ShownInv
<1>5. QED  BY <1>1, <1>2, <1>3, <1>4 DEF StoreInv

LEMMA ReadStore ==
  ASSUME StoreInv, NEW k \in Call, Read(k)
  PROVE  StoreInv' /\ CallStep(k)
BY GetUserMinSeqKeeps, GetMinSeqKeeps, GetMaxSeqKeeps, ReadCacheKeeps, DropDeletedKeeps, ReadAgainKeeps,
   ReadDocKeeps, HandleMsgKeeps, ReadQuotedKeeps, RewriteQuoteKeeps, ReadEndsKeeps DEF Read

LEMMA DeleteStore ==
  ASSUME StoreInv, NEW k \in Call, Delete(k)
  PROVE  StoreInv' /\ CallStep(k)
BY FindCachedKeeps, AddUserKeeps, AddSeqKeeps, ListsWrittenKeeps, PushDelListKeeps,
   DropDeletedFromCacheKeeps, RemoveMsgsKeeps DEF Delete

LEMMA CronStore ==
  ASSUME StoreInv, NEW k \in Call, Cron(k)
  PROVE  StoreInv' /\ CallStep(k)
BY PurgeStartsKeeps, PurgeExpiredKeeps, PurgeDocsKeeps, PurgeCacheKeeps, PurgeSetsMinKeeps, PurgeDocKeeps,
   DestructDocKeeps, DestructNoDocKeeps, DestructGetMinKeeps, DestructSetMinKeeps DEF Cron

LEMMA MarkStore ==
  ASSUME StoreInv, NEW k \in Call, Mark(k)
  PROVE  StoreInv' /\ CallStep(k)
BY ClearGetMaxKeeps, ClearSetMinKeeps, MarkCheckMaxKeeps, MarkGetReadKeeps, MarkedAllKeeps,
   SetHasReadKeeps, MarkDocKeeps DEF Mark

LEMMA NumberingStore ==
  ASSUME StoreInv, Numbering
  PROVE  StoreInv'
BY CacheBatchKeeps, NumberBatchKeeps, SenderHasReadKeeps, QueueBatchKeeps DEF Numbering

LEMMA InsertStore ==
  ASSUME StoreInv, Insert
  PROVE  StoreInv'
BY ConsumeBatchKeeps, ConsumerBlockKeeps, DropFromCacheKeeps, ReadDelListKeeps, ClearDelListKeeps,
   BatchDoneKeeps DEF Insert

LEMMA StutterKeeps ==
  ASSUME StoreInv, UNCHANGED vars
  PROVE  StoreInv'
<1>1. BaseInv /\ BaseInv'
  BY BaseNext DEF StoreInv
<1>2. UNCHANGED callVars /\ UNCHANGED mongoVars /\ UNCHANGED <<maxSeq, cache, queue, qpos, fresh, mc, blk>>
  BY DEF vars, redisVars, mongoVars, feedVars, callVars
<1>3. SlotsGrow
  BY <1>1, <1>2, NoWrite
<1>4. Forward /\ maxSeq \in 0 .. MaxMsgs /\ maxSeq <= maxSeq /\ maxSeq + 1 .. maxSeq = {} /\ Batch' = Batch
  BY <1>2, FeedFacts DEF Batch
<1>5. fresh'.pc = "cached" => \A s \in maxSeq' + 1 .. maxSeq' + fresh'.n : s \in cache' \/ Covered(s)'
  BY <1>2, <1>4, FreshStays
<1>6. KeepInv'
  BY <1>2, <1>3, <1>4, <1>5, BatchStays, KeepBy
<1>7. QED  BY <1>1, <1>2, <1>3, <1>6, FeedKeeps

LEMMA StoreNext == StoreInv /\ [Next]_vars => StoreInv'
<1> SUFFICES ASSUME StoreInv, [Next]_vars PROVE StoreInv'
  OBVIOUS
<1>1. CASE Numbering
  BY <1>1, NumberingStore
<1>2. CASE Insert
  BY <1>2, InsertStore
<1>3. CASE \E q \in 0 .. qpos : Redeliver(q)
  BY <1>3, RedeliverKeeps
<1>4. ASSUME NEW k \in Call, Run(k) PROVE StoreInv'
  BY <1>4, ReadStore, DeleteStore, CronStore, MarkStore, RevokeBlockKeeps DEF Run
<1>5. CASE UNCHANGED vars
  BY <1>5, StutterKeeps
<1>6. QED  BY <1>1, <1>2, <1>3, <1>4, <1>5 DEF Next

\* Spec => []StoreInv: the consumer, redelivered batches, reads, revokes, deletes, marks, purges and
\* destructs, in any number and any interleaving, keep every message that nobody removes and everything
\* that was written beside it.
THEOREM StoreInvariant == Spec => []StoreInv
<1>1. QED  BY InitStore, StoreNext, PTL DEF Spec

\* MarksLast: a revoke or a read mark that was acknowledged is in its slot, whether the consumer wrote
\* the message before or after it, and whoever created the document (UpdateMsg sets one field).
THEOREM MarksLastHolds == Spec => []MarksLast
<1>1. StoreInv => MarksLast
  <2> SUFFICES ASSUME StoreInv, NEW k \in Call, pc[k] = "done", NEW s \in Seqs,
                      \A j \in Call : Covers(j, s) => ~Begun(j)
               PROVE  /\ (Kind(k) = "revoke" /\ s = op[k].end) => SlotOf(s).revoke
                      /\ (Kind(k) \in {"markMsgs", "markConv"} /\ s \in view[k].seqs) =>
                            (SlotOf(s).isRead \/ Sender[s] = op[k].user)
    BY DEF MarksLast
  <2>1. ~Covered(s)
    BY DEF Covered
  <2>2. RevokeKept(k) /\ MarkKept(k)
    BY DEF StoreInv, WrittenInv
  <2>3. Kind(k) = "revoke" /\ s = op[k].end => SlotOf(s).revoke
    BY <2>1, <2>2 DEF RevokeKept
  <2>4. Kind(k) \in {"markMsgs", "markConv"} /\ s \in view[k].seqs => SlotOf(s).isRead \/ Sender[s] = op[k].user
    BY <2>1, <2>2 DEF MarkKept
  <2>5. QED  BY <2>3, <2>4
<1>2. QED  BY <1>1, StoreInvariant, PTL

\* RevokedIsShown: a pull that begins after a revoke was acknowledged and finds the message in MongoDB
\* shows it as revoked (GetMsgBySeqIndexIn1Doc looks at the revoke beside the message).
THEOREM RevokedIsShownHolds == Spec => []RevokedIsShown
<1>1. StoreInv => RevokedIsShown
  <2> SUFFICES ASSUME StoreInv, NEW j \in Call, NEW k \in Call,
                      Kind(j) = "revoke", k \in Readers, j \in hist[k].before, pc[j] = "done",
                      NEW e \in view[k].got, e.seq = op[j].end
               PROVE  \/ e.how \in {"revoked", "cached"}
                      \/ \E i \in Call : Begun(i) /\ Covers(i, e.seq)
    BY DEF RevokedIsShown
  <2>1. Kind(k) \in ReadKinds /\ ShownInv
    BY DEF Readers, ReadKinds, StoreInv
  <2>2. AgreesWith(j, k, e)
    BY <2>1 DEF ShownInv
  <2>3. e.how \in {"revoked", "cached"} \/ Covered(e.seq)
    BY <2>2 DEF AgreesWith
  <2>4. QED  BY <2>3 DEF Covered
<1>2. QED  BY <1>1, StoreInvariant, PTL

\* DeletedStaysHidden: a message that had left the cache when its user deleted it is in none of the
\* user's later pulls; neither the consumer, a redelivery, a revoke nor a mark takes the user out of del_list.
THEOREM DeletedStaysHiddenHolds == Spec => []DeletedStaysHidden
<1>1. StoreInv => DeletedStaysHidden
  <2> SUFFICES ASSUME StoreInv, NEW j \in Call, NEW k \in Call,
                      Kind(j) = "deleteSelf", k \in Readers, op[j].user = op[k].user,
                      j \in hist[k].before, pc[j] = "done",
                      NEW s \in op[j].seqs \ view[j].seqs, s \in Answer(k)
               PROVE  \E i \in Call : Begun(i) /\ Covers(i, s)
    BY DEF DeletedStaysHidden
  <2>1. Kind(k) \in ReadKinds /\ ShownInv
    BY DEF Readers, ReadKinds, StoreInv
  <2>2. PICK e \in view[k].got : e.seq = s
    BY DEF Answer
  <2>3. AgreesWith(j, k, e)
    BY <2>1 DEF ShownInv
  <2>4. Covered(s)
    BY <2>2, <2>3 DEF AgreesWith, Uncached
  <2>5. QED  BY <2>4 DEF Covered
<1>2. QED  BY <1>1, StoreInvariant, PTL

\* No message is lost: from its number on, a message nobody takes away from everyone is in the cache or in
\* its slot, and the slot can be read (BatchInsertBlock against its retries, a revoke that creates the
\* document first, a redelivered batch).
MessagesKept ==
    \A s \in 1 .. maxSeq : s \in cache \/ (Stored(s) /\ ~ReadFails(s)) \/ Covered(s)

LEMMA InvKeepsMessages == StoreInv => MessagesKept
<1> SUFFICES ASSUME StoreInv, NEW s \in 1 .. maxSeq PROVE s \in cache \/ (Stored(s) /\ ~ReadFails(s)) \/ Covered(s)
  BY DEF MessagesKept
<1>1. s \in Seqs
  BY ConstantsAssumption DEF StoreInv, BaseInv, StoreType, Seqs
<1>2. QED  BY <1>1 DEF StoreInv, KeepInv, ReadFails

\* Spec => []MessagesKept, for any calls: what Readable says, except that a purge that is over still
\* answers for all that had expired when it began.
THEOREM MessagesKeptHolds == Spec => []MessagesKept
<1>1. QED  BY InvKeepsMessages, StoreInvariant, PTL

\* Readable, when every purge of the instance clears the conversation (remainTime = 0) or there is none:
\* the difference from MessagesKept is the lower limit a purge leaves behind, which a second call that sets
\* MIN_SEQ may move back.
THEOREM ReadableHolds ==
  ASSUME \A o \in Scenario : \A k \in Call : o[k].kind = "purge" => o[k].clean
  PROVE  Spec => []Readable
<1>1. StoreInv => Readable
  <2> SUFFICES ASSUME StoreInv, NEW s \in 1 .. maxSeq
               PROVE  \/ s \in cache
                      \/ Stored(s) /\ ~ReadFails(s)
                      \/ \E j \in Call : Begun(j) /\ Covers(j, s) /\ ~(Purged(j) /\ s >= minSeq)
    BY DEF Readable
  <2>1. s \in cache \/ (Stored(s) /\ ~ReadFails(s)) \/ Covered(s)
    BY InvKeepsMessages DEF MessagesKept
  <2>2. op \in Scenario
    BY DEF StoreInv, BaseInv, StoreType
  <2>3. \A j \in Call : ~Purged(j)
    BY <2>2 DEF Purged, Kind
  <2>4. QED  BY <2>1, <2>3 DEF Covered
<1>2. QED  BY <1>1, StoreInvariant, PTL

-----------------------------------------------------------------------------
(* A pull misses nothing.                                                  *)

\* A user's delete of the message has begun.
HiddenBy(u, s) ==
    \E j \in Call : Begun(j) /\ Kind(j) = "deleteSelf" /\ op[j].user = u /\ s \in op[j].seqs

\* What a delete still has to write to the lists is what it was asked to delete.
Listing(k) ==
    /\ pc[k] \in {"users", "seqs"} => todo[k] \subseteq op[k].seqs
    /\ pc[k] = "seqs" => todo[k] # {}

\* Only its deletes hide a message from a user: the lists of Redis and del_list.
DelInv ==
    /\ userDel \in [User -> SUBSET Seqs]
    /\ \A u \in User : \A s \in userDel[u] : HiddenBy(u, s)
    /\ \A s \in Seqs : \A u \in SlotOf(s).del : HiddenBy(u, s)
    /\ \A k \in Call : Listing(k)

\* The page is the end of the window, of at most num seqs that were all numbered.
PullRange(k) ==
    /\ view[k].begin >= 1 /\ view[k].begin <= view[k].first
    /\ view[k].first <= view[k].end + 1 /\ view[k].end <= maxSeq
    /\ view[k].end - view[k].first < op[k].num

\* A pull that has looked into the cache: what it did not find there is in
\* MongoDB, and no seq of its page was dropped without a reason.
Looking(k) ==
    /\ view[k].end # 0
    /\ view[k].miss \subseteq Window(k)
    /\ \A s \in view[k].miss : Stored(s) \/ Covered(s)
    /\ \A s \in Page(k) :
         \/ s \in Answer(k) \/ s \in view[k].miss \/ \E e \in view[k].page : e.seq = s
         \/ HiddenBy(op[k].user, s) \/ Covered(s)

\* A pull that is over: something it may look at was being removed, or it
\* succeeded and answers all of its page that the user has not deleted.
EndedWell(k) ==
    \/ \E s \in Window(k) : \E j \in hist[k].during : Covers(j, s)
    \/ /\ pc[k] = "done"
       /\ \A s \in Page(k) :
            \/ s \in Answer(k)
            \/ \E j \in hist[k].during : /\ Kind(j) = "deleteSelf" /\ s \in op[j].seqs
                                         /\ op[j].user = op[k].user

PullInv(k) ==
    Kind(k) = "pull" =>
        /\ pc[k] \in {"start", "min", "max"} => view[k].end = 0
        /\ pc[k] = "cache" => view[k].end # 0
        /\ view[k].end # 0 => PullRange(k)
        /\ pc[k] = "again" => todo[k] \subseteq Window(k)
        /\ pc[k] \in {"dels", "again", "docs", "rewrite"} => Looking(k)
        /\ Ended(k) /\ view[k].end # 0 => EndedWell(k)

ReadersInv == StoreInv /\ DelInv /\ \A k \in Call : PullInv(k)

\* What is asked of the clients: a page fits into one read of a document.
SmallPages == \A o \in Scenario : \A k \in Call : o[k].kind = "pull" => o[k].num <= PageLimit

\* The deletions.
LEMMA HiddenStays ==
  ASSUME Forward, NEW u, NEW s, HiddenBy(u, s)
  PROVE  HiddenBy(u, s)'
<1>1. PICK j \in Call : Begun(j) /\ Kind(j) = "deleteSelf" /\ op[j].user = u /\ s \in op[j].seqs
  BY DEF HiddenBy
<1>2. Begun(j)' /\ Kind(j)' = "deleteSelf" /\ op'[j].user = u /\ s \in op'[j].seqs
  BY <1>1 DEF Forward, Begun, Kind
<1>3. QED  BY <1>2 DEF HiddenBy

LEMMA DelStays ==
  ASSUME DelInv, Forward,
         \A s \in Seqs : \A u \in SlotOf(s)'.del : u \in SlotOf(s).del \/ HiddenBy(u, s)',
         userDel' \in [User -> SUBSET Seqs],
         \A u \in User : \A s \in userDel'[u] : s \in userDel[u] \/ HiddenBy(u, s)',
         \A k \in Call : Listing(k)'
  PROVE  DelInv'
<1>1. \A u \in User : \A s \in userDel'[u] : HiddenBy(u, s)'
  BY HiddenStays DEF DelInv
<1>2. \A s \in Seqs : \A u \in SlotOf(s)'.del : HiddenBy(u, s)'
  BY HiddenStays DEF DelInv
<1>3. QED  BY <1>1, <1>2 DEF DelInv

\* A step of a call that is not a user's delete.
LEMMA OthersHideNothing ==
  ASSUME StoreInv, StoreInv', DelInv, NEW k \in Call, CallStep(k), Kind(k) # "deleteSelf",
         NoneAdded, userDel' = userDel
  PROVE  DelInv'
<1>1. BaseInv /\ BaseInv' /\ Forward /\ op' = op /\ Kind(k)' = Kind(k) /\ Kind(k) \in Kinds
  BY CallKeep, KindAt DEF StoreInv, CallStep, Kind
<1>2. pc'[k] \notin {"users", "seqs"}
  <2>1. pc'[k] \in {"start"} \cup Final \cup PlaceOf(Kind(k))
    BY <1>1 DEF BaseInv, CallInv, CallInvOf, PlaceInv
  <2>2. CASE Kind(k) \in ReadKinds
    BY <2>1, <2>2 DEF PlaceOf, Final, ReadKinds
  <2>3. CASE Kind(k) \in {"deleteAll", "purge", "destruct"}
    BY <2>1, <2>3 DEF PlaceOf, Final
  <2>4. CASE Kind(k) \in {"clearSelf", "clearAll"} \cup MarkKinds
    BY <2>1, <2>4 DEF PlaceOf, Final, MarkKinds
  <2>5. QED  BY <1>1, <2>2, <2>3, <2>4 DEF Kinds, ReadKinds, MarkKinds
<1>3. ASSUME NEW j \in Call PROVE Listing(j)'
  <2>1. CASE j = k
    BY <1>2, <2>1 DEF Listing
  <2>2. CASE j # k
    <3>1. pc'[j] = pc[j] /\ todo'[j] = todo[j]
      BY <2>2 DEF CallStep
    <3>2. QED  BY <1>1, <3>1 DEF Listing, DelInv
  <2>3. QED  BY <2>1, <2>2
<1>4. userDel' \in [User -> SUBSET Seqs]
  BY DEF DelInv
<1>5. QED  BY <1>1, <1>3, <1>4, DelStays DEF NoneAdded

\* The step of a delete.
LEMMA DeleteHides ==
  ASSUME StoreInv, DelInv, NEW k \in Call, CallStep(k), Kind(k) = "deleteSelf", Listing(k)',
         \A s \in Seqs : \A u \in SlotOf(s)'.del :
             u \in SlotOf(s).del \/ (u = op[k].user /\ s \in op[k].seqs),
         userDel' \in [User -> SUBSET Seqs],
         \A u \in User : \A s \in userDel'[u] :
             s \in userDel[u] \/ (u = op[k].user /\ s \in op[k].seqs),
         BaseInv'
  PROVE  DelInv'
<1>1. Forward /\ op' = op /\ Kind(k)' = Kind(k) /\ Begun(k)'
  BY CallKeep DEF CallStep, Kind, Begun
<1>2. \A s \in op[k].seqs : HiddenBy(op[k].user, s)'
  BY <1>1 DEF HiddenBy
<1>3. ASSUME NEW j \in Call PROVE Listing(j)'
  <2>1. CASE j # k
    <3>1. pc'[j] = pc[j] /\ todo'[j] = todo[j]
      BY <2>1 DEF CallStep
    <3>2. QED  BY <1>1, <3>1 DEF Listing, DelInv
  <2>2. QED  BY <2>1
<1>4. QED  BY <1>1, <1>2, <1>3, DelStays

LEMMA FindCachedHides ==
  ASSUME StoreInv, DelInv, NEW k \in Call, FindCached(k)
  PROVE  DelInv'
<1>1. CallStep(k) /\ StoreInv' /\ Kind(k) = "deleteSelf" /\ NoneAdded /\ userDel' = userDel /\ op' = op
  BY FindCachedKeeps, NoWrite DEF FindCached, redisVars
<1>2. pc'[k] = "users" /\ todo'[k] \subseteq op[k].seqs
  <2>1. pc \in [Call -> Place] /\ todo \in [Call -> SUBSET Nat]
    BY DEF StoreInv, BaseInv, StoreType
  <2>2. QED  BY <2>1 DEF FindCached, Go
<1>3. Listing(k)'
  BY <1>1, <1>2 DEF Listing
<1>4. QED  BY <1>1, <1>3, DeleteHides DEF NoneAdded, DelInv, StoreInv

LEMMA AddUserHides ==
  ASSUME StoreInv, DelInv, NEW k \in Call, AddUser(k)
  PROVE  DelInv'
<1>1. CallStep(k) /\ StoreInv' /\ Kind(k) = "deleteSelf" /\ NoneAdded /\ userDel' = userDel /\ op' = op
  BY AddUserKeeps, KindAt, NoWrite DEF AddUser, StoreInv
<1>2. pc'[k] = "seqs" /\ todo' = todo /\ todo[k] # {} /\ pc[k] = "users"
  <2>1. pc \in [Call -> Place]
    BY DEF StoreInv, BaseInv, StoreType
  <2>2. QED  BY <2>1 DEF AddUser, Go
<1>3. Listing(k)'
  BY <1>1, <1>2 DEF Listing, DelInv
<1>4. QED  BY <1>1, <1>3, DeleteHides DEF NoneAdded, DelInv, StoreInv

LEMMA AddSeqHides ==
  ASSUME StoreInv, DelInv, NEW k \in Call, AddSeq(k)
  PROVE  DelInv'
<1>1. CallStep(k) /\ StoreInv' /\ Kind(k) = "deleteSelf" /\ NoneAdded /\ op' = op /\ pc[k] = "seqs"
  BY AddSeqKeeps, KindAt, NoWrite DEF AddSeq, StoreInv
<1>2. todo[k] \subseteq op[k].seqs /\ todo[k] # {}
  BY <1>1 DEF DelInv, Listing
<1>3. op[k].seqs \subseteq Seqs /\ op[k].user \in User /\ StoreType
  BY <1>1, Requests DEF StoreInv, BaseInv
<1>4. PICK s : s = NextSeq(todo[k])
  OBVIOUS
<1>5. s \in todo[k]
  <2>1. todo[k] \subseteq Nat
    BY <1>2, <1>3 DEF Seqs
  <2>2. \E x \in todo[k] : \A y \in todo[k] : x <= y
    BY <1>2, <2>1, LeastExists
  <2>3. QED  BY <1>4, <2>2 DEF NextSeq
<1>6. userDel' = [userDel EXCEPT ![op[k].user] = @ \cup {s}] /\ userDel \in [User -> SUBSET Seqs]
  BY <1>4 DEF AddSeq, DelInv
<1>7. userDel' \in [User -> SUBSET Seqs]
  BY <1>2, <1>3, <1>5, <1>6
<1>8. \A u \in User : \A t \in userDel'[u] : t \in userDel[u] \/ (u = op[k].user /\ t \in op[k].seqs)
  BY <1>2, <1>3, <1>5, <1>6
<1>9. Listing(k)'
  <2>1. pc'[k] = "users" /\ todo'[k] \subseteq todo[k]
    BY <1>3 DEF AddSeq, Go, StoreType
  <2>2. QED  BY <1>1, <1>2, <2>1 DEF Listing
<1>10. QED  BY <1>1, <1>7, <1>8, <1>9, DeleteHides DEF NoneAdded, StoreInv

LEMMA ListsWrittenHides ==
  ASSUME StoreInv, DelInv, NEW k \in Call, ListsWritten(k)
  PROVE  DelInv'
<1>1. CallStep(k) /\ StoreInv' /\ Kind(k) = "deleteSelf" /\ NoneAdded /\ userDel' = userDel
  BY ListsWrittenKeeps, KindAt, NoWrite DEF ListsWritten, StoreInv, redisVars
<1>2. pc'[k] = "push"
  BY DEF ListsWritten, Go, StoreInv, BaseInv, StoreType
<1>3. Listing(k)'
  BY <1>2 DEF Listing
<1>4. QED  BY <1>1, <1>3, DeleteHides DEF NoneAdded, DelInv, StoreInv

LEMMA PushDelListHides ==
  ASSUME StoreInv, DelInv, NEW k \in Call, NEW s \in Seqs, PushDelList(k, s)
  PROVE  DelInv'
<1>1. CallStep(k) /\ StoreInv' /\ Kind(k) = "deleteSelf" /\ userDel' = userDel /\ BaseInv /\ pc[k] = "push"
  BY PushDelListKeeps, KindAt DEF PushDelList, StoreInv, redisVars
<1>2. \A t \in Seqs : \A u \in SlotOf(t)'.del : u \in SlotOf(t).del \/ (t = s /\ u = op[k].user)
  BY <1>1, PushDelListWrites
<1>3. s \in op[k].seqs
  BY <1>1, CallFacts DEF PushDelList, DeleteInv
<1>4. pc'[k] \in {"done", "push"}
  BY <1>1 DEF PushDelList, Go, BaseInv, StoreType
<1>5. Listing(k)'
  BY <1>4 DEF Listing
<1>6. QED  BY <1>1, <1>2, <1>3, <1>5, DeleteHides DEF DelInv, StoreInv

\* Every step of a call.
LEMMA ReadHides ==
  ASSUME StoreInv, NEW k \in Call, Read(k)
  PROVE  NoneAdded /\ userDel' = userDel /\ Kind(k) # "deleteSelf"
<1>0. BaseInv
  BY DEF StoreInv
<1>1. CASE k \in Readers /\ (GetUserMinSeq(k) \/ ReadEnds(k))
  BY <1>1, NoWrite DEF GetUserMinSeq, ReadEnds, Readers, redisVars
<1>2. CASE GetMinSeq(k) \/ GetMaxSeq(k)
  BY <1>2, NoWrite DEF GetMinSeq, GetMaxSeq, Readers, redisVars
<1>3. CASE ReadCache(k) \/ DropDeleted(k) \/ ReadAgain(k)
  BY <1>0, <1>3, NoWrite, KindAt DEF ReadCache, DropDeleted, ReadAgain, ReadKinds, redisVars
<1>4. CASE \E d \in Docs : ReadDoc(k, d)
  BY <1>0, <1>4, NoWrite, KindAt DEF ReadDoc, ReadKinds, redisVars
<1>5. CASE \E e \in view[k].page : HandleMsg(k, e) \/ ReadQuoted(k, e)
  BY <1>0, <1>5, NoWrite, KindAt DEF HandleMsg, ReadQuoted, ReadKinds, redisVars
<1>6. CASE \E e \in view[k].page : RewriteQuote(k, e)
  <2>1. PICK e \in view[k].page : RewriteQuote(k, e)
    BY <1>6
  <2>2. NoneAdded
    BY <1>0, <2>1, RewriteQuoteWrites
  <2>3. QED  BY <1>0, <2>1, <2>2, KindAt DEF RewriteQuote, ReadKinds, redisVars
<1>7. QED  BY <1>1, <1>2, <1>3, <1>4, <1>5, <1>6 DEF Read

LEMMA CronHides ==
  ASSUME StoreInv, NEW k \in Call, Cron(k)
  PROVE  NoneAdded /\ userDel' = userDel /\ Kind(k) # "deleteSelf"
<1>0. BaseInv
  BY DEF StoreInv
<1>1. CASE PurgeStarts(k) \/ PurgeCache(k) \/ PurgeSetsMin(k)
  BY <1>0, <1>1, NoWrite, KindAt DEF PurgeStarts, PurgeCache, PurgeSetsMin, redisVars
<1>2. CASE PurgeExpired(k)
  BY <1>0, <1>2, PurgeExpiredWrites, KindAt DEF PurgeExpired, redisVars
<1>3. CASE PurgeDocs(k)
  BY <1>0, <1>3, PurgeDocsWrites, KindAt DEF PurgeDocs, redisVars
<1>4. CASE \E d \in docs : PurgeDoc(k, d)
  <2>1. PICK d \in docs : PurgeDoc(k, d)
    BY <1>4
  <2>2. pc[k] = "scan" /\ UNCHANGED <<redisVars, mongoVars>>
    BY <2>1 DEF PurgeDoc
  <2>3. QED  BY <1>0, <2>2, NoWrite, KindAt DEF redisVars
<1>5. CASE \E d \in docs : DestructDoc(k, d)
  BY <1>5, NoWrite DEF DestructDoc, redisVars
<1>6. CASE DestructNoDoc(k) \/ DestructGetMin(k) \/ DestructSetMin(k)
  BY <1>0, <1>6, NoWrite, KindAt DEF DestructNoDoc, DestructGetMin, DestructSetMin, redisVars
<1>7. QED  BY <1>1, <1>2, <1>3, <1>4, <1>5, <1>6 DEF Cron

LEMMA MarkHides ==
  ASSUME StoreInv, NEW k \in Call, Mark(k)
  PROVE  NoneAdded /\ userDel' = userDel /\ Kind(k) # "deleteSelf"
<1>0. BaseInv
  BY DEF StoreInv
<1>1. CASE ClearGetMax(k) \/ ClearSetMin(k)
  BY <1>0, <1>1, NoWrite, KindAt DEF ClearGetMax, ClearSetMin, redisVars
<1>2. CASE MarkCheckMax(k) \/ MarkGetRead(k)
  BY <1>2, NoWrite DEF MarkCheckMax, MarkGetRead, redisVars
<1>3. CASE MarkedAll(k) \/ SetHasRead(k)
  BY <1>0, <1>3, NoWrite, KindAt DEF MarkedAll, SetHasRead, MarkKinds, redisVars
<1>4. CASE \E d \in Docs : MarkDoc(k, d)
  <2>1. PICK d \in Docs : MarkDoc(k, d)
    BY <1>4
  <2>2. NoneAdded
    BY <1>0, <2>1, MarkDocWrites
  <2>3. QED  BY <1>0, <2>1, <2>2, KindAt DEF MarkDoc, redisVars
<1>5. QED  BY <1>1, <1>2, <1>3, <1>4 DEF Mark

LEMMA DeleteDels ==
  ASSUME StoreInv, DelInv, NEW k \in Call, Delete(k)
  PROVE  DelInv'
<1>0. BaseInv
  BY DEF StoreInv
<1>1. CASE FindCached(k) \/ AddUser(k) \/ AddSeq(k) \/ ListsWritten(k)
  BY <1>1, FindCachedHides, AddUserHides, AddSeqHides, ListsWrittenHides
<1>2. CASE \E s \in Seqs : PushDelList(k, s)
  BY <1>2, PushDelListHides
<1>3. CASE DropDeletedFromCache(k)
  <2>1. StoreInv' /\ CallStep(k)
    BY <1>3, DropDeletedFromCacheKeeps
  <2>2. NoneAdded /\ userDel' = userDel /\ Kind(k) # "deleteSelf"
    BY <1>3, NoWrite DEF DropDeletedFromCache
  <2>3. QED  BY <2>1, <2>2, OthersHideNothing
<1>4. CASE \E d \in Docs : RemoveMsgs(k, d)
  <2>1. PICK d \in Docs : RemoveMsgs(k, d)
    BY <1>4
  <2>2. StoreInv' /\ CallStep(k)
    BY <2>1, RemoveMsgsKeeps
  <2>3. NoneAdded /\ userDel' = userDel /\ Kind(k) # "deleteSelf"
    BY <1>0, <2>1, RemoveMsgsWrites, KindAt DEF RemoveMsgs, redisVars
  <2>4. QED  BY <2>2, <2>3, OthersHideNothing
<1>5. QED  BY <1>1, <1>2, <1>3, <1>4 DEF Delete

LEMMA RunDels ==
  ASSUME StoreInv, DelInv, NEW k \in Call, Run(k)
  PROVE  DelInv' /\ StoreInv' /\ CallStep(k)
<1>0. StoreInv' /\ CallStep(k)
  BY ReadStore, DeleteStore, CronStore, MarkStore, RevokeBlockKeeps DEF Run
<1>1. CASE Read(k) \/ Cron(k) \/ Mark(k)
  BY <1>0, <1>1, ReadHides, CronHides, MarkHides, OthersHideNothing
<1>2. CASE Delete(k)
  BY <1>0, <1>2, DeleteDels
<1>3. CASE BlockUpdate(k) \/ BlockCreate(k)
  <2>1. BaseInv /\ k \in Call \cup {Consumer}
    BY DEF StoreInv
  <2>2. NoneAdded /\ Writing(k)
    BY <1>3, <2>1, BlockWrites
  <2>3. userDel' = userDel
    BY <1>3 DEF BlockUpdate, BlockCreate, redisVars
  <2>4. Kind(k) = "revoke"
    BY <2>1, <2>2, BlockRange
  <2>5. QED  BY <1>0, <2>2, <2>3, <2>4, OthersHideNothing
<1>4. QED  BY <1>0, <1>1, <1>2, <1>3 DEF Run

\* The numbering and the consumer leave the calls alone; what they write adds to the slots.
FeedStep ==
    /\ UNCHANGED callVars /\ SlotsGrow /\ NoneAdded
    /\ maxSeq' \in Nat /\ maxSeq <= maxSeq'

LEMMA FeedSteps ==
  ASSUME StoreInv, StoreInv', Numbering \/ Insert \/ (\E q \in 0 .. qpos : Redeliver(q)) \/ UNCHANGED vars
  PROVE  FeedStep
<1>0. BaseInv /\ maxSeq \in Nat /\ maxSeq' \in Nat /\ fresh.n \in Nat
  BY DEF StoreInv, BaseInv, StoreType
<1>1. CASE Numbering
  <2>1. UNCHANGED callVars /\ UNCHANGED mongoVars /\ maxSeq' \in {maxSeq, maxSeq + fresh.n}
    BY <1>1 DEF Numbering, CacheBatch, NumberBatch, SenderHasRead, QueueBatch, redisVars
  <2>2. maxSeq <= maxSeq'
    BY <1>0, <2>1
  <2>3. QED  BY <1>0, <2>1, <2>2, NoWrite DEF FeedStep
<1>2. CASE BlockUpdate(Consumer) \/ BlockCreate(Consumer)
  <2>1. SlotsGrow /\ NoneAdded /\ \E b : BlockDoes(Consumer, b)
    BY <1>0, <1>2, BlockWrites
  <2>2. UNCHANGED <<pc, hist>>
    BY <2>1 DEF BlockDoes, AfterBlock
  <2>3. UNCHANGED <<op, view, todo, num, maxSeq>>
    BY <1>2 DEF BlockUpdate, BlockCreate, redisVars
  <2>4. QED  BY <1>0, <2>1, <2>2, <2>3 DEF FeedStep, callVars
<1>3. CASE ConsumeBatch \/ DropFromCache \/ ReadDelList \/ ClearDelList \/ BatchDone
  <2>1. UNCHANGED callVars /\ UNCHANGED mongoVars /\ maxSeq' = maxSeq
    BY <1>3 DEF ConsumeBatch, DropFromCache, ReadDelList, ClearDelList, BatchDone, redisVars
  <2>2. QED  BY <1>0, <2>1, NoWrite DEF FeedStep
<1>4. CASE \E q \in 0 .. qpos : Redeliver(q)
  <2>1. UNCHANGED callVars /\ UNCHANGED mongoVars /\ maxSeq' = maxSeq
    BY <1>4 DEF Redeliver, redisVars
  <2>2. QED  BY <1>0, <2>1, NoWrite DEF FeedStep
<1>5. CASE UNCHANGED vars
  <2>1. UNCHANGED callVars /\ UNCHANGED mongoVars /\ maxSeq' = maxSeq
    BY <1>5 DEF vars, redisVars
  <2>2. QED  BY <1>0, <2>1, NoWrite DEF FeedStep
<1>6. QED  BY <1>1, <1>2, <1>3, <1>4, <1>5 DEF Insert

\* Nobody but a delete adds to a user's list: the consumer takes seqs out of it.
LEMMA FeedLists ==
  ASSUME DelInv, Numbering \/ Insert \/ (\E q \in 0 .. qpos : Redeliver(q)) \/ UNCHANGED vars
  PROVE  userDel' \in [User -> SUBSET Seqs] /\ \A u \in User : userDel'[u] \subseteq userDel[u]
<1>0. userDel \in [User -> SUBSET Seqs]
  BY DEF DelInv
<1>1. CASE ClearDelList
  <2>1. PICK s : userDel' = [u \in User |-> IF u \in users THEN userDel[u] \ {s} ELSE userDel[u]]
    BY <1>1 DEF ClearDelList
  <2>2. QED  BY <1>0, <2>1
<1>2. CASE ~ClearDelList
  <2>1. userDel' = userDel
    <3>1. CASE Numbering
      BY <3>1 DEF Numbering, CacheBatch, NumberBatch, SenderHasRead, QueueBatch, redisVars
    <3>2. CASE Insert
      BY <1>2, <3>2 DEF Insert, ConsumeBatch, BlockUpdate, BlockCreate, DropFromCache, ReadDelList, BatchDone, redisVars
    <3>3. CASE (\E q \in 0 .. qpos : Redeliver(q)) \/ UNCHANGED vars
      BY <3>3 DEF Redeliver, vars, redisVars
    <3>4. QED  BY <3>1, <3>2, <3>3
  <2>2. QED  BY <1>0, <2>1
<1>3. QED  BY <1>1, <1>2

LEMMA FeedDels ==
  ASSUME StoreInv, StoreInv', DelInv,
         Numbering \/ Insert \/ (\E q \in 0 .. qpos : Redeliver(q)) \/ UNCHANGED vars
  PROVE  DelInv'
<1>1. FeedStep
  BY FeedSteps
<1>2. Forward /\ UNCHANGED <<op, pc, todo>> /\ NoneAdded
  BY <1>1 DEF FeedStep, callVars, Forward
<1>3. \A k \in Call : Listing(k)'
  BY <1>2 DEF Listing, DelInv
<1>4. userDel' \in [User -> SUBSET Seqs] /\ \A u \in User : userDel'[u] \subseteq userDel[u]
  BY FeedLists
<1>5. QED  BY <1>2, <1>3, <1>4, DelStays DEF NoneAdded

-----------------------------------------------------------------------------
\* What is said of a pull stays while the pull itself does not move.
LEMMA LookingStays ==
  ASSUME StoreInv, NEW k \in Call, Forward, SlotsGrow, view'[k] = view[k], Looking(k)
  PROVE  Looking(k)'
<1>1. view[k] \in ViewSet /\ op' = op
  BY CallFacts DEF StoreInv, Forward
<1>2. Window(k)' = Window(k) /\ Page(k)' = Page(k) /\ Answer(k)' = Answer(k)
  BY DEF Window, Page, Answer
<1>3. ASSUME NEW s \in view[k].miss PROVE Stored(s)' \/ Covered(s)'
  <2>1. s \in Seqs
    BY <1>1 DEF ViewSet
  <2>2. QED  BY <2>1, StoredStays DEF Looking
<1>4. ASSUME NEW s \in Page(k)
      PROVE  \/ s \in Answer(k) \/ s \in view[k].miss \/ \E e \in view[k].page : e.seq = s
             \/ HiddenBy(op[k].user, s)' \/ Covered(s)'
  BY <1>1, HiddenStays, CoveredStays DEF Looking
<1>5. view[k].end # 0 /\ view[k].miss \subseteq Window(k)
  BY DEF Looking
<1>6. QED  BY <1>1, <1>2, <1>3, <1>4, <1>5 DEF Looking

LEMMA PullStays ==
  ASSUME StoreInv, NEW k \in Call, PullInv(k), Forward, SlotsGrow, maxSeq' \in Nat, maxSeq <= maxSeq',
         pc'[k] = pc[k], view'[k] = view[k], todo'[k] = todo[k], hist'[k] = hist[k]
  PROVE  PullInv(k)'
<1>0. op' = op /\ Kind(k)' = Kind(k) /\ view[k] \in ViewSet /\ maxSeq \in Nat
  BY CallFacts DEF StoreInv, Forward, Kind
<1>1. SUFFICES ASSUME Kind(k) = "pull" PROVE PullInv(k)'
  BY <1>0 DEF PullInv
<1>2. Window(k)' = Window(k) /\ Page(k)' = Page(k) /\ Answer(k)' = Answer(k)
  BY DEF Window, Page, Answer
<1>3. PullRange(k) => PullRange(k)'
  BY <1>0 DEF PullRange, ViewSet
<1>4. Looking(k) => Looking(k)'
  BY LookingStays
<1>5. EndedWell(k) => EndedWell(k)'
  BY <1>0, <1>2 DEF EndedWell, Covers, Kind
<1>6. Ended(k)' = Ended(k)
  BY DEF Ended
<1>7. QED  BY <1>0, <1>1, <1>2, <1>3, <1>4, <1>5, <1>6 DEF PullInv

\* When a call ends, the history holds the calls that have begun.
LEMMA EndHistory ==
  ASSUME StoreType, NEW k \in Call, NEW l \in Final, Go(k, l)
  PROVE  hist'[k].during = { j \in Call : pc[j] # "start" }
<1>1. hist \in [Call -> HistSet]
  BY DEF StoreType
<1>2. PICK b, d : /\ b = (IF pc[k] = "start" THEN { j \in Call : Ended(j) } ELSE hist[k].before)
                  /\ d = { j \in Call : pc[j] # "start" }
  OBVIOUS
<1>3. hist' = [hist EXCEPT ![k].before = b, ![k].during = d]
  BY <1>1, <1>2 DEF Go, HistSet
<1>4. PICK h : h = [hist[k] EXCEPT !.before = b, !.during = d]
  OBVIOUS
<1>5. h.during = d
  BY <1>1, <1>4 DEF HistSet
<1>6. hist' = [hist EXCEPT ![k] = h]
  BY <1>1, <1>3, <1>4
<1>7. QED  BY <1>1, <1>2, <1>5, <1>6

\* The steps of a pull before it looks into the cache.
LEMMA PullBegins ==
  ASSUME StoreInv, NEW k \in Call, Kind(k) = "pull", PullInv(k), GetUserMinSeq(k) \/ GetMinSeq(k)
  PROVE  PullInv(k)'
<1>0. /\ view \in [Call -> ViewSet] /\ pc \in [Call -> Place] /\ Kind(k)' = Kind(k)
  BY DEF StoreInv, BaseInv, StoreType, GetUserMinSeq, GetMinSeq, Kind
<1>1. pc[k] \in {"start", "min"} /\ view[k].end = 0
  BY DEF GetUserMinSeq, GetMinSeq, PullInv
<1>2. PICK b : view' = view \/ view' = [view EXCEPT ![k].begin = b]
  BY DEF GetUserMinSeq, GetMinSeq
<1>3. view'[k].end = 0
  BY <1>0, <1>1, <1>2 DEF ViewSet
<1>4. pc'[k] \in {"min", "max", "done"}
  BY <1>0 DEF GetUserMinSeq, GetMinSeq, Go
<1>5. QED  BY <1>3, <1>4 DEF PullInv

LEMMA PullPages ==
  ASSUME StoreInv, NEW k \in Call, Kind(k) = "pull", PullInv(k), GetMaxSeq(k)
  PROVE  PullInv(k)'
<1>0. /\ view \in [Call -> ViewSet] /\ pc \in [Call -> Place] /\ Kind(k)' = Kind(k) /\ op' = op
      /\ maxSeq \in Nat /\ maxSeq' = maxSeq /\ StoreType /\ BaseInv
  BY DEF StoreInv, BaseInv, StoreType, GetMaxSeq, Kind, redisVars
<1>1. pc[k] = "max" /\ view[k].end = 0 /\ view[k].begin >= 1 /\ view[k].begin \in Int
  BY <1>0, CallFacts DEF GetMaxSeq, PullInv, ReadInv, ReadKinds, ViewSet
<1>2. op[k].end \in Nat /\ op[k].num \in Nat /\ op[k].cap \in Nat
  BY <1>0, Requests DEF ReadKinds, Seqs
<1>3. PICK e, f : /\ e = Smaller(op[k].end, UpperSeq(k))
                  /\ f = Larger(view[k].begin, e - op[k].num + 1)
  OBVIOUS
<1>4. e \in Int /\ f \in Int /\ e <= maxSeq
  BY <1>0, <1>1, <1>2, <1>3 DEF Smaller, Larger, UpperSeq
<1>5. CASE Go(k, "failed") /\ UNCHANGED view
  BY <1>0, <1>1, <1>5 DEF PullInv, Go
<1>6. CASE ~(e < view[k].begin) /\ Go(k, "cache") /\ view' = [view EXCEPT ![k].end = e, ![k].first = f]
  <2>1. view'[k].end = e /\ view'[k].first = f /\ view'[k].begin = view[k].begin
    BY <1>0, <1>6 DEF ViewSet
  <2>2. pc'[k] = "cache" /\ e # 0
    BY <1>0, <1>1, <1>4, <1>6 DEF Go
  <2>3. /\ view[k].begin <= f /\ f <= e + 1 /\ e - f < op[k].num
    BY <1>1, <1>2, <1>3, <1>4, <1>6 DEF Larger
  <2>4. PullRange(k)'
    BY <1>0, <1>1, <1>4, <2>1, <2>3 DEF PullRange
  <2>5. QED  BY <2>1, <2>2, <2>4 DEF PullInv, Ended, Final
<1>7. QED  BY <1>3, <1>5, <1>6 DEF GetMaxSeq

\* A seq a pull may look at was numbered: it is in the cache or in MongoDB.
LEMMA WindowKept ==
  ASSUME StoreInv, NEW k \in Call, PullRange(k), NEW s \in Window(k)
  PROVE  s \in Seqs /\ (s \in cache \/ Stored(s) \/ Covered(s))
<1>1. view[k] \in ViewSet /\ maxSeq \in Nat /\ MaxMsgs \in Nat /\ maxSeq \in 0 .. MaxMsgs
  BY CallFacts DEF StoreInv
<1>2. s \in 1 .. maxSeq
  BY <1>1 DEF PullRange, Window, ViewSet
<1>3. QED  BY <1>1, <1>2 DEF StoreInv, KeepInv, Seqs

LEMMA PageInWindow ==
  ASSUME StoreInv, NEW k \in Call, PullRange(k)
  PROVE  Page(k) \subseteq Window(k) /\ view[k].begin .. (view[k].first - 1) \subseteq Window(k)
<1>1. view[k] \in ViewSet
  BY CallFacts DEF StoreInv
<1>2. QED  BY <1>1 DEF PullRange, Page, Window, ViewSet

\* The step of a pull that goes on, with the same page.
LEMMA PullGoesOn ==
  ASSUME StoreInv, NEW k \in Call, Kind(k) = "pull", PullInv(k), CallStep(k), BaseInv',
         view[k].end # 0,
         view'[k].begin = view[k].begin, view'[k].first = view[k].first, view'[k].end = view[k].end,
         pc'[k] \in {"dels", "again", "spin", "docs", "rewrite"},
         pc'[k] = "again" => todo'[k] \subseteq Window(k),
         pc'[k] # "spin" => Looking(k)'
  PROVE  PullInv(k)'
<1>1. op' = op /\ maxSeq' = maxSeq /\ Window(k)' = Window(k)
  BY DEF CallStep, Window
<1>2. PullRange(k)'
  BY <1>1 DEF PullInv, PullRange
<1>3. QED  BY <1>1, <1>2 DEF PullInv, Ended, Final

LEMMA PullReadsCache ==
  ASSUME StoreInv, NEW k \in Call, Kind(k) = "pull", PullInv(k), ReadCache(k)
  PROVE  PullInv(k)'
<1>0. /\ view \in [Call -> ViewSet] /\ pc \in [Call -> Place] /\ StoreInv' /\ CallStep(k) /\ BaseInv'
      /\ pc[k] = "cache" /\ view[k].end # 0 /\ PullRange(k) /\ Forward /\ SlotsGrow
  BY ReadCacheKeeps, CallKeep DEF StoreInv, BaseInv, StoreType, ReadCache, PullInv, CallStep
<1>1. PICK g, m : /\ g = Cached(Page(k) \cap cache) /\ m = Page(k) \ cache
                  /\ view' = [view EXCEPT ![k].got = g, ![k].miss = m]
  BY DEF ReadCache
<1>2. /\ view'[k].begin = view[k].begin /\ view'[k].first = view[k].first /\ view'[k].end = view[k].end
      /\ view'[k].got = g /\ view'[k].miss = m /\ view'[k].page = view[k].page
  BY <1>0, <1>1 DEF ViewSet
<1>3. pc'[k] \in {"dels", "docs"}
  BY <1>0 DEF ReadCache, Go
<1>4. Page(k) \subseteq Window(k) /\ Window(k)' = Window(k) /\ Page(k)' = Page(k)
  BY <1>0, <1>2, PageInWindow DEF Window, Page
<1>5. ASSUME NEW s \in m PROVE Stored(s)' \/ Covered(s)'
  <2>1. s \in Seqs /\ (Stored(s) \/ Covered(s))
    BY <1>0, <1>1, <1>4, WindowKept
  <2>2. QED  BY <1>0, <2>1, StoredStays
<1>6. ASSUME NEW s \in Page(k) PROVE s \in Answer(k)' \/ s \in m
  <2>1. CASE s \in cache
    <3>1. PICK e : e = [seq |-> s, how |-> "cached"]
      OBVIOUS
    <3>2. e \in g /\ e.seq = s
      BY <1>1, <1>6, <2>1, <3>1 DEF Cached
    <3>3. QED  BY <1>2, <3>2 DEF Answer
  <2>2. QED  BY <1>1, <1>6, <2>1
<1>7. Looking(k)'
  BY <1>0, <1>1, <1>2, <1>4, <1>5, <1>6 DEF Looking
<1>8. QED  BY <1>0, <1>2, <1>3, <1>7, PullGoesOn

\* Only what the user has deleted is dropped.
LEMMA PullDropsDeleted ==
  ASSUME StoreInv, DelInv, NEW k \in Call, Kind(k) = "pull", PullInv(k), DropDeleted(k)
  PROVE  PullInv(k)'
<1>0. /\ view \in [Call -> ViewSet] /\ todo \in [Call -> SUBSET Nat] /\ pc \in [Call -> Place]
      /\ StoreInv' /\ CallStep(k) /\ BaseInv' /\ pc[k] = "dels" /\ Looking(k) /\ op' = op
      /\ Forward /\ SlotsGrow /\ op[k].user \in User
  BY DropDeletedKeeps, CallKeep, Requests DEF StoreInv, BaseInv, StoreType, DropDeleted, PullInv, CallStep
<1>1. view[k].end # 0 /\ PullRange(k)
  BY <1>0 DEF Looking, PullInv
<1>2. PICK gone, more :
        /\ gone = { e \in view[k].got : e.seq \in userDel[op[k].user] } /\ more = Replacing(k, gone)
        /\ view' = [view EXCEPT ![k].got = @ \ gone] /\ todo' = [todo EXCEPT ![k] = more]
  BY DEF DropDeleted
<1>3. /\ view'[k].begin = view[k].begin /\ view'[k].first = view[k].first /\ view'[k].end = view[k].end
      /\ view'[k].got = view[k].got \ gone /\ view'[k].miss = view[k].miss /\ view'[k].page = view[k].page
      /\ todo'[k] = more
  BY <1>0, <1>2 DEF ViewSet
<1>4. pc'[k] \in {"spin", "again", "docs"}
  BY <1>0 DEF DropDeleted, Go
<1>5. more \subseteq Window(k) /\ Window(k)' = Window(k) /\ Page(k)' = Page(k)
  BY <1>1, <1>2, <1>3, PageInWindow DEF Window, Page, Replacing
<1>6. ASSUME NEW s \in view[k].miss PROVE Stored(s)' \/ Covered(s)'
  <2>1. s \in Seqs
    BY <1>0 DEF ViewSet
  <2>2. QED  BY <1>0, <2>1, StoredStays DEF Looking
<1>7. ASSUME NEW s \in Page(k)
      PROVE  \/ s \in Answer(k)' \/ s \in view[k].miss \/ \E e \in view[k].page : e.seq = s
             \/ HiddenBy(op[k].user, s)' \/ Covered(s)'
  <2>1. CASE s \in Answer(k)
    <3>1. PICK e \in view[k].got : e.seq = s
      BY <2>1 DEF Answer
    <3>2. CASE e \in gone
      <4>1. HiddenBy(op[k].user, s)
        BY <1>0, <1>2, <3>1, <3>2 DEF DelInv
      <4>2. QED  BY <1>0, <4>1, HiddenStays
    <3>3. CASE e \notin gone
      BY <1>3, <3>1, <3>3 DEF Answer
    <3>4. QED  BY <3>2, <3>3
  <2>2. CASE s \notin Answer(k)
    BY <1>0, <1>7, <2>2, HiddenStays, CoveredStays DEF Looking
  <2>3. QED  BY <2>1, <2>2
<1>8. Looking(k)'
  BY <1>0, <1>1, <1>3, <1>5, <1>6, <1>7 DEF Looking
<1>9. QED  BY <1>0, <1>1, <1>3, <1>4, <1>5, <1>8, PullGoesOn

LEMMA PullReadsAgain ==
  ASSUME StoreInv, NEW k \in Call, Kind(k) = "pull", PullInv(k), ReadAgain(k)
  PROVE  PullInv(k)'
<1>0. /\ view \in [Call -> ViewSet] /\ todo \in [Call -> SUBSET Nat] /\ pc \in [Call -> Place]
      /\ StoreInv' /\ CallStep(k) /\ BaseInv' /\ pc[k] = "again" /\ Looking(k) /\ op' = op
      /\ Forward /\ SlotsGrow /\ todo[k] \subseteq Window(k)
  BY ReadAgainKeeps, CallKeep DEF StoreInv, BaseInv, StoreType, ReadAgain, PullInv, CallStep
<1>1. view[k].end # 0 /\ PullRange(k) /\ view[k].miss \subseteq Window(k)
  BY <1>0 DEF Looking, PullInv
<1>2. PICK g, m : /\ m = todo[k] \ cache
                  /\ view' = [view EXCEPT ![k].got = @ \cup g, ![k].miss = @ \cup m]
  BY DEF ReadAgain
<1>3. /\ view'[k].begin = view[k].begin /\ view'[k].first = view[k].first /\ view'[k].end = view[k].end
      /\ view'[k].got = view[k].got \cup g /\ view'[k].miss = view[k].miss \cup m
      /\ view'[k].page = view[k].page
  BY <1>0, <1>2 DEF ViewSet
<1>4. pc'[k] = "docs"
  BY <1>0 DEF ReadAgain, Go
<1>5. Window(k)' = Window(k) /\ Page(k)' = Page(k) /\ Answer(k) \subseteq Answer(k)'
  BY <1>3 DEF Window, Page, Answer
<1>6. ASSUME NEW s \in view[k].miss \cup m PROVE Stored(s)' \/ Covered(s)'
  <2>1. s \in Seqs /\ (Stored(s) \/ Covered(s))
    <3>1. CASE s \in m
      BY <1>0, <1>1, <1>2, <3>1, WindowKept
    <3>2. CASE s \in view[k].miss
      BY <1>0, <1>1, <3>2, WindowKept DEF Looking
    <3>3. QED  BY <3>1, <3>2
  <2>2. QED  BY <1>0, <2>1, StoredStays
<1>7. ASSUME NEW s \in Page(k)
      PROVE  \/ s \in Answer(k)' \/ s \in view'[k].miss \/ \E e \in view'[k].page : e.seq = s
             \/ HiddenBy(op[k].user, s)' \/ Covered(s)'
  BY <1>0, <1>3, <1>5, HiddenStays, CoveredStays DEF Looking
<1>8. Looking(k)'
  BY <1>0, <1>1, <1>2, <1>3, <1>5, <1>6, <1>7 DEF Looking
<1>9. QED  BY <1>0, <1>1, <1>3, <1>4, <1>8, PullGoesOn

\* A read that failed, or a removal that has begun, shows in the history.
LEMMA RemovalSeen ==
  ASSUME StoreInv, NEW k \in Call, CallStep(k), Window(k)' = Window(k), NEW s \in Window(k), Covered(s),
         NEW l \in Final, Go(k, l)
  PROVE  EndedWell(k)'
<1>1. PICK j \in Call : Begun(j) /\ Covers(j, s)
  BY DEF Covered
<1>2. hist'[k].during = { i \in Call : pc[i] # "start" }
  BY EndHistory DEF StoreInv, BaseInv
<1>3. j \in hist'[k].during /\ Covers(j, s)'
  BY <1>1, <1>2 DEF Begun, CallStep, Covers, Kind
<1>4. QED  BY <1>3 DEF EndedWell

\* The messages of a page that come before one of its own are at most as many as
\* the page is long.
LEMMA FewBefore ==
  ASSUME NEW k \in Call, view[k] \in ViewSet, PullRange(k), op[k].num \in Nat, NEW s \in Page(k), NEW T,
         T \subseteq Nat
  PROVE  Cardinality({ t \in T : Before(k, t, s) }) < op[k].num
<1>0. PICK a, e, n : a = view[k].first /\ e = view[k].end /\ n = op[k].num
  OBVIOUS
<1>1. a \in Int /\ e \in Int /\ s \in a .. e /\ e - a < n /\ n \in Nat
  BY <1>0 DEF PullRange, Page, ViewSet
<1>2. PICK B : B = { t \in T : Before(k, t, s) }
  OBVIOUS
<1>3. ASSUME NEW t \in B PROVE t \in a .. (s - 1)
  <2>0. t \in T /\ Before(k, t, s)
    BY <1>2, <1>3
  <2>a. t \in Nat
    BY <2>0
  <2>b. s \in Int /\ s >= a
    BY <1>1
  <2>1. t \in Int /\ Before(k, t, s) /\ s \in Int /\ s >= a
    BY <2>0, <2>a, <2>b
  <2>2. IF t >= a THEN s < a \/ t < s ELSE s < t
    BY <1>0, <2>1 DEF Before
  <2>3. QED  BY <1>1, <2>1, <2>2
<1>4. IsFiniteSet(a .. (s - 1)) /\ Cardinality(a .. (s - 1)) = s - a
  <2>1. IsFiniteSet(a .. (s - 1)) /\ Cardinality(a .. (s - 1)) = (IF a > s - 1 THEN 0 ELSE (s - 1) - a + 1)
    BY <1>1, FS_Interval
  <2>2. QED  BY <1>1, <2>1
<1>5. IsFiniteSet(B) /\ Cardinality(B) <= s - a
  BY <1>3, <1>4, FS_Subset
<1>6. Cardinality(B) \in Nat
  BY <1>5, FS_CardinalityType
<1>7. QED  BY <1>0, <1>1, <1>2, <1>5, <1>6

\* A document is read: a slot without its message was emptied by a removal.
LEMMA PullReadsDoc ==
  ASSUME SmallPages, StoreInv, DelInv, NEW k \in Call, Kind(k) = "pull", PullInv(k),
         NEW d \in Docs, ReadDoc(k, d)
  PROVE  PullInv(k)'
<1>0. /\ view \in [Call -> ViewSet] /\ view[k] \in ViewSet /\ pc \in [Call -> Place]
      /\ StoreInv' /\ CallStep(k) /\ BaseInv /\ BaseInv' /\ pc[k] = "docs" /\ Looking(k) /\ op' = op
      /\ Forward /\ SlotsGrow /\ op \in Scenario /\ KeepInv /\ DocSize \in Nat \ {0}
  BY ReadDocKeeps, CallKeep, ConstantsAssumption DEF StoreInv, BaseInv, StoreType, ReadDoc, PullInv, CallStep
<1>1. /\ view[k].end # 0 /\ PullRange(k) /\ view[k].miss \subseteq Window(k) /\ view[k].miss \subseteq Seqs
  BY <1>0 DEF Looking, PullInv, ViewSet
<1>2. PICK mine, seen :
        /\ mine = InDoc(view[k].miss, d) /\ seen = { s \in mine : ~ReadSkips(op[k].user, s) }
  OBVIOUS
<1>3. PICK page : page = { s \in seen : Cardinality({ t \in seen : Before(k, t, s) }) < PageLimit }
  OBVIOUS
<1>4. /\ mine # {} /\ view[k].page = {}
      /\ \/ /\ d \notin docs \/ \E s \in mine : ReadFails(s)
            /\ Go(k, "failed") /\ UNCHANGED view
         \/ /\ view' = [view EXCEPT ![k].page = { Shown(s) : s \in page }, ![k].miss = @ \ mine]
            /\ UNCHANGED <<pc, hist>>
  BY <1>2, <1>3 DEF ReadDoc
<1>5. mine \subseteq view[k].miss /\ \A s \in mine : DocOf(s) = d
  BY <1>2 DEF InDoc
<1>6. CASE (d \notin docs \/ \E s \in mine : ReadFails(s)) /\ Go(k, "failed") /\ UNCHANGED view
  <2>1. PICK s \in mine : Covered(s)
    <3>1. CASE d \notin docs
      <4>1. PICK s \in mine : TRUE
        BY <1>4
      <4>2. ~Stored(s)
        BY <1>5, <3>1 DEF Stored
      <4>3. QED  BY <1>0, <1>5, <4>2 DEF Looking
    <3>2. CASE \E s \in mine : ReadFails(s)
      BY <1>0, <1>1, <1>5, <3>2 DEF KeepInv, ReadFails
    <3>3. QED  BY <1>6, <3>1, <3>2
  <2>2. s \in Window(k) /\ Window(k)' = Window(k) /\ view'[k] = view[k]
    BY <1>1, <1>5, <1>6 DEF Window
  <2>3. "failed" \in Final /\ pc'[k] = "failed"
    BY <1>0, <1>6 DEF Final, Go
  <2>4. EndedWell(k)'
    BY <1>0, <1>6, <2>1, <2>2, <2>3, RemovalSeen
  <2>5. PullRange(k)'
    BY <1>0, <1>1, <2>2 DEF PullRange, CallStep
  <2>6. QED  BY <2>3, <2>4, <2>5 DEF PullInv
<1>7. CASE /\ view' = [view EXCEPT ![k].page = { Shown(s) : s \in page }, ![k].miss = @ \ mine]
           /\ UNCHANGED <<pc, hist>>
  <2>0. PICK sh : sh = { Shown(s) : s \in page }
    OBVIOUS
  <2>1. /\ view'[k].begin = view[k].begin /\ view'[k].first = view[k].first /\ view'[k].end = view[k].end
        /\ view'[k].got = view[k].got /\ view'[k].miss = view[k].miss \ mine /\ view'[k].page = sh
    BY <1>0, <1>7, <2>0 DEF ViewSet
  <2>2. pc'[k] = "docs" /\ Window(k)' = Window(k) /\ Page(k)' = Page(k) /\ Answer(k)' = Answer(k)
    BY <1>0, <1>7, <2>1 DEF Window, Page, Answer
  <2>3. ASSUME NEW s \in view'[k].miss PROVE Stored(s)' \/ Covered(s)'
    <3>1. s \in Seqs /\ (Stored(s) \/ Covered(s))
      BY <1>0, <1>1, <2>1 DEF Looking
    <3>2. QED  BY <1>0, <3>1, StoredStays
  <2>4. ASSUME NEW s \in Page(k), s \in mine
        PROVE  (\E e \in sh : e.seq = s) \/ HiddenBy(op[k].user, s) \/ Covered(s)
    <3>1. s \in Seqs /\ s # 0 /\ (Stored(s) \/ Covered(s))
      BY <1>0, <1>1, <1>5, <2>4 DEF Looking, Seqs
    <3>2. CASE op[k].user \in SlotOf(s).del
      BY <3>1, <3>2 DEF DelInv
    <3>3. CASE SlotOf(s).msg = 0
      BY <3>1, <3>3 DEF Stored
    <3>4. CASE ~ReadSkips(op[k].user, s)
      <4>1. s \in seen /\ seen \subseteq Nat
        BY <1>1, <1>2, <1>5, <2>4, <3>4 DEF Seqs
      <4>2. op[k].num \in Nat /\ op[k].num <= PageLimit /\ PageLimit \in Nat
        <5>1. op[k].num \in Nat /\ PageLimit \in Nat
          BY <1>0, Requests, ConstantsAssumption DEF BaseInv, ReadKinds
        <5>2. op[k].num <= PageLimit
          BY <1>0 DEF SmallPages, Kind
        <5>3. QED  BY <5>1, <5>2
      <4>3. PICK c : c = Cardinality({ t \in seen : Before(k, t, s) })
        OBVIOUS
      <4>4. c < op[k].num
        BY <1>0, <1>1, <4>1, <4>2, <4>3, FewBefore
      <4>5. c \in Nat
        <5>1. { t \in seen : Before(k, t, s) } \subseteq Seqs
          BY <1>1, <1>2, <1>5
        <5>2. IsFiniteSet(Seqs)
          BY ConstantsAssumption, FS_Interval DEF Seqs
        <5>3. QED  BY <4>3, <5>1, <5>2, FS_Subset, FS_CardinalityType
      <4>6. c < PageLimit
        BY <4>2, <4>4, <4>5
      <4>7. s \in page
        BY <1>3, <4>1, <4>3, <4>6
      <4>8. Shown(s).seq = s
        BY <1>0, <3>1, <3>4, ShownEntry DEF ReadSkips
      <4>9. QED  BY <2>0, <4>7, <4>8
    <3>5. QED  BY <3>2, <3>3, <3>4 DEF ReadSkips
  <2>5. ASSUME NEW s \in Page(k)
        PROVE  \/ s \in Answer(k) \/ s \in view'[k].miss \/ \E e \in sh : e.seq = s
               \/ HiddenBy(op[k].user, s)' \/ Covered(s)'
    <3>1. CASE s \in mine
      BY <1>0, <2>4, <2>5, <3>1, HiddenStays, CoveredStays
    <3>2. CASE s \notin mine
      BY <1>0, <1>4, <2>1, <2>5, <3>2, HiddenStays, CoveredStays DEF Looking
    <3>3. QED  BY <3>1, <3>2
  <2>6. Looking(k)'
    BY <1>0, <1>1, <2>1, <2>2, <2>3, <2>5 DEF Looking
  <2>7. QED  BY <1>0, <1>1, <2>1, <2>2, <2>6, PullGoesOn
<1>8. QED  BY <1>4, <1>6, <1>7

\* A message of the page is taken into the answer.
LEMMA PullTakesOne ==
  ASSUME StoreInv, NEW k \in Call, Kind(k) = "pull", PullInv(k), StoreInv', CallStep(k), Looking(k),
         NEW e \in view[k].page, NEW as \in EntrySet, as.seq = e.seq, TakeMsg(k, e, as), pc'[k] = "docs"
  PROVE  PullInv(k)'
<1>0. view \in [Call -> ViewSet] /\ op' = op /\ Forward /\ SlotsGrow /\ BaseInv'
  BY CallKeep DEF StoreInv, BaseInv, StoreType, CallStep
<1>1. view[k].end # 0 /\ PullRange(k) /\ view[k].miss \subseteq Window(k) /\ view[k].miss \subseteq Seqs
  BY <1>0 DEF Looking, PullInv, ViewSet
<1>2. /\ view'[k].begin = view[k].begin /\ view'[k].first = view[k].first /\ view'[k].end = view[k].end
      /\ view'[k].got = view[k].got \cup {as} /\ view'[k].miss = view[k].miss
      /\ view'[k].page = view[k].page \ {e}
  BY <1>0 DEF TakeMsg, ViewSet
<1>3. Window(k)' = Window(k) /\ Page(k)' = Page(k) /\ Answer(k) \cup {as.seq} \subseteq Answer(k)'
  BY <1>2 DEF Window, Page, Answer
<1>4. ASSUME NEW s \in view[k].miss PROVE Stored(s)' \/ Covered(s)'
  BY <1>0, <1>1, StoredStays DEF Looking
<1>5. ASSUME NEW s \in Page(k)
      PROVE  \/ s \in Answer(k)' \/ s \in view[k].miss \/ \E f \in view'[k].page : f.seq = s
             \/ HiddenBy(op[k].user, s)' \/ Covered(s)'
  <2>1. CASE \E f \in view[k].page : f.seq = s
    BY <1>2, <1>3, <2>1
  <2>2. CASE ~\E f \in view[k].page : f.seq = s
    BY <1>0, <1>3, <1>5, <2>2, HiddenStays, CoveredStays DEF Looking
  <2>3. QED  BY <2>1, <2>2
<1>6. Looking(k)'
  BY <1>0, <1>1, <1>2, <1>3, <1>4, <1>5 DEF Looking
<1>7. QED  BY <1>0, <1>1, <1>2, <1>6, PullGoesOn

LEMMA PullTakes ==
  ASSUME StoreInv, NEW k \in Call, Kind(k) = "pull", PullInv(k), NEW e \in view[k].page,
         HandleMsg(k, e) \/ ReadQuoted(k, e) \/ RewriteQuote(k, e)
  PROVE  PullInv(k)'
<1>0. StoreInv' /\ CallStep(k)
  BY HandleMsgKeeps, ReadQuotedKeeps, RewriteQuoteKeeps
<1>1. pc \in [Call -> Place] /\ e \in EntrySet /\ pc[k] \in {"docs", "rewrite"} /\ Looking(k)
  <2>1. view[k] \in ViewSet
    BY CallFacts DEF StoreInv
  <2>2. QED  BY <2>1 DEF StoreInv, BaseInv, StoreType, HandleMsg, ReadQuoted, RewriteQuote, PullInv, ViewSet
<1>2. CASE TakeMsg(k, e, e) /\ pc' = pc /\ pc[k] = "docs"
  BY <1>0, <1>1, <1>2, PullTakesOne
<1>3. CASE RewriteQuote(k, e)
  <2>1. PICK as : as = [e EXCEPT !.how = "rewritten"]
    OBVIOUS
  <2>2. as \in EntrySet /\ as.seq = e.seq
    BY <1>1, <2>1 DEF EntrySet
  <2>3. TakeMsg(k, e, as) /\ pc'[k] = "docs"
    BY <1>1, <1>3, <2>1 DEF RewriteQuote, Go
  <2>4. QED  BY <1>0, <1>1, <2>2, <2>3, PullTakesOne
<1>4. CASE Go(k, "rewrite") /\ UNCHANGED view
  <2>1. pc'[k] = "rewrite" /\ Forward /\ SlotsGrow /\ BaseInv' /\ view[k].end # 0
    BY <1>0, <1>1, <1>4, CallKeep DEF Go, StoreInv, CallStep, Looking
  <2>2. Looking(k)'
    BY <1>1, <1>4, <2>1, LookingStays
  <2>3. QED  BY <1>0, <1>4, <2>1, <2>2, PullGoesOn
<1>5. QED  BY <1>2, <1>3, <1>4 DEF HandleMsg, ReadQuoted

\* The pull answers when there is nothing left to look up.
LEMMA PullEnds ==
  ASSUME StoreInv, NEW k \in Readers, Kind(k) = "pull", PullInv(k), ReadEnds(k)
  PROVE  PullInv(k)'
<1>0. /\ k \in Call /\ StoreInv' /\ CallStep(k) /\ pc \in [Call -> Place] /\ StoreType
      /\ pc[k] = "docs" /\ view[k].page = {} /\ view[k].miss = {} /\ Go(k, "done") /\ view' = view
  BY ReadEndsKeeps DEF Readers, ReadEnds, StoreInv, BaseInv, StoreType
<1>1. Looking(k) /\ PullRange(k)
  BY <1>0 DEF PullInv, Looking
<1>2. pc'[k] = "done" /\ "done" \in Final
  BY <1>0 DEF Go, Final
<1>3. Window(k)' = Window(k) /\ Page(k)' = Page(k) /\ Answer(k)' = Answer(k) /\ op' = op
  BY <1>0 DEF Window, Page, Answer, CallStep
<1>4. hist'[k].during = { i \in Call : pc[i] # "start" }
  BY <1>0, <1>2, EndHistory
<1>5. EndedWell(k)'
  <2>1. CASE \E s \in Page(k) : Covered(s)
    <3>1. PICK s \in Page(k) : Covered(s)
      BY <2>1
    <3>2. s \in Window(k)
      BY <1>0, <1>1, PageInWindow
    <3>3. QED  BY <1>0, <1>2, <1>3, <3>1, <3>2, RemovalSeen
  <2>2. CASE ~\E s \in Page(k) : Covered(s)
    <3>1. ASSUME NEW s \in Page(k), s \notin Answer(k)
          PROVE  \E j \in hist'[k].during : /\ Kind(j)' = "deleteSelf" /\ s \in op'[j].seqs
                                            /\ op'[j].user = op'[k].user
      <4>1. HiddenBy(op[k].user, s)
        BY <1>0, <1>1, <2>2, <3>1 DEF Looking
      <4>2. QED  BY <1>3, <1>4, <4>1 DEF HiddenBy, Begun, Kind
    <3>2. QED  BY <1>2, <1>3, <3>1 DEF EndedWell
  <2>3. QED  BY <2>1, <2>2
<1>6. PullRange(k)'
  BY <1>0, <1>1, <1>3 DEF PullRange, CallStep
<1>7. QED  BY <1>2, <1>5, <1>6 DEF PullInv

\* A pull takes none of the steps of the other calls.
LEMMA PullReads ==
  ASSUME StoreInv, NEW k \in Call, Kind(k) = "pull", Run(k)
  PROVE  Read(k)
<1>0. BaseInv /\ k # Consumer
  BY ConstantsAssumption DEF StoreInv
<1>1. ~Delete(k)
  BY <1>0, KindAt DEF Delete, FindCached, AddUser, AddSeq, ListsWritten, PushDelList, DropDeletedFromCache, RemoveMsgs
<1>2. ~Cron(k)
  BY <1>0, KindAt DEF Cron, PurgeStarts, PurgeExpired, PurgeDocs, PurgeCache, PurgeSetsMin, PurgeDoc,
                      DestructDoc, DestructNoDoc, DestructGetMin, DestructSetMin
<1>3. ~Mark(k)
  BY <1>0, KindAt DEF Mark, ClearGetMax, ClearSetMin, MarkCheckMax, MarkGetRead, MarkedAll, SetHasRead, MarkDoc, MarkKinds
<1>4. k \notin Writers
  BY <1>0 DEF Writers
<1>5. QED  BY <1>1, <1>2, <1>3, <1>4 DEF Run

LEMMA PullSteps ==
  ASSUME SmallPages, StoreInv, DelInv, NEW k \in Call, PullInv(k), Run(k)
  PROVE  PullInv(k)'
<1>0. CallStep(k)
  BY RunDels
<1>1. CASE Kind(k) # "pull"
  BY <1>0, <1>1 DEF PullInv, CallStep, Kind
<1>2. CASE Kind(k) = "pull"
  <2>1. Read(k)
    BY <1>2, PullReads
  <2>2. CASE GetUserMinSeq(k) \/ GetMinSeq(k) \/ GetMaxSeq(k)
    BY <1>2, <2>2, PullBegins, PullPages
  <2>3. CASE ReadCache(k) \/ DropDeleted(k) \/ ReadAgain(k)
    BY <1>2, <2>3, PullReadsCache, PullDropsDeleted, PullReadsAgain
  <2>4. CASE \E d \in Docs : ReadDoc(k, d)
    BY <1>2, <2>4, PullReadsDoc
  <2>5. CASE \E e \in view[k].page : HandleMsg(k, e) \/ ReadQuoted(k, e) \/ RewriteQuote(k, e)
    BY <1>2, <2>5, PullTakes
  <2>6. CASE k \in Readers /\ ReadEnds(k)
    BY <1>2, <2>6, PullEnds
  <2>7. QED  BY <2>1, <2>2, <2>3, <2>4, <2>5, <2>6 DEF Read
<1>3. QED  BY <1>1, <1>2

LEMMA ReadersNext ==
  ASSUME SmallPages, ReadersInv, [Next]_vars
  PROVE  ReadersInv'
<1>0. StoreInv /\ StoreInv' /\ DelInv
  BY StoreNext DEF ReadersInv
<1>1. ASSUME NEW k \in Call, Run(k) PROVE ReadersInv'
  <2>1. DelInv' /\ CallStep(k)
    BY <1>0, <1>1, RunDels
  <2>2. Forward /\ SlotsGrow /\ maxSeq' = maxSeq /\ maxSeq \in Nat
    BY <1>0, <2>1, CallKeep, CallFacts DEF StoreInv, CallStep
  <2>3. ASSUME NEW j \in Call PROVE PullInv(j)'
    <3>1. PullInv(j)
      BY DEF ReadersInv
    <3>2. CASE j = k
      BY <1>0, <1>1, <3>1, <3>2, PullSteps
    <3>3. CASE j # k
      <4>1. pc'[j] = pc[j] /\ view'[j] = view[j] /\ todo'[j] = todo[j] /\ hist'[j] = hist[j]
        BY <2>1, <3>3 DEF CallStep
      <4>2. QED  BY <1>0, <2>2, <3>1, <4>1, PullStays
    <3>4. QED  BY <3>2, <3>3
  <2>4. QED  BY <1>0, <2>1, <2>3 DEF ReadersInv
<1>2. ASSUME Numbering \/ Insert \/ (\E q \in 0 .. qpos : Redeliver(q)) \/ UNCHANGED vars
      PROVE  ReadersInv'
  <2>1. FeedStep /\ DelInv'
    BY <1>0, <1>2, FeedSteps, FeedDels
  <2>2. /\ UNCHANGED <<op, pc, view, todo, hist>> /\ Forward /\ SlotsGrow
        /\ maxSeq' \in Nat /\ maxSeq <= maxSeq'
    BY <2>1 DEF FeedStep, callVars, Forward
  <2>3. ASSUME NEW j \in Call PROVE PullInv(j)'
    <3>1. PullInv(j)
      BY DEF ReadersInv
    <3>2. QED  BY <1>0, <2>2, <3>1, PullStays
  <2>4. QED  BY <1>0, <2>1, <2>3 DEF ReadersInv
<1>3. QED  BY <1>1, <1>2 DEF Next

LEMMA InitReaders == Init => ReadersInv
<1> SUFFICES ASSUME Init PROVE ReadersInv
  OBVIOUS
<1>1. StoreInv
  BY InitStore
<1>2. pc = [k \in Call |-> "start"] /\ view = [k \in Call |-> NoView]
  BY DEF Init
<1>3. userDel = [u \in User |-> {}]
  BY DEF Init
<1>4. ASSUME NEW s \in Seqs PROVE SlotOf(s).del = {}
  <2>1. slot = [d \in Docs |-> [i \in Index |-> EmptySlot]]
    BY DEF Init
  <2>2. SlotOf(s) = EmptySlot
    BY <2>1, SlotOfSeq DEF SlotOf
  <2>3. QED  BY <2>2 DEF EmptySlot
<1>5. DelInv
  BY <1>2, <1>3, <1>4 DEF DelInv, Listing
<1>6. ASSUME NEW k \in Call PROVE PullInv(k)
  <2>1. pc[k] = "start" /\ view[k] = NoView
    BY <1>2
  <2>2. view[k].end = 0
    BY <2>1 DEF NoView
  <2>3. QED  BY <2>1, <2>2 DEF PullInv
<1>7. QED  BY <1>1, <1>5, <1>6 DEF ReadersInv

\* Spec => []ReadersInv, when a page fits into one read of a document.
THEOREM ReadersInvariant ==
  ASSUME SmallPages
  PROVE  Spec => []ReadersInv
<1>1. ReadersInv /\ [Next]_vars => ReadersInv'
  BY ReadersNext
<1>2. QED  BY <1>1, InitReaders, PTL DEF Spec

\* A pull that is over succeeded with every message of its page that the user has not deleted, or a call
\* that removes one of the messages it may look at had begun before it ended.
PullsWhole == \A k \in Call : Kind(k) = "pull" /\ Ended(k) /\ view[k].end # 0 => EndedWell(k)

\* Spec => []PullsWhole: a pull (GetMsgBySeqsRange) misses nothing while the consumer moves the messages from
\* the cache to MongoDB, whatever purges, deletes, revokes and marks run beside it.
THEOREM PullsWholeHolds ==
  ASSUME SmallPages
  PROVE  Spec => []PullsWhole
<1>1. ReadersInv => PullsWhole
  BY DEF ReadersInv, PullInv, PullsWhole
<1>2. QED  BY <1>1, ReadersInvariant, PTL

\* PullComplete, in an instance without purges: only a DeleteMsgPhysicalBySeq that began before the pull
\* ended can make it fail or answer less than its page.
THEOREM PullCompleteHolds ==
  ASSUME SmallPages, \A o \in Scenario : \A k \in Call : o[k].kind # "purge"
  PROVE  Spec => []PullComplete
<1>1. ReadersInv => PullComplete
  <2> SUFFICES ASSUME ReadersInv, NEW k \in Call, Kind(k) = "pull", Ended(k), view[k].end # 0,
                      \A s \in Window(k) : Quiet(k, s)
               PROVE  /\ pc[k] = "done"
                      /\ \A s \in Page(k) :
                           \/ s \in Answer(k)
                           \/ \E j \in hist[k].during : /\ Kind(j) = "deleteSelf" /\ s \in op[j].seqs
                                                        /\ op[j].user = op[k].user
    BY DEF PullComplete
  <2>1. EndedWell(k) /\ op \in Scenario /\ hist[k] \in HistSet
    BY DEF ReadersInv, PullInv, StoreInv, BaseInv, StoreType
  <2>2. \A j \in Call : Kind(j) # "purge"
    BY <2>1 DEF Kind
  <2>3. ~\E s \in Window(k) : \E j \in hist[k].during : Covers(j, s)
    BY <2>1, <2>2 DEF Quiet, HistSet
  <2>4. QED  BY <2>1, <2>3 DEF EndedWell
<1>2. QED  BY <1>1, ReadersInvariant, PTL

=============================================================================
