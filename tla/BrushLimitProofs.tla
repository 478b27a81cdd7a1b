-------------------------- MODULE BrushLimitProofs ---------------------------
(***************************************************************************)
(* Proofs about BrushLimit, for any number of calls, any limits and any    *)
(* number of crashes.                                                      *)
(***************************************************************************)
EXTENDS BrushLimit, FiniteSetTheorems, TLAPS

Ended   == {"refused", "unlimited", "passed", "dead"}
Before  == {"muted", "config", "incr"}                        \* not counted yet
Counting == {"ttl", "expire", "ask", "passed"} \cup Punishing  \* counted

TypeOK ==
    /\ muted \in BOOLEAN /\ hasTTL \in BOOLEAN /\ orphan \in BOOLEAN
    /\ count \in Nat /\ window \in Nat
    /\ pc \in [Call -> Steps \cup Ended]
    /\ messagesNum \in [Call -> Nat]
    /\ inWindow \in [Call -> Nat]

\* A call has a number from its INCR on.
NumberedOnce ==
    \A c \in Call : /\ pc[c] \in Before => messagesNum[c] = 0
                    /\ pc[c] \in Counting => messagesNum[c] # 0

\* The numbers given out in the current window are at most its count.
CountCovers ==
    \A c \in Call : messagesNum[c] # 0 =>
        /\ inWindow[c] <= window
        /\ inWindow[c] = window => messagesNum[c] <= count

\* No two calls counted in one window have the same number.
NumbersDiffer ==
    \A c, d \in Call :
        /\ c # d /\ inWindow[c] = inWindow[d]
        /\ messagesNum[c] # 0 /\ messagesNum[d] # 0
        => messagesNum[c] # messagesNum[d]

\* A call over the limit has muted the user before it asks, and the mute lasts.
MuteHeld ==
    \A c \in Call :
        /\ pc[c] \in Punishing => Over(messagesNum[c])
        /\ (pc[c] \in Punishing \ {"mute"} \/ (pc[c] = "ask" /\ Over(messagesNum[c]))) => muted
        /\ pc[c] = "passed" => ~Over(messagesNum[c])

LimitInv == TypeOK /\ NumberedOnce /\ CountCovers /\ NumbersDiffer /\ MuteHeld

-----------------------------------------------------------------------------
(* Initial states.                                                          *)

LEMMA InitLimit == Init => LimitInv
<1> SUFFICES ASSUME Init PROVE LimitInv
  OBVIOUS
<1>1. TypeOK /\ NumberedOnce
  BY DEF Init, TypeOK, NumberedOnce, Before, Counting, Ended, Steps, Punishing
<1>2. CountCovers /\ NumbersDiffer /\ MuteHeld
  BY DEF Init, CountCovers, NumbersDiffer, MuteHeld, Punishing
<1> QED BY <1>1, <1>2 DEF LimitInv

-----------------------------------------------------------------------------
(* A step that only moves a call along, before its INCR or to its end.      *)

LEMMA MoveLimit ==
    ASSUME LimitInv, NEW c \in Call, NEW p \in Steps \cup Ended, Goto(c, p),
           p \in Before => pc[c] \in Before,
           p \in Counting => pc[c] \in Counting,
           p \in Punishing => Over(messagesNum[c]),
           p \in Punishing \ {"mute"} \/ (p = "ask" /\ Over(messagesNum[c])) => muted,
           p = "passed" => ~Over(messagesNum[c]),
           UNCHANGED <<muted, messagesNum, inWindow, window, count>>,
           hasTTL' \in BOOLEAN, orphan' \in BOOLEAN
    PROVE  LimitInv'
<1>1. pc' = [pc EXCEPT ![c] = p] /\ pc \in [Call -> Steps \cup Ended]
  BY DEF Goto, LimitInv, TypeOK
<1>2. TypeOK'
  BY <1>1 DEF LimitInv, TypeOK
<1>3. NumberedOnce'
  BY <1>1 DEF LimitInv, NumberedOnce
<1>4. (CountCovers /\ NumbersDiffer)'
  BY DEF LimitInv, CountCovers, NumbersDiffer
<1>5. MuteHeld'
  <2> SUFFICES ASSUME NEW d \in Call
               PROVE  /\ pc'[d] \in Punishing => Over(messagesNum'[d])
                      /\ (pc'[d] \in Punishing \ {"mute"}
                          \/ (pc'[d] = "ask" /\ Over(messagesNum'[d]))) => muted'
                      /\ pc'[d] = "passed" => ~Over(messagesNum'[d])
    BY DEF MuteHeld, Over
  <2>1. CASE d = c
    BY <1>1, <2>1 DEF Over
  <2>2. CASE d # c
    BY <1>1, <2>2 DEF LimitInv, MuteHeld, Over
  <2> QED BY <2>1, <2>2
<1> QED BY <1>2, <1>3, <1>4, <1>5 DEF LimitInv

LEMMA IncrLimit == ASSUME LimitInv, NEW c \in Call, Incr(c) PROVE LimitInv'
<1> USE DEF LimitInv, TypeOK, Incr, Goto
<1>1. TypeOK'
  BY DEF Steps
<1>2. /\ messagesNum'[c] = count + 1 /\ inWindow'[c] = window /\ pc'[c] = "ttl"
      /\ \A d \in Call \ {c} : /\ messagesNum'[d] = messagesNum[d]
                               /\ inWindow'[d] = inWindow[d] /\ pc'[d] = pc[d]
  OBVIOUS
<1>3. NumberedOnce'
  BY <1>2 DEF NumberedOnce, Before, Counting
<1>4. CountCovers'
  BY <1>2 DEF CountCovers
<1>5. NumbersDiffer'
  BY <1>2 DEF NumbersDiffer, CountCovers
<1>6. MuteHeld'
  BY <1>2 DEF MuteHeld, Over, Punishing
<1> QED BY <1>1, <1>3, <1>4, <1>5, <1>6

\* The end of the window leaves no call in the one that follows.
LEMMA EndWindowCovers ==
    ASSUME LimitInv, EndWindow, UNCHANGED <<messagesNum, inWindow>>
    PROVE  CountCovers' /\ count' \in Nat /\ window' \in Nat
BY DEF LimitInv, TypeOK, EndWindow, CountCovers

LEMMA DelLimit == ASSUME LimitInv, NEW c \in Call, Del(c) PROVE LimitInv'
<1>1. CASE Bans(c)
  <2>1. UNCHANGED <<muted, messagesNum, inWindow, window, count, hasTTL, orphan>> /\ Goto(c, "ask")
    BY <1>1 DEF Del
  <2>2. pc[c] = "del" /\ muted
    BY DEF Del, LimitInv, MuteHeld, Punishing
  <2>3. hasTTL' \in BOOLEAN /\ orphan' \in BOOLEAN
    BY <2>1 DEF LimitInv, TypeOK
  <2> QED BY <2>1, <2>2, <2>3, MoveLimit DEF Steps, Before, Counting, Punishing, Ended
<1>2. CASE ~Bans(c)
  <2>1. EndWindow /\ pc[c] = "del" /\ UNCHANGED <<muted, messagesNum, inWindow>>
        /\ pc' = [pc EXCEPT ![c] = "ask"]
    BY <1>2 DEF Del, Goto
  <2>2. CountCovers' /\ count' \in Nat /\ window' \in Nat
    BY <2>1, EndWindowCovers
  <2>3. TypeOK'
    BY <2>1, <2>2 DEF LimitInv, TypeOK, EndWindow, Steps
  <2>4. NumberedOnce'
    BY <2>1 DEF LimitInv, TypeOK, NumberedOnce, Before, Counting, Punishing
  <2>5. NumbersDiffer'
    BY <2>1 DEF LimitInv, NumbersDiffer
  <2>6. MuteHeld'
    BY <2>1 DEF LimitInv, TypeOK, MuteHeld, Punishing, Over
  <2> QED BY <2>2, <2>3, <2>4, <2>5, <2>6 DEF LimitInv
<1> QED BY <1>1, <1>2

LEMMA MuteLimit == ASSUME LimitInv, NEW c \in Call, Mute(c) PROVE LimitInv'
<1> USE DEF LimitInv, TypeOK, Mute, Goto
<1>1. TypeOK'
  BY DEF Steps, Punishing, histVars
<1>4. NumberedOnce'
  BY DEF NumberedOnce, Before, Counting, Punishing
<1>2. (CountCovers /\ NumbersDiffer)'
  BY DEF CountCovers, NumbersDiffer, histVars
<1>3. MuteHeld'
  BY DEF MuteHeld, Punishing, Over
<1> QED BY <1>1, <1>2, <1>3, <1>4

LEMMA WindowExpiresLimit == ASSUME LimitInv, WindowExpires PROVE LimitInv'
<1>1. CountCovers' /\ count' \in Nat /\ window' \in Nat
  BY EndWindowCovers DEF WindowExpires
<1>2. TypeOK'
  BY <1>1 DEF LimitInv, TypeOK, WindowExpires, EndWindow
<1>3. NumberedOnce' /\ NumbersDiffer' /\ MuteHeld'
  BY DEF LimitInv, WindowExpires, NumberedOnce, NumbersDiffer, MuteHeld, Over
<1> QED BY <1>1, <1>2, <1>3 DEF LimitInv

LEMMA MuteExpiresLimit == ASSUME LimitInv, MuteExpires PROVE LimitInv'
<1>1. TypeOK' /\ NumberedOnce' /\ CountCovers' /\ NumbersDiffer'
  BY DEF LimitInv, TypeOK, MuteExpires, NumberedOnce, NumbersDiffer, CountCovers, histVars
<1>2. MuteHeld'
  BY DEF LimitInv, MuteExpires, MuteHeld, Over
<1> QED BY <1>1, <1>2 DEF LimitInv

\* The remaining commands of Check, and a crash, move one call along.
LEMMA OtherLimit ==
    ASSUME LimitInv, NEW c \in Call,
           \/ IsMuted(c) \/ ReadConfig(c) \/ TTL(c) \/ Expire(c) \/ IncrMutes(c)
           \/ Push(c) \/ Answer(c) \/ Crash(c)
    PROVE  LimitInv'
<1> USE DEF redisVars, histVars
<1>0. hasTTL \in BOOLEAN /\ orphan \in BOOLEAN /\ count \in Nat
  BY DEF LimitInv, TypeOK
<1>m. /\ pc[c] \in Punishing => Over(messagesNum[c])
      /\ pc[c] \in Punishing \ {"mute"} \/ (pc[c] = "ask" /\ Over(messagesNum[c])) => muted
  BY DEF LimitInv, MuteHeld
<1>1. CASE IsMuted(c)
  BY <1>0, <1>1, MoveLimit DEF IsMuted, Steps, Before, Counting, Punishing, Ended
<1>2. CASE ReadConfig(c)
  BY <1>0, <1>2, MoveLimit DEF ReadConfig, Steps, Before, Counting, Punishing, Ended
<1>3. CASE TTL(c)
  BY <1>0, <1>3, MoveLimit DEF TTL, Counted, Steps, Before, Counting, Punishing, Ended
<1>4. CASE Expire(c)
  BY <1>0, <1>4, MoveLimit DEF Expire, Counted, Steps, Before, Counting, Punishing, Ended
<1>5. CASE IncrMutes(c)
  BY <1>0, <1>m, <1>5, MoveLimit DEF IncrMutes, Steps, Before, Counting, Punishing, Ended
<1>6. CASE Push(c)
  BY <1>0, <1>m, <1>6, MoveLimit DEF Push, Steps, Before, Counting, Punishing, Ended
<1>7. CASE Answer(c)
  BY <1>0, <1>m, <1>7, MoveLimit DEF Answer, Steps, Before, Counting, Punishing, Ended
<1>8. CASE Crash(c)
  BY <1>0, <1>8, MoveLimit DEF Crash, Steps, Before, Counting, Punishing, Ended
<1> QED BY <1>1, <1>2, <1>3, <1>4, <1>5, <1>6, <1>7, <1>8

LEMMA NextLimit == ASSUME LimitInv, [Next]_vars PROVE LimitInv'
<1>1. CASE WindowExpires
  BY <1>1, WindowExpiresLimit
<1>2. CASE MuteExpires
  BY <1>2, MuteExpiresLimit
<1>3. ASSUME NEW c \in Call, Check(c) \/ Crash(c) PROVE LimitInv'
  BY <1>3, IncrLimit, MuteLimit, DelLimit, OtherLimit DEF Check
<1>4. CASE UNCHANGED vars
  BY <1>4 DEF vars, redisVars, histVars, LimitInv, TypeOK, NumberedOnce, CountCovers, NumbersDiffer,
              MuteHeld, Over
<1> QED BY <1>1, <1>2, <1>3, <1>4 DEF Next

\* The inductive invariant of the limiter: calls counted in one window have different numbers,
\* and a call whose number is over the limit finds the mute it set when it asks (Check).
THEOREM LimitInvariant == Spec => []LimitInv
BY InitLimit, NextLimit, PTL DEF Spec

-----------------------------------------------------------------------------
(* The properties.                                                          *)

\* The calls of a window that passed have different numbers from 1 to brushLimit.
LEMMA PassedBound == LimitInv => PassedWithinLimit
<1> SUFFICES ASSUME LimitInv, NEW w \in 0 .. window
             PROVE  Cardinality(Passed(w)) <= brushLimit
  BY DEF PassedWithinLimit
<1> DEFINE num == [c \in Passed(w) |-> messagesNum[c]]
<1>1. brushLimit \in Nat
  BY ConstantsAssumption
<1>2. ASSUME NEW c \in Passed(w) PROVE c \in Call /\ messagesNum[c] \in 1 .. brushLimit
  BY <1>1, <1>2 DEF Passed, LimitInv, TypeOK, NumberedOnce, MuteHeld, Over, Counting
<1>3. num \in Injection(Passed(w), 1 .. brushLimit)
  <2>1. num \in [Passed(w) -> 1 .. brushLimit]
    BY <1>2
  <2>2. ASSUME NEW c \in Passed(w), NEW d \in Passed(w), num[c] = num[d] PROVE c = d
    BY <1>2, <2>2 DEF LimitInv, NumbersDiffer, Passed
  <2> QED BY <2>1, <2>2 DEF Injection, IsInjective
<1>4. IsFiniteSet(1 .. brushLimit) /\ Cardinality(1 .. brushLimit) = brushLimit
  BY <1>1, FS_Interval
<1> HIDE DEF num
<1> QED BY <1>3, <1>4, FS_Injection

\* However the calls of a user interleave with each other, with expiring keys and with crashes,
\* at most brushLimit of the messages counted in one window pass (Check).
THEOREM PassedWithinLimitHolds == Spec => []PassedWithinLimit
BY LimitInvariant, PassedBound, PTL

LEMMA NextEnd == ASSUME LimitInv, WindowHasEnd, [Next]_vars PROVE WindowHasEnd'
<1> USE DEF redisVars, histVars, Goto, WindowHasEnd
<1>0. TypeOK
  BY DEF LimitInv
<1>1. CASE WindowExpires \/ MuteExpires
  BY <1>1 DEF WindowExpires, MuteExpires, EndWindow
<1>2. ASSUME NEW c \in Call, Check(c) PROVE WindowHasEnd'
  <2>1. CASE IsMuted(c)
    BY <1>0, <2>1 DEF TypeOK, IsMuted
  <2>2. CASE ReadConfig(c)
    BY <1>0, <2>2 DEF TypeOK, ReadConfig
  <2>3. CASE Incr(c)
    BY <1>0, <2>3 DEF TypeOK, Incr
  <2>4. CASE TTL(c)
    BY <1>0, <2>4 DEF TypeOK, TTL, TTLNegative
  <2>5. CASE Expire(c)
    BY <1>0, <2>5 DEF TypeOK, Expire
  <2>6. CASE Mute(c) \/ IncrMutes(c) \/ Push(c) \/ Answer(c)
    BY <1>0, <2>6 DEF TypeOK, Mute, IncrMutes, Push, Answer
  <2>7. CASE Del(c)
    BY <1>0, <2>7 DEF TypeOK, Del, EndWindow
  <2> QED BY <1>2, <2>1, <2>2, <2>3, <2>4, <2>5, <2>6, <2>7 DEF Check
<1>3. ASSUME NEW c \in Call, Crash(c) PROVE WindowHasEnd'
  BY <1>0, <1>3 DEF TypeOK, Crash
<1>4. CASE UNCHANGED vars
  BY <1>4 DEF vars
<1> QED BY <1>1, <1>2, <1>3, <1>4 DEF Next

\* The key that counts a window never stays without a TTL unless a call is about to set one, or
\* the call that should have done so died (Check: INCR, TTL and EXPIRE are not atomic).
THEOREM WindowHasEndHolds == Spec => []WindowHasEnd
<1>1. Init => WindowHasEnd
  BY DEF Init, WindowHasEnd
<1> QED BY <1>1, LimitInvariant, NextEnd, PTL DEF Spec
=============================================================================
