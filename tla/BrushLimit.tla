---------------------------- MODULE BrushLimit ------------------------------
(***************************************************************************)
(* The flood limiter of tools/live/limit.go: messageVerification asks      *)
(* Check, for every message an ordinary member sends to a group, whether   *)
(* the user may send now.  The calls of one user run concurrently (several *)
(* devices, several message RPC processes) and each Redis command is a step*)
(* of its own.  Keys expire at any moment after their TTL is set; the one  *)
(* assumption about time is that a call that mutes the user returns before *)
(* the mute, which lasts minutes, has expired.                             *)
(***************************************************************************)
EXTENDS Naturals, FiniteSets

CONSTANTS
    Call,           \* the calls of Check, each made once
    brushLimit,     \* im_brush_limit: messages per window
    brushBanLimit,  \* im_brush_ban_limit: mutes that ban the user
    MaxFaults       \* bound: crashes and failing reads of the configuration

ASSUME ConstantsAssumption ==
    /\ IsFiniteSet(Call)
    /\ brushLimit \in Nat /\ brushBanLimit \in Nat /\ MaxFaults \in Nat

VARIABLES
    muted,      \* im_super_brush_all_mute:<user> exists
    count,      \* im_brush_user:<user>, 0 when it does not exist
    hasTTL,     \* count's key has a TTL
    mutes,      \* brush_user_block_im:<user>
    triggered,  \* length of im_brush_user_trigger_push_key
    banned,     \* length of im_brush_user_block_push_key
    pc,         \* pc[c]: the next command of call c, or how it ended
    messagesNum,\* messagesNum[c], blockNumIm[c]: what its INCRs returned
    blockNumIm,
    faults,
    window,     \* history: the windows before the current one
    inWindow,   \* history: the window in which call c was counted
    orphan      \* history: a call died before it gave the window a TTL

redisVars == <<muted, count, hasTTL, mutes, triggered, banned>>
histVars  == <<window, inWindow, orphan>>
vars == <<redisVars, pc, messagesNum, blockNumIm, faults, histVars>>

\* The commands a call has still to issue.
Punishing == {"mute", "incrMutes", "push", "del"}
Steps == {"muted", "config", "incr", "ttl", "expire", "ask"} \cup Punishing

Init ==
    /\ muted = FALSE /\ count = 0 /\ hasTTL = FALSE
    /\ mutes = 0 /\ triggered = 0 /\ banned = 0
    /\ pc = [c \in Call |-> "muted"]
    /\ messagesNum = [c \in Call |-> 0]
    /\ blockNumIm = [c \in Call |-> 0]
    /\ faults = 0
    /\ window = 0
    /\ inWindow = [c \in Call |-> 0]
    /\ orphan = FALSE

Goto(c, p) == pc' = [pc EXCEPT ![c] = p]

\* Mutant: the message that reaches the limit plus one still passes.
OneMore(n) == n > brushLimit + 1
Over(n) == n > brushLimit

\* Mutant: only a missing key is given a TTL.
IfMissing == count = 0
\* The TTL read is negative: the key is missing or has none.
TTLNegative == ~hasTTL

-----------------------------------------------------------------------------
(* The commands of Check.                                                  *)

\* TTL of the mute, before and after the message is counted.
IsMuted(c) ==
    /\ pc[c] = "muted"
    /\ Goto(c, IF muted THEN "refused" ELSE "config")
    /\ UNCHANGED <<redisVars, messagesNum, blockNumIm, faults, histVars>>

\* Without a configuration there is no limit.
ReadConfig(c) ==
    /\ pc[c] = "config"
    /\ \/ Goto(c, "incr") /\ UNCHANGED faults
       \/ faults < MaxFaults /\ faults' = faults + 1 /\ Goto(c, "unlimited")
    /\ UNCHANGED <<redisVars, messagesNum, blockNumIm, histVars>>

Incr(c) ==
    /\ pc[c] = "incr"
    /\ count' = count + 1
    /\ messagesNum' = [messagesNum EXCEPT ![c] = count + 1]
    /\ inWindow' = [inWindow EXCEPT ![c] = window]
    /\ Goto(c, "ttl")
    /\ UNCHANGED <<muted, hasTTL, mutes, triggered, banned, blockNumIm, faults, window, orphan>>

Counted(c) == IF Over(messagesNum[c]) THEN "mute" ELSE "ask"

TTL(c) ==
    /\ pc[c] = "ttl"
    /\ Goto(c, IF TTLNegative THEN "expire" ELSE Counted(c))
    /\ UNCHANGED <<redisVars, messagesNum, blockNumIm, faults, histVars>>

\* EXPIRE of a key that exists.
Expire(c) ==
    /\ pc[c] = "expire"
    /\ hasTTL' = (count > 0)
    /\ orphan' = (orphan /\ count = 0)
    /\ Goto(c, Counted(c))
    /\ UNCHANGED <<muted, count, mutes, triggered, banned, messagesNum, blockNumIm, faults,
                   window, inWindow>>

Mute(c) ==
    /\ pc[c] = "mute"
    /\ muted' = TRUE
    /\ Goto(c, "incrMutes")
    /\ UNCHANGED <<count, hasTTL, mutes, triggered, banned, messagesNum, blockNumIm, faults,
                   histVars>>

\* INCR and PERSIST, which finds no TTL to remove.
IncrMutes(c) ==
    /\ pc[c] = "incrMutes"
    /\ mutes' = mutes + 1
    /\ blockNumIm' = [blockNumIm EXCEPT ![c] = mutes + 1]
    /\ Goto(c, "push")
    /\ UNCHANGED <<muted, count, hasTTL, triggered, banned, messagesNum, faults, histVars>>

Bans(c) == blockNumIm[c] >= brushBanLimit

Push(c) ==
    /\ pc[c] = "push"
    /\ IF Bans(c) THEN banned' = banned + 1 /\ UNCHANGED triggered
       ELSE triggered' = triggered + 1 /\ UNCHANGED banned
    /\ Goto(c, "del")
    /\ UNCHANGED <<muted, count, hasTTL, mutes, messagesNum, blockNumIm, faults, histVars>>

\* The window's key is deleted, or it expires.
EndWindow ==
    /\ count' = 0
    /\ hasTTL' = FALSE
    /\ orphan' = FALSE
    /\ window' = IF count > 0 THEN window + 1 ELSE window

\* A mute starts the count again; a ban only the count of mutes.
Del(c) ==
    /\ pc[c] = "del"
    /\ IF Bans(c) THEN mutes' = 0 /\ UNCHANGED <<count, hasTTL, orphan, window>>
       ELSE EndWindow /\ UNCHANGED mutes
    /\ Goto(c, "ask")
    /\ UNCHANGED <<muted, triggered, banned, messagesNum, blockNumIm, faults, inWindow>>

Answer(c) ==
    /\ pc[c] = "ask"
    /\ Goto(c, IF muted THEN "refused" ELSE "passed")
    /\ UNCHANGED <<redisVars, messagesNum, blockNumIm, faults, histVars>>

-----------------------------------------------------------------------------
(* Redis' clock, and a process that dies.                                  *)

WindowExpires ==
    /\ hasTTL
    /\ EndWindow
    /\ UNCHANGED <<muted, mutes, triggered, banned, pc, messagesNum, blockNumIm, faults, inWindow>>

MuteExpires ==
    /\ muted
    /\ \A c \in Call : pc[c] \notin Punishing /\ (pc[c] = "ask" => ~Over(messagesNum[c]))
    /\ muted' = FALSE
    /\ UNCHANGED <<count, hasTTL, mutes, triggered, banned, pc, messagesNum, blockNumIm, faults,
                   histVars>>

Crash(c) ==
    /\ pc[c] \in Steps \ {"muted"}
    /\ faults < MaxFaults
    /\ faults' = faults + 1
    /\ orphan' = (orphan \/ (pc[c] \in {"ttl", "expire"} /\ count > 0 /\ ~hasTTL))
    /\ Goto(c, "dead")
    /\ UNCHANGED <<redisVars, messagesNum, blockNumIm, window, inWindow>>

Check(c) ==
    \/ IsMuted(c) \/ ReadConfig(c) \/ Incr(c) \/ TTL(c) \/ Expire(c)
    \/ Mute(c) \/ IncrMutes(c) \/ Push(c) \/ Del(c) \/ Answer(c)

Next ==
    \/ WindowExpires \/ MuteExpires
    \/ \E c \in Call : Check(c) \/ Crash(c)

Spec == Init /\ [][Next]_vars

-----------------------------------------------------------------------------
Passed(w) == { c \in Call : pc[c] = "passed" /\ inWindow[c] = w }

(***************************************************************************)
(* However the calls of a user interleave with each other and with expiring*)
(* keys, at most brushLimit of the messages counted in one window pass     *)
(* (Check: INCR, then the mute, then the second look at the mute).         *)
(***************************************************************************)
PassedWithinLimit == \A w \in 0 .. window : Cardinality(Passed(w)) <= brushLimit

(***************************************************************************)
(* A count without a TTL never waits for nothing: a call is about to give  *)
(* it one, or the call that created it died and the next one will (TTL and *)
(* EXPIRE after INCR are not atomic, and a punished burst deletes the key  *)
(* in between).                                                            *)
(***************************************************************************)
WindowHasEnd ==
    count > 0 /\ ~hasTTL => orphan \/ \E c \in Call : pc[c] \in {"ttl", "expire"}
=============================================================================
