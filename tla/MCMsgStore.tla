------------------------------ MODULE MCMsgStore ------------------------------
(***************************************************************************)
(* Small instances of MsgStore for TLC: three messages, documents of two   *)
(* slots, two users.  Alice sends the odd messages, Bob the even ones; when*)
(* Quoting, message 3 quotes message 1.                                    *)
(***************************************************************************)
EXTENDS MsgStore, TLC

CONSTANTS alice, bob, c1, c2, Quoting

MCSender == [s \in Seqs |-> IF s % 2 = 1 THEN alice ELSE bob]
MCQuote  == [s \in Seqs |-> IF Quoting /\ s = 3 THEN 1 ELSE 0]

Pull(u, b, e, n)   == [kind |-> "pull", user |-> u, begin |-> b, end |-> e, num |-> n, cap |-> 0]
PullSeqs(u, b, e)  == [kind |-> "pullSeqs", user |-> u, begin |-> b, end |-> e, num |-> 0, cap |-> 0]
Revoke(u, s)       == [kind |-> "revoke", user |-> u, begin |-> s, end |-> s, num |-> 0, cap |-> 0]
OnSeqs(kd, u, S)   == [kind |-> kd, user |-> u, seqs |-> S]
Purge(n, cl)       == [kind |-> "purge", upTo |-> n, clean |-> cl]
Destruct(u, n)     == [kind |-> "destruct", user |-> u, upTo |-> n, since |-> 0]
Clear(kd, u)       == [kind |-> kd, user |-> u]

Both(a, b) == c1 :> a @@ c2 :> b

Revoke2   == Revoke(bob, 2)
Revoke3   == Revoke(alice, 3)
Delete1   == OnSeqs("deleteSelf", alice, {1})
DeleteAll == OnSeqs("deleteAll", bob, {2, 3})
PullAll   == Pull(alice, 1, 3, 3)
PullPage  == Pull(alice, 1, 3, 2)

WriteScenario == {
    Both(Revoke2, Revoke3),
    Both(Revoke3, OnSeqs("markMsgs", bob, {1, 3})),
    Both(OnSeqs("markConv", bob, {3}), Delete1),
    Both(Revoke3, Purge(1, FALSE)),
    Both(OnSeqs("markMsgs", bob, {1, 3}), Purge(3, FALSE)),
    Both(DeleteAll, Revoke2),
    Both(Purge(3, TRUE), OnSeqs("setRead", alice, {1})),
    Both(Clear("clearAll", bob), OnSeqs("readSeq", alice, {2}))}

LiveScenario == {
    Both(Revoke2, Revoke3),
    Both(PullAll, Delete1),
    Both(PullPage, OnSeqs("deleteSelf", alice, {1, 3}))}

ReadScenario == {
    Both(PullAll, Delete1),
    Both(PullPage, Delete1),
    Both(PullAll, Revoke(bob, 1)),
    Both(PullPage, Purge(1, FALSE)),
    Both(PullAll, Purge(3, FALSE)),
    Both(PullSeqs(bob, 1, 3), Revoke3),
    Both(PullSeqs(bob, 1, 3), DeleteAll),
    Both(PullAll, Destruct(alice, 2)),
    Both(Pull(bob, 1, 2, 2), Clear("clearAll", bob)),
    Both(Destruct(alice, 2), Clear("clearSelf", alice))}
MCScenario == WriteScenario \cup ReadScenario
=============================================================================
