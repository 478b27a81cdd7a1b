------------------------------ MODULE MCFriend ------------------------------
(***************************************************************************)
(* Two users for TLC; two or three goroutines serve the requests of a      *)
(* scenario in every order.                                                *)
(***************************************************************************)
EXTENDS Friend

CONSTANTS ann, bob

Ask(kd, b, p) == [kind |-> kd, by |-> b, peer |-> p, n |-> 1]
Again(o)      == [o EXCEPT !.n = 2]
From(F, B, S) == [friend |-> F, black |-> B, ask |-> S]
Mutual        == {<<ann, bob>>, <<bob, ann>>}

Apply  == Ask("apply", ann, bob)
Agrees == Ask("agree", bob, ann)      \* bob to the application of ann
Send   == Ask("send", ann, bob)
Block  == Ask("addBlack", bob, ann)
Unblock == Ask("removeBlack", bob, ann)

MCScenario == {
    \* Applications of both, agreed to by both.
    From({}, {}, {Apply, Ask("apply", bob, ann), Agrees, Ask("agree", ann, bob)}),
    \* One application, answered twice, or filed again after a deletion.
    From({}, {}, {Apply, Agrees, Again(Agrees), Ask("refuse", bob, ann)}),
    From({}, {}, {Apply, Again(Apply), Agrees, Ask("delete", ann, bob)}),
    From(Mutual, {}, {Ask("delete", bob, ann), Apply, Agrees, Send}),
    \* Imports beside an agreement.
    From({<<bob, ann>>}, {}, {Apply, Agrees, Ask("import", ann, bob)}),
    From({}, {}, {Apply, Agrees, Ask("import", bob, ann), Send}),
    \* A row deleted while an import is still adding the other.
    From({}, {}, {Apply, Agrees, Ask("import", ann, bob), Ask("delete", ann, bob)}),
    \* Blocking beside sending.
    From(Mutual, {}, {Block, Again(Block), Send, Again(Send)}),
    From(Mutual, {<<bob, ann>>}, {Unblock, Block, Send, Again(Send)})}
=============================================================================
