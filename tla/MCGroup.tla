------------------------------ MODULE MCGroup -------------------------------
(***************************************************************************)
(* Small groups for TLC: an owner, an admin and a user who is in or outside*)
(* the group; two goroutines serve the two or three requests of a scenario *)
(* in every order.                                                         *)
(***************************************************************************)
EXTENDS Group, TLC

CONSTANTS own, adm, usr

Outside == own :> "owner" @@ adm :> "admin" @@ usr :> "none"
Inside  == own :> "owner" @@ adm :> "admin" @@ usr :> "ordinary"
From(r, vf, S) == [role |-> r, verify |-> vf, ask |-> S]
Ask(kd, b, u, v) == [kind |-> kd, by |-> b, user |-> u, val |-> v]

Join     == Ask("join", usr, usr, "none")
Invite   == Ask("invite", adm, usr, "none")
Kick     == Ask("kick", adm, usr, "none")
Quit     == Ask("quit", usr, usr, "none")
Approve  == Ask("approve", adm, usr, "none")
Refuse   == Ask("refuse", own, usr, "none")
Mute     == Ask("muteMember", adm, usr, "none")
Unmute   == Ask("unmuteMember", adm, usr, "none")
Transfer(u)    == Ask("transfer", own, u, "none")
SetRoleTo(b, r) == Ask("setRole", b, usr, r)
Verify(b, v)   == Ask("setInfo", b, own, v)
Dismiss(v)     == Ask("dismiss", own, own, v)
Send     == Ask("send", usr, usr, "none")
Resend   == Ask("send", usr, usr, "again")

MCScenario == {
    From(Inside, "directly", {Kick, Quit, Invite}),
    From(Outside, "directly", {Join, Kick}),
    From(Outside, "apply", {Join, Ask("join", usr, usr, "again"), Approve}),
    From(Outside, "apply", {Join, Approve, Invite}),
    From(Outside, "apply", {Join, Approve, Refuse}),
    From(Inside, "all", {Ask("invite", usr, usr, "none"), Transfer(adm), SetRoleTo(usr, "ordinary")}),
    From(Inside, "apply", {Transfer(usr), Quit, SetRoleTo(own, "admin")}),
    From(Inside, "all", {SetRoleTo(own, "admin"), Mute, Unmute}),
    From(Inside, "all", {Verify(adm, "directly"), Ask("unmuteGroup", own, own, "none"),
                         Ask("muteGroup", adm, own, "none")}),
    From(Outside, "directly", {Dismiss("delete"), Invite, Quit}),
    From(Inside, "directly", {Dismiss("keep"), Transfer(adm), SetRoleTo(adm, "admin")}),
    From(Inside, "directly", {Mute, Send, Resend}),
    From(Inside, "directly", {Kick, Send, Resend}),
    From(Inside, "directly", {Ask("muteGroup", adm, own, "none"), Dismiss("keep"), Send})}
=============================================================================
