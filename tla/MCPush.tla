------------------------------ MODULE MCPush --------------------------------
EXTENDS Push

\* Three users; bob has a phone and a browser, the owner one iPhone.
Users == {"own", "bob", "eve"}
Gateways == {"g1", "g2"}
Devices == {"ownPhone", "bobPhone", "bobWeb"}
DeviceUser == [d \in Devices |-> IF d = "ownPhone" THEN "own" ELSE "bob"]
DevicePlatform == [d \in Devices |-> CASE d = "ownPhone" -> "ios"
                                       [] d = "bobPhone" -> "android"
                                       [] d = "bobWeb"   -> "web"]
Hosts0 == [u \in Users |-> IF u = "own" THEN "g1" ELSE "g2"]

Off == [at |-> "none", background |-> FALSE, closed |-> FALSE]
At(g) == [Off EXCEPT !.at = g]
AllOff == [d \in Devices |-> Off]
Some  == [d \in Devices |-> CASE d = "ownPhone" -> At("g1")
                              [] d = "bobPhone" -> Off
                              [] d = "bobWeb"   -> At("g2")]
Ask(k, by, u) == [kind |-> k, by |-> by, user |-> u]
Chat == Ask("chat", "own", "own")

\* Membership changes around pushes, no gateway registered.
Quiet == [k8s |-> FALSE, gateway |-> {}, muted |-> {}, member |-> {"own", "bob"}, dev |-> AllOff,
          ask |-> <<>>, moves |-> 0, faults |-> 0, crashes |-> 0]
Membership ==
    { [Quiet EXCEPT !.ask = q] :
        q \in { <<Chat, Ask("join", "eve", "eve"), Chat>>,
                <<Chat, Ask("quit", "bob", "bob"), Chat>>,
                <<Ask("kick", "own", "bob"), Ask("join", "bob", "bob"), Chat>>,
                <<Chat, Ask("join", "eve", "eve"), Ask("quit", "eve", "eve"), Chat>>,
                <<Chat, Ask("dismiss", "own", "own")>> } }
    \cup { [Quiet EXCEPT !.ask = q, !.crashes = 1] :
        q \in { <<Chat, Ask("join", "eve", "eve")>>, <<Ask("quit", "bob", "bob")>>,
                <<Ask("kick", "own", "bob"), Ask("join", "bob", "bob")>>,
                <<Ask("dismiss", "own", "own")>> } }

\* One message, devices that come and go, gateways and a vendor that fail.
Busy == [Quiet EXCEPT !.gateway = Gateways, !.member = Users, !.dev = Some]
Delivery ==
    { [Busy EXCEPT !.k8s = k, !.muted = mu, !.ask = <<Ask(what, "own", "bob")>>,
                   !.moves = 2, !.faults = 2] :
        k \in BOOLEAN, mu \in {{}, {"eve"}}, what \in {"chat", "single"} }
    \cup { [Busy EXCEPT !.ask = <<Chat>>, !.faults = 1, !.crashes = 1] }

Scenarios == Membership \cup Delivery
=============================================================================
