------------------------------ MODULE MCGateway ------------------------------
(***************************************************************************)
(* Small instances of Gateway for TLC.  Bobs are the connections of Bob,   *)
(* all others are Alice's; Pcs are the connections from a PC, all others   *)
(* are from a phone; Shared connections use one token, all others have a   *)
(* token of their own.                                                     *)
(***************************************************************************)
EXTENDS Gateway, TLC

CONSTANTS n1, n2, n3, c1, c2, c3, alice, bob, phone, pc, Bobs, Pcs, Shared, RemoteUsers, k1

MCUserOf     == [n \in Conn |-> IF n \in Bobs THEN bob ELSE alice]
MCPlatformOf == [n \in Conn |-> IF n \in Pcs THEN pc ELSE phone]
MCToken      == Conn \cup {"shared", "remote"}
MCTokenOf    == [n \in Conn |-> IF n \in Shared THEN "shared" ELSE n]
MCRemote     == { [user |-> u, platform |-> phone, token |-> "remote"] : u \in RemoteUsers }
\* Every Kick call is for Alice's phone.
MCKickUser     == [k \in Kick |-> alice]
MCKickPlatform == [k \in Kick |-> phone]
MCClients    == Permutations({c1, c2, c3} \cap Client)
=============================================================================
