---------------------------- MODULE MCMsgTransfer ----------------------------
(***************************************************************************)
(* Small instances of MsgTransfer for TLC.  Alice and Bob exchange         *)
(* messages of the single chat, Kafka key k1; GroupMsg are the messages of *)
(* a group, key k2.                                                        *)
(***************************************************************************)
EXTENDS MsgTransfer, TLC

CONSTANTS m1, m2, m3, k1, k2, alice, bob, GroupMsg, OfBob

MCKeyOf     == [m \in Msg |-> IF m \in GroupMsg THEN k2 ELSE k1]
MCChatConv  == [m \in Msg |-> IF m \in GroupMsg THEN "sg_g" ELSE "si_a_b"]
MCNotifConv == [m \in Msg |-> IF m \in GroupMsg THEN "n_g" ELSE "n_a_b"]
MCConv      == { MCChatConv[m] : m \in Msg } \cup { MCNotifConv[m] : m \in Msg }
MCConvKey   == [c \in MCConv |-> IF c \in {"sg_g", "n_g"} THEN k2 ELSE k1]
MCSendID    == [m \in Msg |-> IF m \in OfBob THEN bob ELSE alice]
\* One partition; with two channels the group has a goroutine of its own.
MCPartitionOf  == [k \in Key |-> 1]
MCChannelOf    == [k \in Key |-> IF k = k2 /\ 2 \in Channel THEN 2 ELSE 1]
=============================================================================
