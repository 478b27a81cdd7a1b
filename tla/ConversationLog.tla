--------------------------- MODULE ConversationLog ---------------------------
(***************************************************************************)
(* What the message pipeline promises its readers about the numbering of   *)
(* conversations, with the pipeline left out.  Every conversation has a    *)
(* highest seq, which only grows, and a log of numbered messages, which is *)
(* write-once: an entry is added under a seq that was reserved before, and *)
(* no seq ever gets a second message.  Clients rely on exactly this: they  *)
(* remember the highest seq they hold, pull the seqs up to max they miss   *)
(* and never ask again for one they have.                                  *)
(***************************************************************************)
EXTENDS Naturals

CONSTANTS Conv, Msg

VARIABLES max, log

vars == <<max, log>>

Init == /\ max = [c \in Conv |-> 0]
        /\ log = {}

\* The highest seq of one conversation grows.
Reserve(c) ==
    /\ max'[c] > max[c]
    /\ max' = [max EXCEPT ![c] = max'[c]]
    /\ UNCHANGED log

\* Entries become visible under reserved seqs that name no other message.
Issue ==
    /\ log \subseteq log'
    /\ \A e \in log' \ log :
          /\ e.seq \in 1 .. max[e.conv]
          /\ \A f \in log' : e.conv = f.conv /\ e.seq = f.seq => e.msg = f.msg
    /\ UNCHANGED max

Next == (\E c \in Conv : Reserve(c)) \/ Issue

Spec == Init /\ [][Next]_vars
=============================================================================
