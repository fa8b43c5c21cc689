-------------------------- MODULE MCFollowupQueue --------------------------
(* Small instances of FollowupQueue for TLC. *)
EXTENDS FollowupQueueProperties, TLC

CONSTANTS m1, m2, m3, m4, o1, o2

\* all messages but m3 come from one chat.
MCRoute == [m \in Msgs |-> IF m = m3 THEN "chat2" ELSE "chat1"]

\* A channel replies cannot be routed to: m2's.
MCUnroutable == {m2} \cap Msgs

Setting(mode, cap, drop) == [mode |-> mode, cap |-> cap, drop |-> drop]

MCAllDrops == {Setting("collect", 2, "summarize"), Setting("followup", 1, "old"),
               Setting("collect", 2, "new")}
MCDropNew == {Setting("collect", 2, "new"), Setting("followup", 2, "new")}
MCFollowupNew == {Setting("followup", 1, "new")}

MCObjectSymmetry == Permutations(Objects)
=============================================================================
