--------------------------- MODULE MCCommandQueue ---------------------------
(* A small instance of CommandQueue for TLC. *)
EXTENDS CommandQueueProperties

CONSTANTS l1, l2, t1, t2, t3

\* Two commands compete for one lane, the third goes to the other.
MCLaneOf == [t \in Tasks |-> IF t = t3 THEN l2 ELSE l1]
=============================================================================
