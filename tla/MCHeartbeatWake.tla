--------------------------- MODULE MCHeartbeatWake ---------------------------
(* A small instance of HeartbeatWake for TLC. *)
EXTENDS HeartbeatWakeProperties, TLC

CONSTANTS t1, t2, h1, h2, r1, r2

MCSymmetry == Permutations(Targets) \cup Permutations(Handlers) \cup Permutations(Runs)
=============================================================================
