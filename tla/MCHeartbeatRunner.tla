-------------------------- MODULE MCHeartbeatRunner --------------------------
(* Small instances of HeartbeatRunner for TLC. *)
EXTENDS HeartbeatRunnerProperties

CONSTANTS a1, a2, everyone, h1, h2, r1, r2
=============================================================================
