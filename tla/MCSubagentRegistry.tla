-------------------------- MODULE MCSubagentRegistry --------------------------
(* A subagent that spawns another, whose session is deleted at its end: the   *)
(* first is put off while the second is pending, and woken when it settled.   *)
EXTENDS SubagentRegistryProperties

CONSTANTS a, b

MCParent == [s \in Sessions |-> IF s = b THEN a ELSE Main]
=============================================================================
