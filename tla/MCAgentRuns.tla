------------------------------ MODULE MCAgentRuns ------------------------------
(* A small instance of AgentRuns: two sessions of users, one of a cron job. *)
EXTENDS AgentRunsProperties

CONSTANTS message, step, job, compact, s1, s2

MCRuns == {message, step, job, compact}
MCSessions == {s1, s2}
MCSessionOf == [r \in MCRuns |-> IF r \in {message, compact} THEN s1 ELSE s2]
MCKind == [r \in MCRuns |-> CASE r = step -> "nested" [] r = job -> "cron"
                              [] r = compact -> "compact" [] OTHER -> "main"]
MCCopilot == {message}
MCWidth == [l \in MCSessions \cup {"main", "subagent", "nested", "cron"} |-> 1]
=============================================================================
