-------------------------- MODULE NodeExecProperties --------------------------
(* What the approvals of commands on a node promise (see NodeExec).         *)
EXTENDS NodeExec

\* The values the manager, the registry and the tool may hold; an approval that
\* is not known any more was settled, and the one kept says what its promise said.
TypeOK ==
    /\ entry \in [Execs -> [resolved : BOOLEAN, decision : Decisions \cup {"none"},
                            by : {"none", "pending", "operator", "timer", "no-approval-route"}]]
    /\ promise \in [Execs -> Decisions \cup {"none", "unsettled"}]
    /\ age \in [Execs -> {"before", "at", "after"}]
    /\ fallback \in [Execs -> Fallbacks]
    /\ tool \in [Execs -> {"idle", "forwarding", "accepted", "waiting", "calling", "done"}]
    /\ session \in Conns \cup {None}
    /\ conn \in [Conns -> {"unused", "open", "broken", "closed"}]
    /\ call \in [Calls -> [for : Execs \cup {None}, claim : Allowances \cup {"none"},
                           scoped : BOOLEAN, reached : BOOLEAN,
                           at : {"unused", "asked", "pending", "answered", "failed", "refused"}]]
    /\ given \in [Execs -> Decisions \cup {"none"}]
    /\ approved \in [Execs -> Nat]
    /\ \A x \in Execs : entry[x].resolved => promise[x] # "unsettled"

\* Of a command an operator allowed once, one call at most goes to the node as
\* approved, and of one that was denied none: whoever calls, however often, and
\* whether the approval is kept for late waiters, expires or is forgotten.
OnceMeansOnce ==
    \A x \in Execs : /\ given[x] = "allow-once" => approved[x] <= 1
                     /\ given[x] = "deny" => approved[x] = 0

\* A call waits only for a node that is registered: the close of a connection
\* fails every call that no answer could reach any more.
WaitsForANode ==
    \A k \in Calls : call[k].at = "pending" => session # None /\ conn[session] # "closed"

\* Every execution that asked for an approval comes to an end, although
\* operator and node may never answer.
ExecEnds == \A x \in Execs : tool[x] = "forwarding" ~> tool[x] = "done"

\* docs/tools/exec-approvals.md: where the fallback is full, what nobody decided
\* is allowed.
FullAllows == \A x \in Execs : fallback[x] = "full" /\ given[x] = "none" => call[x].at # "refused"
=============================================================================
