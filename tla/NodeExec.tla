------------------------------- MODULE NodeExec -------------------------------
(***************************************************************************)
(* Commands that agents run on a paired node with an operator's approval:  *)
(* the approvals of the gateway (src/gateway/exec-approval-manager.ts and  *)
(* server-methods/exec-approval.ts), the exec tool that asks for one and   *)
(* waits (src/agents/bash-tools.exec-host-node.ts), the check of calls to  *)
(* system.run against them (node-invoke-system-run-approval.ts), and the   *)
(* registry through which calls reach the node (node-registry.ts).         *)
(*                                                                         *)
(* The gateway is one process: what it does between two awaits is one      *)
(* action.  Tool, operator and node talk to it by messages, each of which  *)
(* may take its time.  There is one node, which may change its connection. *)
(***************************************************************************)
EXTENDS Naturals

CONSTANTS
    Execs,        \* executions of the tool: approval id and run id in one
    Others,       \* calls of system.run by other clients
    Conns,        \* connections the node may open, each once
    Fallbacks,    \* the askFallback settings there are
    None

Calls == Execs \cup Others
Allowances == {"allow-once", "allow-always"}
Decisions == Allowances \cup {"deny"}

ASSUME NodeExecAssumption ==
    /\ Fallbacks \subseteq {"deny", "allowlist", "full"}
    /\ Execs \cap Others = {}
    /\ None \notin Conns \cup Execs

VARIABLES
    entry,     \* pending of the manager: what it knows of each approval
    promise,   \* of each approval: unsettled, or what it was resolved with
    age,       \* whether the clock is before, at or after the expiry of an approval
    fallback,  \* the askFallback setting of each execution
    tool,      \* how far each execution of the tool has come
    session,   \* nodesById of the node: the connection calls go to
    conn,      \* the state of each connection
    call,      \* the calls made
    given,     \* history: the decision an operator gave, if any
    approved   \* history: how many calls of each execution were sent on as approved

approvals == <<entry, promise, age>>
registry == <<session, conn>>
vars == <<approvals, fallback, tool, registry, call, given, approved>>

NoEntry == [resolved |-> FALSE, decision |-> "none", by |-> "none"]
Unresolved == [resolved |-> FALSE, decision |-> "none", by |-> "pending"]
NoCall == [for |-> None, claim |-> "none", scoped |-> FALSE, reached |-> FALSE, at |-> "unused"]

Init ==
    /\ entry = [x \in Execs |-> NoEntry]
    /\ promise = [x \in Execs |-> "unsettled"]
    /\ age = [x \in Execs |-> "before"]
    /\ fallback \in [Execs -> Fallbacks]
    /\ tool = [x \in Execs |-> "idle"]
    /\ session = None
    /\ conn = [c \in Conns |-> "unused"]
    /\ call = [k \in Calls |-> NoCall]
    /\ given = [x \in Execs |-> "none"]
    /\ approved = [x \in Execs |-> 0]

Goes(x, from, to) == tool[x] = from /\ tool' = [tool EXCEPT ![x] = to]

Known(x) == entry[x].by # "none"
Pending(x) == Known(x) /\ ~entry[x].resolved

-----------------------------------------------------------------------------
(* The approval, from the request of the tool to the decision it gets *)

\* resolve and expire of the manager: the entry stays for a grace period, so
\* that late waiters find it.
Settled(x, decision, by) ==
    /\ entry' = [entry EXCEPT ![x] = [resolved |-> TRUE, decision |-> decision, by |-> by]]
    /\ promise' = [promise EXCEPT ![x] = decision]

\* exec.approval.request registers the approval, then passes it on to whoever
\* may decide.
Request(x) ==
    /\ Goes(x, "idle", "forwarding")
    /\ entry' = [entry EXCEPT ![x] = Unresolved]
    /\ UNCHANGED <<promise, age, fallback, registry, call, given, approved>>

Denied(x, decision) == decision = "deny" \/ (decision = "none" /\ fallback[x] = "deny")

\* What the tool claims when it calls: without a decision, the fallback full
\* claims one, and the fallback allowlist leaves it to the node.
Claim(x, decision) ==
    IF decision = "none" THEN IF fallback[x] = "full" THEN "allow-once" ELSE "none"
    ELSE decision

\* The tool has a decision, or the word that there is none: it ends, or calls
\* node.invoke, with no more than the scope of that method.
Acts(x, from, decision) ==
    IF Denied(x, decision) THEN Goes(x, from, "done") /\ UNCHANGED call
    ELSE /\ Goes(x, from, "calling")
         /\ call' = [call EXCEPT ![x] = [NoCall EXCEPT !.for = x, !.at = "asked",
                                                        !.claim = Claim(x, decision)]]

\* Nobody could be asked: the approval expires at once, if nobody has decided
\* it, and the answer is in any case that there is no decision.
NoRoute(x) ==
    /\ Acts(x, "forwarding", "none")
    /\ IF Pending(x) THEN Settled(x, "none", "no-approval-route")
       ELSE UNCHANGED <<entry, promise>>
    /\ UNCHANGED <<age, fallback, registry, given, approved>>

\* The approval was passed on, and the tool is told that it is registered.
Forwarded(x) ==
    /\ Goes(x, "forwarding", "accepted")
    /\ UNCHANGED <<approvals, fallback, registry, call, given, approved>>

WaitDecisionFaulty(x) ==
    /\ Known(x)
    /\ Goes(x, "accepted", "waiting")
    /\ UNCHANGED <<approvals, fallback, registry, call, given, approved>>

\* exec.approval.waitDecision: of an approval that is not known any more there
\* is no decision, any other is waited for.
WaitDecision(x) ==
    /\ IF Known(x) THEN Goes(x, "accepted", "waiting") /\ UNCHANGED call
       ELSE Acts(x, "accepted", "none")
    /\ UNCHANGED <<approvals, fallback, registry, given, approved>>

Decided(x) ==
    /\ promise[x] # "unsettled"
    /\ Acts(x, "waiting", promise[x])
    /\ UNCHANGED <<approvals, fallback, registry, given, approved>>

\* exec.approval.resolve, by an operator.
Resolve(x, decision) ==
    /\ Pending(x)
    /\ Settled(x, decision, "operator")
    /\ given' = [given EXCEPT ![x] = decision]
    /\ UNCHANGED <<age, fallback, tool, registry, call, approved>>

Ages(x) ==
    /\ Known(x) /\ age[x] # "after"
    /\ age' = [age EXCEPT ![x] = IF @ = "before" THEN "at" ELSE "after"]
    /\ UNCHANGED <<entry, promise, fallback, tool, registry, call, given, approved>>

\* The timer of the approval, not before its expiry.
Expire(x) ==
    /\ Pending(x) /\ age[x] # "before"
    /\ Settled(x, "none", "timer")
    /\ UNCHANGED <<age, fallback, tool, registry, call, given, approved>>

GraceEnds(x) ==
    /\ Known(x) /\ entry[x].resolved
    /\ entry' = [entry EXCEPT ![x] = NoEntry]
    /\ UNCHANGED <<promise, age, fallback, tool, registry, call, given, approved>>

-----------------------------------------------------------------------------
(* Calls of system.run through node.invoke *)

\* Another client calls, and may name any approval and claim any decision.
Ask(k, x, claim, scoped) ==
    /\ k \in Others /\ call[k].at = "unused" /\ claim \in Allowances \cup {"none"}
    /\ call' = [call EXCEPT ![k] = [NoCall EXCEPT !.for = x, !.at = "asked",
                                                   !.claim = claim, !.scoped = scoped]]
    /\ UNCHANGED <<approvals, fallback, tool, registry, given, approved>>

TimedOutFaulty(x) == entry[x].resolved /\ entry[x].decision = "none"

\* What looks like an approval that nobody decided in time.
TimedOut(x) == entry[x].resolved /\ entry[x].decision = "none" /\ entry[x].by = "timer"

\* sanitizeSystemRunParamsForForwarding: whether an approval lets a call that
\* claims a decision pass as approved.  A timeout lets pass only what clients
\* that may decide approvals call.
Lets(x, c) ==
    /\ Known(x) /\ age[x] # "after"
    /\ \/ entry[x].decision \in Allowances
       \/ TimedOut(x) /\ c.claim = "allow-once" /\ c.scoped

\* consumeAllowOnce
Consumed(e) == [e EXCEPT !.decision = IF @ = "allow-once" THEN "none" ELSE @]

Ends(k, how) == call' = [call EXCEPT ![k].at = how]

\* NodeRegistry.invoke: the call waits for its result, or cannot be sent.  The
\* node receives it if the connection is still there at its end.
Send(k) ==
    \/ call' = [call EXCEPT ![k].at = "pending", ![k].reached = conn[session] = "open"]
    \/ Ends(k, "failed")

\* node.invoke goes on once the node is connected.
PlainCall(k) ==
    /\ call[k].at = "asked" /\ session # None /\ call[k].claim = "none"
    /\ Send(k)
    /\ UNCHANGED <<approvals, fallback, tool, registry, given, approved>>

ApprovedCall(k) ==
    LET x == call[k].for IN
    /\ call[k].at = "asked" /\ session # None /\ call[k].claim # "none"
    /\ Lets(x, call[k])
    /\ entry' = [entry EXCEPT ![x] = Consumed(@)]
    /\ approved' = [approved EXCEPT ![x] = @ + 1]
    /\ Send(k)
    /\ UNCHANGED <<promise, age, fallback, tool, registry, given>>

\* What another client calls need not be what was approved, nor come from the
\* device that asked: then it is refused, too.
Refuse(k) ==
    /\ call[k].at = "asked" /\ session # None /\ call[k].claim # "none"
    /\ k \in Others \/ ~Lets(call[k].for, call[k])
    /\ Ends(k, "refused")
    /\ UNCHANGED <<approvals, fallback, tool, registry, given, approved>>

\* The node is not connected, and waking it (where that can be tried) did not
\* bring it back in time.
NotConnected(k) ==
    /\ call[k].at = "asked" /\ session = None
    /\ Ends(k, "failed")
    /\ UNCHANGED <<approvals, fallback, tool, registry, given, approved>>

Online == \E c \in Conns : conn[c] = "open"

\* handleInvokeResult.  A result may come over a later connection of the node
\* than the call went out on; one that nobody waits for is ignored.
Result(k) ==
    /\ call[k].at = "pending" /\ call[k].reached /\ Online
    /\ Ends(k, "answered")
    /\ UNCHANGED <<approvals, fallback, tool, registry, given, approved>>

Timeout(k) ==
    /\ call[k].at = "pending"
    /\ Ends(k, "failed")
    /\ UNCHANGED <<approvals, fallback, tool, registry, given, approved>>

Over(k) == call[k].at \in {"answered", "failed", "refused"}

\* The tool reports what came of its call.
Finish(x) ==
    /\ Goes(x, "calling", "done") /\ Over(x)
    /\ UNCHANGED <<approvals, fallback, registry, call, given, approved>>

\* A request of the tool to the gateway fails or takes too long: the tool ends,
\* what it asked for goes on.
GiveUp(x) ==
    /\ Goes(x, "waiting", "done") \/ Goes(x, "calling", "done")
    /\ UNCHANGED <<approvals, fallback, registry, call, given, approved>>

-----------------------------------------------------------------------------
(* The connections of the node *)

\* register: the node opens a connection once it knows its last one to be gone,
\* of which the gateway may not have heard.
Register(c) ==
    /\ conn[c] = "unused" /\ ~Online
    /\ conn' = [conn EXCEPT ![c] = "open"]
    /\ session' = c
    /\ UNCHANGED <<approvals, fallback, tool, call, given, approved>>

Breaks(c) ==
    /\ conn[c] = "open"
    /\ conn' = [conn EXCEPT ![c] = "broken"]
    /\ UNCHANGED <<approvals, fallback, tool, session, call, given, approved>>

UnregisterFaulty(c) ==
    /\ conn[c] = "broken"
    /\ conn' = [conn EXCEPT ![c] = "closed"]
    /\ session' = None
    /\ UNCHANGED <<approvals, fallback, tool, call, given, approved>>

\* The close of a connection removes the session of its node, whichever
\* connection that has now, and fails the calls the node was to answer.
Unregister(c) ==
    /\ conn[c] = "broken"
    /\ conn' = [conn EXCEPT ![c] = "closed"]
    /\ session' = None
    /\ call' = [k \in Calls |-> IF call[k].at = "pending" THEN [call[k] EXCEPT !.at = "failed"]
                                ELSE call[k]]
    /\ UNCHANGED <<approvals, fallback, tool, given, approved>>

-----------------------------------------------------------------------------

Gateway(x) == NoRoute(x) \/ Forwarded(x) \/ WaitDecision(x) \/ Decided(x)

Invoke(k) == PlainCall(k) \/ ApprovedCall(k) \/ Refuse(k) \/ NotConnected(k)

Next ==
    \/ \E x \in Execs :
        \/ Request(x) \/ Gateway(x) \/ Finish(x) \/ GiveUp(x)
        \/ Ages(x) \/ Expire(x) \/ GraceEnds(x)
        \/ \E decision \in Decisions : Resolve(x, decision)
        \/ \E k \in Others, claim \in Allowances \cup {"none"}, scoped \in BOOLEAN :
               Ask(k, x, claim, scoped)
    \/ \E k \in Calls : Invoke(k) \/ Result(k) \/ Timeout(k)
    \/ \E c \in Conns : Register(c) \/ Breaks(c) \/ Unregister(c)

Spec == Init /\ [][Next]_vars

\* Messages arrive and are handled, and timers fire.  Nothing is asked of
\* operators, of the node or of its connections.
Fairness ==
    /\ \A x \in Execs : /\ WF_vars(Gateway(x)) /\ WF_vars(Finish(x))
                        /\ WF_vars(Ages(x)) /\ WF_vars(Expire(x))
    /\ \A k \in Calls : WF_vars(Invoke(k)) /\ WF_vars(Timeout(k))

FairSpec == Spec /\ Fairness
=============================================================================
