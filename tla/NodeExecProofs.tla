---------------------------- MODULE NodeExecProofs ----------------------------
(* What NodeExecProperties says of the approvals and of the calls that wait, *)
(* proved for any executions, other clients and connections.                 *)
EXTENDS NodeExecProperties, TLAPS

\* TypeOK in three parts.
EntriesTyped ==
    /\ entry \in [Execs -> [resolved : BOOLEAN, decision : Decisions \cup {"none"},
                            by : {"none", "pending", "operator", "timer", "no-approval-route"}]]
    /\ promise \in [Execs -> Decisions \cup {"none", "unsettled"}]
    /\ \A x \in Execs : entry[x].resolved => promise[x] # "unsettled"

Claims == Allowances \cup {"none"}

CallsTyped ==
    call \in [Calls -> [for : Execs \cup {None}, claim : Claims,
                        scoped : BOOLEAN, reached : BOOLEAN,
                        at : {"unused", "asked", "pending", "answered", "failed", "refused"}]]

RestTyped ==
    /\ age \in [Execs -> {"before", "at", "after"}]
    /\ fallback \in [Execs -> Fallbacks]
    /\ tool \in [Execs -> {"idle", "forwarding", "accepted", "waiting", "calling", "done"}]
    /\ session \in Conns \cup {None}
    /\ conn \in [Conns -> {"unused", "open", "broken", "closed"}]
    /\ given \in [Execs -> Decisions \cup {"none"}]
    /\ approved \in [Execs -> Nat]

Typed == EntriesTyped /\ CallsTyped /\ RestTyped

\* Of an execution: its approval is unknown, undecided or settled; it is asked
\* for once, before anything else; nothing passes as approved before somebody
\* decided; and what is kept of a decision allows no more than is left of it.
KeptOf(x) ==
    /\ entry[x] \in {NoEntry, Unresolved} \/ entry[x].resolved
    /\ tool[x] = "idle" => entry[x] = NoEntry /\ given[x] = "none" /\ approved[x] = 0
    /\ Pending(x) => given[x] = "none" /\ approved[x] = 0
    /\ given[x] = "allow-once"
       => /\ entry[x].by # "timer" /\ entry[x].decision # "allow-always"
          /\ entry[x].decision = "allow-once" => approved[x] = 0
          /\ approved[x] <= 1
    /\ given[x] = "deny"
       => entry[x].by # "timer" /\ entry[x].decision \notin Allowances /\ approved[x] = 0

Kept == \A x \in Execs : KeptOf(x)

SessionIsNotClosed == session # None => conn[session] # "closed"

\* The tool ends, or calls.
LEMMA ActsResult ==
    ASSUME Typed, NEW x \in Execs, NEW from, NEW decision \in Decisions \cup {"none"},
           Acts(x, from, decision)
    PROVE  /\ tool[x] = from
           /\ tool' \in {[tool EXCEPT ![x] = "done"], [tool EXCEPT ![x] = "calling"]}
           /\ CallsTyped'
           /\ \A k \in Calls : call'[k].at = "pending" => call[k].at = "pending"
  <1>1. tool[x] = from /\ tool' \in {[tool EXCEPT ![x] = "done"], [tool EXCEPT ![x] = "calling"]}
    BY DEF Acts, Goes
  <1>2. CASE UNCHANGED call
    BY <1>1, <1>2 DEF Typed, CallsTyped
  <1>3. CASE ~Denied(x, decision)
    <2>1. Claim(x, decision) \in Claims
      BY <1>3 DEF Claim, Claims, Denied, Decisions, Allowances
    <2>2. call' = [call EXCEPT ![x] = [for |-> x, claim |-> Claim(x, decision), scoped |-> FALSE,
                                       reached |-> FALSE, at |-> "asked"]]
      BY <1>3 DEF Acts, NoCall
    <2> QED
      BY <1>1, <2>1, <2>2 DEF Typed, CallsTyped, Calls
  <1> QED
    BY <1>2, <1>3 DEF Acts

\* What another client asks for.
LEMMA AskedCall ==
    ASSUME NEW x \in Execs, NEW claim \in Claims, NEW scoped \in BOOLEAN
    PROVE  [NoCall EXCEPT !.for = x, !.at = "asked", !.claim = claim, !.scoped = scoped]
           \in [for : Execs \cup {None}, claim : Claims, scoped : BOOLEAN, reached : BOOLEAN,
               at : {"unused", "asked", "pending", "answered", "failed", "refused"}]
  BY DEF NoCall

\* A call that goes on to the node waits for it, or failed.
LEMMA SendResult ==
    ASSUME Typed, NEW k \in Calls, Send(k)
    PROVE  CallsTyped' /\ \A j \in Calls : j # k => call'[j] = call[j]
  <1>1. CASE call' = [call EXCEPT ![k].at = "pending", ![k].reached = conn[session] = "open"]
    <2>1. (conn[session] = "open") \in BOOLEAN
      OBVIOUS
    <2>2. call'[k] = [for |-> call[k].for, claim |-> call[k].claim, scoped |-> call[k].scoped,
                      reached |-> conn[session] = "open", at |-> "pending"]
      BY <1>1 DEF Typed, CallsTyped
    <2> QED
      BY <1>1, <2>1, <2>2 DEF Typed, CallsTyped
  <1>2. CASE Ends(k, "failed")
    BY <1>2 DEF Ends, Typed, CallsTyped
  <1> QED
    BY <1>1, <1>2 DEF Send

\* What is settled is typed, whoever settles it.
LEMMA SettledResult ==
    ASSUME Typed, NEW x \in Execs, NEW decision \in Decisions \cup {"none"},
           NEW by \in {"operator", "timer", "no-approval-route"}, Settled(x, decision, by)
    PROVE  EntriesTyped'
  BY DEF Settled, Typed, EntriesTyped, Decisions, Allowances

LEMMA ApprovalsAlone ==
    ASSUME EntriesTyped, UNCHANGED approvals
    PROVE  EntriesTyped' /\ UNCHANGED <<entry, promise, age>>
  BY DEF approvals, EntriesTyped

LEMMA TypedStep == Typed /\ [Next]_vars => Typed'
  <1> SUFFICES ASSUME Typed, [Next]_vars PROVE Typed'
    OBVIOUS
  <1> USE DEF Typed
  <1>1. ASSUME NEW x \in Execs, Request(x) PROVE Typed'
    <2>1. EntriesTyped'
      BY <1>1 DEF Request, Unresolved, EntriesTyped
    <2>2. RestTyped'
      BY <1>1 DEF Request, Goes, RestTyped, registry
    <2> QED
      BY <1>1, <2>1, <2>2 DEF Request, CallsTyped
  <1>2. ASSUME NEW x \in Execs, NoRoute(x) PROVE Typed'
    <2>1. EntriesTyped'
      BY <1>2, SettledResult DEF NoRoute, EntriesTyped
    <2>2. CallsTyped' /\ tool' \in {[tool EXCEPT ![x] = "done"], [tool EXCEPT ![x] = "calling"]}
      BY <1>2, ActsResult DEF NoRoute
    <2> QED
      BY <1>2, <2>1, <2>2 DEF NoRoute, RestTyped, registry
  <1>3. ASSUME NEW x \in Execs, Forwarded(x) PROVE Typed'
    BY <1>3 DEF Forwarded, Goes, approvals, registry, EntriesTyped, CallsTyped, RestTyped
  <1>4. ASSUME NEW x \in Execs, WaitDecision(x) PROVE Typed'
    <2>1. CASE Known(x)
      <3>1. UNCHANGED call /\ tool' = [tool EXCEPT ![x] = "waiting"]
        BY <1>4, <2>1 DEF WaitDecision, Goes
      <3> QED
        BY <1>4, <3>1, ApprovalsAlone DEF WaitDecision, registry, CallsTyped, RestTyped
    <2>2. CASE ~Known(x)
      <3>1. CallsTyped' /\ tool' \in {[tool EXCEPT ![x] = "done"], [tool EXCEPT ![x] = "calling"]}
        BY <1>4, <2>2, ActsResult DEF WaitDecision
      <3> QED
        BY <1>4, <3>1 DEF WaitDecision, approvals, registry, EntriesTyped, RestTyped
    <2> QED
      BY <2>1, <2>2
  <1>5. ASSUME NEW x \in Execs, Decided(x) PROVE Typed'
    <2>1. promise[x] \in Decisions \cup {"none"}
      BY <1>5 DEF Decided, EntriesTyped
    <2>2. CallsTyped' /\ tool' \in {[tool EXCEPT ![x] = "done"], [tool EXCEPT ![x] = "calling"]}
      BY <1>5, <2>1, ActsResult DEF Decided
    <2> QED
      BY <1>5, <2>2 DEF Decided, approvals, registry, EntriesTyped, RestTyped
  <1>6. ASSUME NEW x \in Execs, NEW decision \in Decisions, Resolve(x, decision) PROVE Typed'
    <2>1. EntriesTyped'
      BY <1>6, SettledResult DEF Resolve
    <2> QED
      BY <1>6, <2>1 DEF Resolve, registry, CallsTyped, RestTyped
  <1>7. ASSUME NEW x \in Execs, Ages(x) PROVE Typed'
    BY <1>7 DEF Ages, registry, EntriesTyped, CallsTyped, RestTyped
  <1>8. ASSUME NEW x \in Execs, Expire(x) PROVE Typed'
    <2>1. EntriesTyped'
      BY <1>8, SettledResult DEF Expire
    <2> QED
      BY <1>8, <2>1 DEF Expire, registry, CallsTyped, RestTyped
  <1>9. ASSUME NEW x \in Execs, GraceEnds(x) PROVE Typed'
    <2>1. EntriesTyped'
      BY <1>9 DEF GraceEnds, NoEntry, EntriesTyped
    <2> QED
      BY <1>9, <2>1 DEF GraceEnds, registry, CallsTyped, RestTyped
  <1>10. ASSUME NEW x \in Execs, Finish(x) \/ GiveUp(x) PROVE Typed'
    BY <1>10 DEF Finish, GiveUp, Goes, approvals, registry, EntriesTyped, CallsTyped, RestTyped
  <1>11. ASSUME NEW k, NEW x \in Execs, NEW claim \in Allowances \cup {"none"},
                NEW scoped \in BOOLEAN, Ask(k, x, claim, scoped)
         PROVE  Typed'
    <2>1. k \in Calls /\ call' = [call EXCEPT ![k] = [NoCall EXCEPT
                    !.for = x, !.at = "asked", !.claim = claim, !.scoped = scoped]]
        BY <1>11 DEF Ask, Calls
    <2>2. CallsTyped'
      BY <2>1, AskedCall DEF CallsTyped, Claims
    <2> QED
      BY <1>11, <2>2 DEF Ask, approvals, registry, EntriesTyped, RestTyped
  <1>12. ASSUME NEW k \in Calls, PlainCall(k) PROVE Typed'
    <2>1. CallsTyped'
      BY <1>12, SendResult DEF PlainCall
    <2> QED
      BY <1>12, <2>1 DEF PlainCall, approvals, registry, EntriesTyped, RestTyped
  <1>13. ASSUME NEW k \in Calls, ApprovedCall(k) PROVE Typed'
    <2>1. CallsTyped'
      BY <1>13, SendResult DEF ApprovedCall
    <2>2. EntriesTyped'
      BY <1>13 DEF ApprovedCall, Consumed, EntriesTyped
    <2>3. RestTyped'
      <3>1. UNCHANGED <<age, fallback, tool, registry, given>>
            /\ approved' = [approved EXCEPT ![call[k].for] = @ + 1]
        BY <1>13 DEF ApprovedCall
      <3>2. approved' \in [Execs -> Nat]
        <4>1. CASE call[k].for \in Execs
          <5>1. approved[call[k].for] + 1 \in Nat
            BY <4>1 DEF RestTyped
          <5> QED
            BY <3>1, <5>1 DEF RestTyped
        <4>2. CASE call[k].for \notin Execs
          BY <3>1, <4>2 DEF RestTyped
        <4> QED
          BY <4>1, <4>2
      <3> QED
        BY <3>1, <3>2 DEF registry, RestTyped
    <2> QED
      BY <2>1, <2>2, <2>3
  <1>14. ASSUME NEW k \in Calls, Refuse(k) \/ NotConnected(k) \/ Result(k) \/ Timeout(k)
         PROVE  Typed'
    <2>1. CallsTyped'
      BY <1>14 DEF Refuse, NotConnected, Result, Timeout, Ends, CallsTyped
    <2>2. UNCHANGED <<approvals, fallback, tool, registry, given, approved>>
      BY <1>14 DEF Refuse, NotConnected, Result, Timeout
    <2> QED
      BY <2>1, <2>2, ApprovalsAlone DEF registry, RestTyped
  <1>15. ASSUME NEW c \in Conns, Register(c) \/ Breaks(c) PROVE Typed'
    <2>1. session' \in Conns \cup {None}
          /\ conn' \in [Conns -> {"unused", "open", "broken", "closed"}]
      BY <1>15 DEF Register, Breaks, RestTyped
    <2>2. UNCHANGED <<approvals, fallback, tool, call, given, approved>>
      BY <1>15 DEF Register, Breaks
    <2> QED
      BY <2>1, <2>2 DEF approvals, EntriesTyped, CallsTyped, RestTyped
  <1>16. ASSUME NEW c \in Conns, Unregister(c) PROVE Typed'
    <2>1. CallsTyped'
      BY <1>16 DEF Unregister, CallsTyped
    <2>2. session' = None /\ conn' \in [Conns -> {"unused", "open", "broken", "closed"}]
      BY <1>16 DEF Unregister, RestTyped
    <2>3. UNCHANGED <<approvals, fallback, tool, given, approved>>
      BY <1>16 DEF Unregister
    <2> QED
      BY <2>1, <2>2, <2>3 DEF approvals, EntriesTyped, RestTyped
  <1>17. CASE UNCHANGED vars
    BY <1>17 DEF vars, approvals, registry, EntriesTyped, CallsTyped, RestTyped
  <1> QED
    BY <1>1, <1>2, <1>3, <1>4, <1>5, <1>6, <1>7, <1>8, <1>9, <1>10, <1>11, <1>12, <1>13,
       <1>14, <1>15, <1>16, <1>17 DEF Next, Gateway, Invoke

-----------------------------------------------------------------------------
(* A decision is kept for late waiters, and never more of it than is left. *)

\* Executions other than x keep what Kept says of them.
Untouched(x) ==
    /\ entry'[x] = entry[x] /\ given'[x] = given[x] /\ approved'[x] = approved[x]
    /\ tool'[x] = "idle" => tool[x] = "idle"

\* An action that moves one execution on, at most.
LEMMA KeptByOthers ==
    ASSUME Kept, NEW x \in Execs, Untouched(x)
    PROVE  KeptOf(x)'
  BY DEF Kept, KeptOf, Untouched, Pending, Known

LEMMA KeptStep == Typed /\ Kept /\ [Next]_vars => Kept'
  <1> SUFFICES ASSUME Typed, Kept, [Next]_vars, NEW x \in Execs PROVE KeptOf(x)'
    BY DEF Kept
  <1> USE DEF Typed
  <1>1. ASSUME NEW y \in Execs, Request(y) PROVE KeptOf(x)'
    <2>1. CASE x = y
      BY <1>1, <2>1
         DEF Request, Goes, Unresolved, Pending, Known, Allowances, Kept, KeptOf, EntriesTyped,
             RestTyped
    <2>2. CASE x # y
      BY <1>1, <2>2, KeptByOthers DEF Request, Goes, Untouched, EntriesTyped, RestTyped
    <2> QED
      BY <2>1, <2>2
  <1>2. ASSUME NEW y \in Execs, NoRoute(y) PROVE KeptOf(x)'
    <2>1. /\ tool[y] = "forwarding"
          /\ tool' \in {[tool EXCEPT ![y] = "done"], [tool EXCEPT ![y] = "calling"]}
      BY <1>2, ActsResult DEF NoRoute
    <2>2. CASE x = y /\ Pending(y)
      <3>1. entry'[x] = [resolved |-> TRUE, decision |-> "none", by |-> "no-approval-route"]
        BY <1>2, <2>2 DEF NoRoute, Settled, EntriesTyped
      <3> QED
        BY <1>2, <2>1, <2>2, <3>1 DEF NoRoute, Kept, KeptOf, Pending, Known, Allowances, RestTyped
    <2>3. CASE x # y \/ ~Pending(y)
      BY <1>2, <2>1, <2>3, KeptByOthers DEF NoRoute, Settled, Untouched, EntriesTyped, RestTyped
    <2> QED
      BY <2>2, <2>3
  <1>3. ASSUME NEW y \in Execs, Forwarded(y) \/ Finish(y) \/ GiveUp(y) PROVE KeptOf(x)'
    BY <1>3, KeptByOthers, ApprovalsAlone
       DEF Forwarded, Finish, GiveUp, Goes, Untouched, RestTyped
  <1>4. ASSUME NEW y \in Execs, WaitDecision(y) \/ Decided(y) PROVE KeptOf(x)'
    <2>1. tool' \in {[tool EXCEPT ![y] = to] : to \in {"done", "calling", "waiting"}}
      BY <1>4 DEF WaitDecision, Decided, Goes, Acts
    <2> QED
      BY <1>4, <2>1, KeptByOthers, ApprovalsAlone DEF WaitDecision, Decided, Untouched, RestTyped
  <1>5. ASSUME NEW y \in Execs, NEW decision \in Decisions, Resolve(y, decision) PROVE KeptOf(x)'
    <2>1. CASE x = y
      <3>1. /\ entry'[x] = [resolved |-> TRUE, decision |-> decision, by |-> "operator"]
            /\ given'[x] = decision /\ UNCHANGED <<approved, tool>>
        BY <1>5, <2>1 DEF Resolve, Settled, EntriesTyped, RestTyped
      <3>2. approved[x] = 0 /\ tool[x] # "idle"
        BY <1>5, <2>1 DEF Resolve, Kept, KeptOf, Pending, Known, NoEntry
      <3> QED
        BY <3>1, <3>2 DEF KeptOf, Pending, Known, Decisions, Allowances
    <2>2. CASE x # y
      BY <1>5, <2>2, KeptByOthers DEF Resolve, Settled, Untouched, EntriesTyped, RestTyped
    <2> QED
      BY <2>1, <2>2
  <1>6. ASSUME NEW y \in Execs, Ages(y) PROVE KeptOf(x)'
    BY <1>6, KeptByOthers DEF Ages, Untouched
  <1>7. ASSUME NEW y \in Execs, Expire(y) PROVE KeptOf(x)'
    <2>1. CASE x = y
      <3>1. /\ entry'[x] = [resolved |-> TRUE, decision |-> "none", by |-> "timer"]
            /\ UNCHANGED <<given, approved, tool>>
        BY <1>7, <2>1 DEF Expire, Settled, EntriesTyped
      <3>2. given[x] = "none" /\ tool[x] # "idle"
        BY <1>7, <2>1 DEF Expire, Kept, KeptOf, Pending, Known, NoEntry
      <3> QED
        BY <3>1, <3>2 DEF KeptOf, Pending, Known
    <2>2. CASE x # y
      BY <1>7, <2>2, KeptByOthers DEF Expire, Settled, Untouched, EntriesTyped
    <2> QED
      BY <2>1, <2>2
  <1>8. ASSUME NEW y \in Execs, GraceEnds(y) PROVE KeptOf(x)'
    <2>1. CASE x = y
      BY <1>8, <2>1 DEF GraceEnds, NoEntry, Kept, KeptOf, Pending, Known, Allowances, EntriesTyped
    <2>2. CASE x # y
      BY <1>8, <2>2, KeptByOthers DEF GraceEnds, Untouched, EntriesTyped
    <2> QED
      BY <2>1, <2>2
  <1>9. ASSUME NEW k \in Calls, ApprovedCall(k) PROVE KeptOf(x)'
    <2> DEFINE y == call[k].for
    <2>1. /\ UNCHANGED <<tool, given>>
          /\ entry' = [entry EXCEPT ![y] = Consumed(@)]
          /\ approved' = [approved EXCEPT ![y] = @ + 1]
          /\ Lets(y, call[k])
      BY <1>9 DEF ApprovedCall
    <2>2. CASE x = y
      <3>1. /\ entry'[x] = Consumed(entry[x]) /\ approved'[x] = approved[x] + 1
            /\ approved[x] \in Nat
        BY <2>1, <2>2 DEF EntriesTyped, RestTyped
      <3>2. Known(x) /\ (entry[x].decision \in Allowances \/ TimedOut(x))
        BY <2>1, <2>2 DEF Lets
      <3>3. /\ entry'[x].resolved = entry[x].resolved /\ entry'[x].by = entry[x].by
            /\ entry'[x].decision
               = IF entry[x].decision = "allow-once" THEN "none" ELSE entry[x].decision
        BY <3>1 DEF Consumed, EntriesTyped
      <3>4. entry[x].resolved /\ tool[x] # "idle"
        BY <3>2 DEF Kept, KeptOf, Known, NoEntry, Unresolved, Allowances, TimedOut
      <3>5. /\ given[x] # "deny"
            /\ given[x] = "allow-once" => approved[x] = 0 /\ entry[x].decision = "allow-once"
        BY <3>2 DEF Kept, KeptOf, TimedOut, Allowances
      <3> QED
        <4>1. entry'[x].resolved /\ tool'[x] # "idle" /\ given'[x] = given[x]
          BY <2>1, <3>3, <3>4
        <4>2. given'[x] = "allow-once" => approved'[x] <= 1 /\ entry'[x].decision = "none"
          BY <3>1, <3>3, <3>5, <4>1
        <4>3. given'[x] = "allow-once" => entry'[x].by # "timer"
          BY <3>3, <4>1 DEF Kept, KeptOf
        <4> QED
          BY <3>5, <4>1, <4>2, <4>3 DEF KeptOf, Pending
    <2>3. CASE x # y
      BY <2>1, <2>3, KeptByOthers DEF Untouched, EntriesTyped, RestTyped
    <2> QED
      BY <2>2, <2>3
  <1>10. ASSUME UNCHANGED <<approvals, tool, given, approved>> PROVE KeptOf(x)'
    BY <1>10, KeptByOthers, ApprovalsAlone DEF Untouched
  <1>11. ASSUME NEW k \in Calls,
                PlainCall(k) \/ Refuse(k) \/ NotConnected(k) \/ Result(k) \/ Timeout(k)
         PROVE  KeptOf(x)'
    BY <1>10, <1>11 DEF PlainCall, Refuse, NotConnected, Result, Timeout
  <1>12. ASSUME NEW k, NEW y, NEW claim, NEW scoped, Ask(k, y, claim, scoped) PROVE KeptOf(x)'
    BY <1>10, <1>12 DEF Ask
  <1>13. ASSUME NEW c \in Conns, Register(c) \/ Breaks(c) \/ Unregister(c) PROVE KeptOf(x)'
    BY <1>10, <1>13 DEF Register, Breaks, Unregister
  <1>14. CASE UNCHANGED vars
    BY <1>10, <1>14 DEF vars
  <1> QED
    BY <1>1, <1>2, <1>3, <1>4, <1>5, <1>6, <1>7, <1>8, <1>9, <1>11, <1>12, <1>13, <1>14
    DEF Next, Gateway, Invoke

-----------------------------------------------------------------------------
(* Calls that wait, and the connection they wait for. *)

Waiting == SessionIsNotClosed /\ WaitsForANode

LEMMA WaitingStep == Typed /\ Waiting /\ [Next]_vars => Waiting'
  <1> SUFFICES ASSUME Typed, Waiting, [Next]_vars PROVE Waiting'
    OBVIOUS
  <1> USE DEF Waiting, SessionIsNotClosed, WaitsForANode
  <1>1. ASSUME UNCHANGED registry,
               \A k \in Calls : call'[k].at = "pending" => call[k].at = "pending"
        PROVE  Waiting'
    BY <1>1 DEF registry
  <1>2. ASSUME NEW x \in Execs, NoRoute(x) PROVE Waiting'
    BY <1>1, <1>2, ActsResult DEF NoRoute
  <1>3. ASSUME NEW x \in Execs, WaitDecision(x) PROVE Waiting'
    BY <1>1, <1>3, ActsResult DEF WaitDecision
  <1>4. ASSUME NEW x \in Execs, Decided(x) PROVE Waiting'
    <2>1. promise[x] \in Decisions \cup {"none"}
      BY <1>4 DEF Decided, Typed, EntriesTyped
    <2> QED
      BY <1>1, <1>4, <2>1, ActsResult DEF Decided
  <1>5. ASSUME NEW x \in Execs, \/ Request(x) \/ Forwarded(x) \/ Finish(x) \/ GiveUp(x)
                                \/ Ages(x) \/ Expire(x) \/ GraceEnds(x)
        PROVE  Waiting'
    BY <1>1, <1>5 DEF Request, Forwarded, Finish, GiveUp, Ages, Expire, GraceEnds
  <1>6. ASSUME NEW x \in Execs, NEW decision, Resolve(x, decision) PROVE Waiting'
    BY <1>1, <1>6 DEF Resolve
  <1>7. ASSUME NEW k, NEW x, NEW claim, NEW scoped, Ask(k, x, claim, scoped) PROVE Waiting'
    <2>1. /\ UNCHANGED registry /\ call'[k].at = "asked"
          /\ \A j \in Calls : j # k => call'[j] = call[j]
      BY <1>7 DEF Ask, Typed, CallsTyped, Calls, NoCall
    <2> QED
      BY <1>1, <2>1
  <1>8. ASSUME NEW k \in Calls, PlainCall(k) \/ ApprovedCall(k) PROVE Waiting'
    <2>1. UNCHANGED registry /\ session # None /\ Send(k)
      BY <1>8 DEF PlainCall, ApprovedCall
    <2> QED
      BY <2>1, SendResult DEF registry
  <1>9. ASSUME NEW k \in Calls, Refuse(k) \/ NotConnected(k) \/ Result(k) \/ Timeout(k)
        PROVE  Waiting'
    <2>1. /\ UNCHANGED registry /\ call'[k].at # "pending"
          /\ \A j \in Calls : j # k => call'[j] = call[j]
      BY <1>9 DEF Refuse, NotConnected, Result, Timeout, Ends, Typed, CallsTyped
    <2> QED
      BY <1>1, <2>1
  <1>10. ASSUME NEW c \in Conns, Register(c) PROVE Waiting'
    BY <1>10, NodeExecAssumption DEF Register, Typed, RestTyped
  <1>11. ASSUME NEW c \in Conns, Breaks(c) PROVE Waiting'
    BY <1>11 DEF Breaks, Typed, RestTyped
  <1>12. ASSUME NEW c \in Conns, Unregister(c) PROVE Waiting'
    BY <1>12 DEF Unregister, Typed, CallsTyped
  <1>13. CASE UNCHANGED vars
    BY <1>1, <1>13 DEF vars
  <1> QED
    BY <1>2, <1>3, <1>4, <1>5, <1>6, <1>7, <1>8, <1>9, <1>10, <1>11, <1>12, <1>13
    DEF Next, Gateway, Invoke

-----------------------------------------------------------------------------
(* The inductive invariant, and the theorems. *)

IInv == Typed /\ Kept /\ Waiting

LEMMA InitHolds == Init => IInv
  <1> SUFFICES ASSUME Init PROVE IInv
    OBVIOUS
  <1> USE DEF Init
  <1>1. Typed
    <2>1. EntriesTyped
      BY DEF EntriesTyped, NoEntry
    <2>2. CallsTyped
      BY DEF CallsTyped, NoCall, Claims
    <2>3. RestTyped
      BY DEF RestTyped
    <2> QED
      BY <2>1, <2>2, <2>3 DEF Typed
  <1>2. Kept
    BY DEF Kept, KeptOf, NoEntry, Pending, Known
  <1>3. Waiting
    BY DEF Waiting, SessionIsNotClosed, WaitsForANode, NoCall
  <1> QED
    BY <1>1, <1>2, <1>3 DEF IInv

LEMMA Invariance == Spec => []IInv
  <1>1. IInv /\ [Next]_vars => IInv'
    BY TypedStep, KeptStep, WaitingStep DEF IInv
  <1> QED
    BY <1>1, InitHolds, PTL DEF Spec

\* An approval kept for late waiters always says what its waiters were told, and
\* no state of an execution, a call or a connection leaves its type.
THEOREM ExecTypeCorrect == Spec => []TypeOK
  <1>1. IInv => TypeOK
    BY DEF IInv, Typed, EntriesTyped, CallsTyped, RestTyped, TypeOK, Claims
  <1> QED
    BY <1>1, Invariance, PTL

\* Of a command allowed once, the node gets one approved call at most, of a
\* denied one none, whatever any number of clients calls: a decision is given to
\* an approval that let nothing pass before, and what is kept of it is used up.
THEOREM OnceIsOnce == Spec => []OnceMeansOnce
  <1>1. IInv => OnceMeansOnce
    BY DEF IInv, Kept, KeptOf, OnceMeansOnce
  <1> QED
    BY <1>1, Invariance, PTL

\* Calls wait only while the node is registered with a connection the gateway does
\* not know to be closed: the close of one fails all calls that wait, those
\* of a later connection included.
THEOREM CallsWaitForANode == Spec => []WaitsForANode
  <1>1. IInv => WaitsForANode
    BY DEF IInv, Waiting
  <1> QED
    BY <1>1, Invariance, PTL
=============================================================================
