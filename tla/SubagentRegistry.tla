--------------------------- MODULE SubagentRegistry ---------------------------
(***************************************************************************)
(* The registry of subagent runs (src/agents/subagent-registry.ts and its  *)
(* companions): from the registration of a run to the announcement of its  *)
(* result to the session that asked for it, with failed and deferred       *)
(* announcements, the waking of a run whose own subagents have settled,    *)
(* kills, steering (which restarts a run in its session), and restarts of  *)
(* the gateway, which resume what the registry left on disk.               *)
(*                                                                         *)
(* A run stands for the session it was spawned in; steered or woken, the   *)
(* session gets another run number.  Every run is of spawnMode "run" and   *)
(* expects a completion message, as what the spawn tool starts does.       *)
(***************************************************************************)
EXTENDS Naturals, FiniteSets

CONSTANTS
    Sessions,     \* sessions of subagents
    Main,         \* a session that is none
    Parent,       \* which session asks for each
    Deletes,      \* sessions spawned with cleanup "delete"
    MaxRetries,   \* MAX_ANNOUNCE_RETRY_COUNT
    MaxAsks,      \* tries of a call: DIRECT_ANNOUNCE_TRANSIENT_RETRY_DELAYS_MS and one
    MaxRuns,      \* bound: how often a session is steered or woken
    MaxTroubles   \* bound: failed runs and waits, kills, steers, sweeps and crashes in all

ASSUME SubagentRegistryAssumption ==
    /\ Main \notin Sessions /\ Parent \in [Sessions -> Sessions \cup {Main}]
    /\ Deletes \subseteq Sessions
    /\ MaxRetries \in Nat \ {0} /\ MaxAsks \in Nat
    /\ MaxRuns \in Nat /\ MaxTroubles \in Nat

Numbers == 0..MaxRuns

VARIABLES
    reg,         \* per session: the record of its run, and what is in memory about it
    disk,        \* per session: the record in runs.json
    stored,      \* the sessions in the session store
    flow,        \* per session and run number: an announcement under way
    fresh,       \* sessions not spawned yet
    steering,    \* sessions a steer is restarting, with the run that it restarts
    up,          \* whether the gateway runs
    troubles,    \* how many troubles there were
    announced,   \* history: how often the result of each run was told, less the
                 \* tellings whose call was left without an answer
    waived       \* history: the runs whose result nobody was to be told

vars == <<reg, disk, stored, flow, fresh, steering, up, troubles, announced, waived>>

NoEntry == [known |-> FALSE, no |-> 0, woken |-> FALSE, ended |-> FALSE, ok |-> FALSE,
            handled |-> FALSE, completed |-> FALSE, suppress |-> "none", retries |-> 0,
            wake |-> FALSE, expired |-> FALSE]

\* agent: the run itself, failed while its error is in the grace period; waiting:
\* agent.wait is under way; completing: a completion awaits the reply; resumed:
\* resumedRuns; timer: the next try is not due, finalizeSubagentCleanup has set its
\* timer; retimer: resumeSubagentRun has set one; begun: within a step, that it
\* begins to announce.
Nothing == [agent |-> "over", waiting |-> FALSE, completing |-> FALSE,
            resumed |-> FALSE, timer |-> FALSE, retimer |-> FALSE, begun |-> FALSE]

Forgotten == [e |-> NoEntry, m |-> Nothing]

NoFlow == [at |-> "none", wake |-> FALSE, asks |-> 0]

Init ==
    /\ reg = [s \in Sessions |-> Forgotten]
    /\ disk = [s \in Sessions |-> NoEntry]
    /\ stored = {}
    /\ flow = [s \in Sessions |-> [n \in Numbers |-> NoFlow]]
    /\ fresh = Sessions
    /\ steering = {}
    /\ up = TRUE
    /\ troubles = 0
    /\ announced = [s \in Sessions |-> [n \in Numbers |-> 0]]
    /\ waived = {}

Known(s) == reg[s].e.known
IsRun(s, n) == Known(s) /\ reg[s].e.no = n

\* A session that messages still reach.
Reachable(s) == s \in {Main} \cup stored \cup {d \in Sessions : Known(d)}

\* countPendingDescendantRuns
PendingBelow(s) ==
    LET Under[d \in Sessions] ==
            Known(d) /\ (Parent[d] = s \/ (Parent[d] \in Sessions /\ Under[Parent[d]]))
    IN \E d \in Sessions : Under[d] /\ ~(reg[d].e.ended /\ reg[d].e.completed)

-----------------------------------------------------------------------------
(* Parts of the operations, on the record and memory r of one session *)

BeginsFaulty(r) == r.e.known /\ ~r.e.completed

\* beginSubagentCleanup
Begins(r) == r.e.known /\ ~r.e.completed /\ ~r.e.handled

\* startSubagentAnnounceCleanupFlow
Started(r) == IF Begins(r) THEN [r EXCEPT !.e.handled = TRUE, !.m.begun = TRUE] ELSE r

\* suppressAnnounceForSteerRestart
Steered(r) == r.e.suppress = "steer-restart"

\* What still waits for the run and its timers find nothing to do any more.
Completed(r) ==
    [e |-> [r.e EXCEPT !.completed = TRUE, !.wake = FALSE],
     m |-> [Nothing EXCEPT !.agent = r.m.agent]]

\* resumeSubagentRun: prune an orphan, give up, wait for the backoff to end,
\* announce, or wait for the run again.
Resumed(s, r) ==
    IF r.m.resumed \/ ~r.e.known           THEN r
    ELSE IF s \notin stored                THEN Forgotten
    ELSE IF r.e.completed                  THEN r
    ELSE IF r.e.retries >= MaxRetries      THEN Completed(r)
    ELSE IF r.m.timer                      THEN [r EXCEPT !.m.retimer = TRUE, !.m.resumed = TRUE]
    ELSE IF ~r.e.ended                     THEN [r EXCEPT !.m.waiting = TRUE, !.m.resumed = TRUE]
    ELSE IF Begins(r) /\ ~Steered(r)       THEN [Started(r) EXCEPT !.m.resumed = TRUE]
    ELSE [r EXCEPT !.m.resumed = Steered(r)]

\* retryDeferredCompletedAnnounces
Retried(s, r) ==
    IF r.e.known /\ r.e.ended /\ ~r.e.completed /\ ~r.e.handled /\ ~Steered(r)
    THEN Resumed(s, [r EXCEPT !.m.resumed = FALSE])
    ELSE r

\* The record of a run that was just started in a session, as it is registered.
Running(no, woken) ==
    [e |-> [NoEntry EXCEPT !.known = TRUE, !.no = no, !.woken = woken],
     m |-> [Nothing EXCEPT !.agent = "running", !.waiting = TRUE]]

\* The registry becomes new; flows are the announcements under way, and what has
\* begun to announce joins them.
Becomes(new, flows) ==
    /\ reg' = [s \in Sessions |-> [new[s] EXCEPT !.m.begun = FALSE]]
    /\ flow' = [s \in Sessions |->
                  IF new[s].m.begun
                  THEN [flows[s] EXCEPT ![new[s].e.no] =
                           [at |-> "checking", wake |-> new[s].e.wake /\ ~new[s].e.woken,
                            asks |-> 0]]
                  ELSE flows[s]]

BecomesHere(s, r) == Becomes([reg EXCEPT ![s] = r], flow)

\* persistSubagentRuns writes all the records there are.
Persist == disk' = [s \in Sessions |-> reg'[s].e]

PersistChanges == IF \E s \in Sessions : reg'[s].e # reg[s].e THEN Persist ELSE UNCHANGED disk

world == <<stored, fresh, steering, up, troubles>>
calm == <<stored, fresh, steering, up>>
history == <<announced, waived>>

Trouble == troubles < MaxTroubles /\ troubles' = troubles + 1

-----------------------------------------------------------------------------
(* Runs and their ends *)

\* registerSubagentRun, once the agent was started in a new session.
Register(s) ==
    /\ up /\ s \in fresh
    /\ Parent[s] # Main => reg[Parent[s]].m.agent = "running"
    /\ BecomesHere(s, Running(0, FALSE))
    /\ Persist
    /\ stored' = stored \cup {s} /\ fresh' = fresh \ {s}
    /\ UNCHANGED <<steering, up, troubles, history>>

LateFaulty(r, reason) == reason = "complete" /\ (r.e.handled \/ r.e.completed)

\* What was killed completes after all: its announcement may run.
Late(r, reason) ==
    /\ reason = "complete" /\ r.e.suppress = "killed"
    /\ r.e.handled \/ r.e.completed

\* completeSubagentRun up to its wait for the reply.
Completing(r, reason) ==
    LET e == IF Late(r, reason)
             THEN [r.e EXCEPT !.suppress = "none", !.handled = FALSE, !.completed = FALSE]
             ELSE r.e
    IN [e |-> [e EXCEPT !.ended = TRUE, !.ok = reason = "complete",
                        !.expired = @ /\ e.completed],
        m |-> [r.m EXCEPT !.agent = IF @ = "failed" THEN "over" ELSE @, !.completing = TRUE]]

\* The rest of it.
CompletionGoesOn(s) ==
    /\ up /\ Known(s) /\ reg[s].m.completing
    /\ LET r == [reg[s] EXCEPT !.m.completing = FALSE]
       IN BecomesHere(s, IF Steered(r) THEN r ELSE Started(r))
    /\ Persist
    /\ UNCHANGED <<world, history>>

\* The events of a run.  Nothing is saved before the completion goes on.
LifecycleEnd(s) ==
    /\ up /\ Known(s) /\ reg[s].m.agent = "running"
    /\ BecomesHere(s, Completing([reg[s] EXCEPT !.m.agent = "over"], "complete"))
    /\ UNCHANGED <<disk, world, history>>

LifecycleError(s) ==
    /\ up /\ Trouble /\ Known(s) /\ reg[s].m.agent = "running"
    /\ BecomesHere(s, [reg[s] EXCEPT !.m.agent = "failed"])
    /\ UNCHANGED <<disk, calm, history>>

\* A failed run is tried again.
LifecycleStart(s) ==
    /\ up /\ Known(s) /\ reg[s].m.agent = "failed"
    /\ BecomesHere(s, [reg[s] EXCEPT !.m.agent = "running"])
    /\ Persist
    /\ UNCHANGED <<world, history>>

\* The timer of schedulePendingLifecycleError.  The run may have started again late.
GraceOver(s) ==
    /\ up /\ Known(s) /\ reg[s].m.agent = "failed"
    /\ \E agent \in {"running", "over"} :
          LET r == [reg[s] EXCEPT !.m.agent = agent]
          IN BecomesHere(s, IF r.e.ok THEN r ELSE Completing(r, "error"))
    /\ UNCHANGED <<disk, world, history>>

\* waitForSubagentCompletion gets its answer, a timeout while the run goes on
\* included, and saves the end that it completes then.
WaitReturns(s, reason) ==
    /\ up /\ Known(s) /\ reg[s].m.waiting
    /\ reason = "error" => reg[s].m.agent # "running"
    /\ BecomesHere(s, Completing([reg[s] EXCEPT !.m.waiting = FALSE], reason))
    /\ disk' = [t \in Sessions |->
                  IF t = s THEN [reg[s].e EXCEPT !.ended = TRUE] ELSE reg[t].e]
    /\ UNCHANGED <<world, history>>

WaitFails(s) ==
    /\ up /\ Trouble /\ Known(s) /\ reg[s].m.waiting
    /\ BecomesHere(s, [reg[s] EXCEPT !.m.waiting = FALSE])
    /\ UNCHANGED <<disk, calm, history>>

-----------------------------------------------------------------------------
(* Announcements: runSubagentAnnounceFlow and finalizeSubagentCleanup *)

\* A stop of the gateway leaves none.
Flowing(s, n, at) == flow[s][n].at = at

FlowGoes(s, n, at) == flow' = [flow EXCEPT ![s][n] = [NoFlow EXCEPT !.at = at]]

\* shouldIgnorePostCompletionAnnounceForSession
Finished(s) == s \in Sessions /\ Known(s) /\ reg[s].e.ended /\ reg[s].e.completed

\* The session is deleted at the end, unless that fails.
SessionGoes(s) == stored' = stored \/ (s \in Deletes /\ stored' = stored \ {s})

\* Nobody is to be told: who asked has finished, or the reply is a silent one.
Waive(s, n) ==
    /\ FlowGoes(s, n, "done")
    /\ waived' = waived \cup {<<s, n>>}
    /\ SessionGoes(s)
    /\ UNCHANGED <<reg, disk, fresh, steering, up, troubles, announced>>

HasChildren(s) == \E d \in Sessions : Known(d) /\ Parent[d] = s

\* The announcement waits for the agent and for the runs below; a run that was
\* put off for those is woken with what they found.
Check(s, n) ==
    /\ Flowing(s, n, "checking")
    /\ IF Finished(Parent[s]) /\ reg[s].m.agent # "running" THEN Waive(s, n)
       ELSE /\ FlowGoes(s, n, IF reg[s].m.agent = "running" \/ PendingBelow(s) THEN "failed"
                              ELSE IF flow[s][n].wake /\ HasChildren(s) THEN "waking"
                              ELSE "delivering")
            /\ UNCHANGED <<reg, disk, world, history>>

\* wakeSubagentRunAfterDescendants: another run takes the place of this one.
\* Bound: none that a steer begun before a kill is restarting, too.
Wake(s, n) ==
    /\ Flowing(s, n, "waking") /\ IsRun(s, n) /\ s \in stored /\ n < MaxRuns
    /\ \A r \in Numbers : <<s, r>> \notin steering
    /\ Becomes([reg EXCEPT ![s] = Running(n + 1, TRUE)], [flow EXCEPT ![s][n] = NoFlow])
    /\ Persist
    /\ UNCHANGED <<world, history>>

WakeFails(s, n) ==
    /\ Flowing(s, n, "waking")
    /\ FlowGoes(s, n, "delivering")
    /\ UNCHANGED <<reg, disk, world, history>>

\* Decided before the first call.
Silent(s, n) ==
    /\ Flowing(s, n, "delivering") /\ flow[s][n].asks = 0
    /\ Waive(s, n)

\* sendSubagentAnnounceDirectly calls the agent of who asked and awaits the end of its
\* run.  While the gateway remembers the idempotency key, another call for the same
\* run starts no other; it forgets.
Ask(s, n) ==
    /\ Flowing(s, n, "delivering") /\ flow[s][n].asks < MaxAsks /\ Reachable(Parent[s])
    /\ flow' = [flow EXCEPT ![s][n].at = "asked", ![s][n].asks = @ + 1]
    /\ announced' = [announced EXCEPT ![s][n] = @ + 1]
    /\ UNCHANGED <<reg, disk, world, waived>>

Deliver(s, n) ==
    /\ Flowing(s, n, "asked")
    /\ FlowGoes(s, n, "done")
    /\ SessionGoes(s)
    /\ UNCHANGED <<reg, disk, fresh, steering, up, troubles, history>>

\* "gateway timeout", a lost connection or an error, after the run was started:
\* runAnnounceDeliveryWithRetry calls again if that may pass.
Unanswered(s, n) ==
    /\ Flowing(s, n, "asked")
    /\ flow' = [flow EXCEPT ![s][n].at = "delivering"]
    /\ announced' = [announced EXCEPT ![s][n] = @ - 1]
    /\ UNCHANGED <<reg, disk, world, waived>>

\* When the calls have failed, a run of who asked is steered, or the announce queue
\* takes the result over.
FallBack(s, n) ==
    /\ Flowing(s, n, "delivering") /\ Reachable(Parent[s])
    /\ FlowGoes(s, n, "done")
    /\ announced' = [announced EXCEPT ![s][n] = @ + 1]
    /\ SessionGoes(s)
    /\ UNCHANGED <<reg, disk, fresh, steering, up, troubles, waived>>

DeliveryFails(s, n) ==
    /\ Flowing(s, n, "delivering")
    /\ FlowGoes(s, n, "failed")
    /\ SessionGoes(s)
    /\ UNCHANGED <<reg, disk, fresh, steering, up, troubles, history>>

\* completeCleanupBookkeeping: the record of s becomes r, and what waits for it
\* is tried again.
Closes(s, n, r) ==
    /\ Becomes([t \in Sessions |-> IF t = s THEN r ELSE Retried(t, reg[t])],
               [flow EXCEPT ![s][n] = NoFlow])
    /\ Persist
    /\ UNCHANGED <<world, history>>

Done(s, n) ==
    /\ Flowing(s, n, "done") /\ IsRun(s, n)
    /\ Closes(s, n, IF s \in Deletes THEN Forgotten ELSE Completed(reg[s]))

\* resolveDeferredCleanupDecision: put off while runs below are pending, else
\* count the try; give up once expired or tried often enough.
Tried(r, pending) == IF pending THEN r ELSE [r EXCEPT !.e.retries = @ + 1]

GivesUpFaulty(r, pending) == r.e.expired \/ r.e.retries + 1 >= MaxRetries

GivesUp(r, pending) == r.e.expired \/ (~pending /\ r.e.retries + 1 >= MaxRetries)

GiveUp(s, n) ==
    /\ Flowing(s, n, "failed") /\ IsRun(s, n)
    /\ GivesUp(reg[s], PendingBelow(s))
    /\ Closes(s, n, Completed(Tried(reg[s], PendingBelow(s))))

LaterFaulty(r, pending) ==
    [Tried(r, pending) EXCEPT !.e.wake = @ \/ pending, !.e.handled = FALSE, !.m.timer = TRUE]

\* The cleanup is given back, and its timer may resume it again.
Later(r, pending) ==
    [Tried(r, pending) EXCEPT !.e.wake = @ \/ pending, !.e.handled = FALSE, !.m.timer = TRUE,
                              !.m.resumed = FALSE]

TryLater(s, n) ==
    LET pending == PendingBelow(s) IN
    /\ Flowing(s, n, "failed") /\ IsRun(s, n)
    /\ ~GivesUp(reg[s], pending)
    /\ Becomes([reg EXCEPT ![s] = Later(@, pending)], [flow EXCEPT ![s][n] = NoFlow])
    /\ Persist
    /\ UNCHANGED <<world, history>>

\* The record was removed or replaced meanwhile.
Pointless(s, n) ==
    /\ Flowing(s, n, "done") \/ Flowing(s, n, "failed")
    /\ ~IsRun(s, n)
    /\ flow' = [flow EXCEPT ![s][n] = NoFlow]
    /\ UNCHANGED <<reg, disk, world, history>>

Announcement(s, n) ==
    \/ Check(s, n) \/ WakeFails(s, n) \/ Silent(s, n) \/ Ask(s, n) \/ Deliver(s, n)
    \/ Unanswered(s, n) \/ FallBack(s, n) \/ DeliveryFails(s, n)
    \/ Done(s, n) \/ GiveUp(s, n) \/ TryLater(s, n) \/ Pointless(s, n)

\* The timer set by finalizeSubagentCleanup.
TimerFires(s) ==
    /\ up /\ reg[s].m.timer
    /\ BecomesHere(s, Resumed(s, [reg[s] EXCEPT !.m.timer = FALSE]))
    /\ PersistChanges
    /\ UNCHANGED <<world, history>>

\* The one set by resumeSubagentRun, which is due later.
RetimerFires(s) ==
    /\ up /\ reg[s].m.retimer /\ ~reg[s].m.timer
    /\ BecomesHere(s, Resumed(s, [reg[s] EXCEPT !.m.retimer = FALSE, !.m.resumed = FALSE]))
    /\ PersistChanges
    /\ UNCHANGED <<world, history>>

\* ANNOUNCE_COMPLETION_HARD_EXPIRY_MS have passed since the end of a run that was
\* put off; the tries of others end long before.
Expire(s) ==
    /\ up /\ Known(s) /\ reg[s].e.ended /\ reg[s].e.wake /\ ~reg[s].e.expired
    /\ BecomesHere(s, [reg[s] EXCEPT !.e.expired = TRUE])
    /\ disk' = [disk EXCEPT ![s].expired = disk[s].ended]
    /\ UNCHANGED <<world, history>>

-----------------------------------------------------------------------------
(* Kills, steers, archiving and restarts *)

\* markSubagentRunTerminated; the run may still end by itself.
Kill(s) ==
    /\ up /\ Trouble /\ Known(s) /\ ~reg[s].e.ended
    /\ BecomesHere(s, [reg[s] EXCEPT !.e.ended = TRUE, !.e.ok = FALSE,
                      !.e.handled = TRUE, !.e.completed = TRUE, !.e.suppress = "killed",
                      !.m.agent = IF @ = "failed" THEN "over" ELSE @])
    /\ Persist
    /\ UNCHANGED <<calm, history>>

\* markSubagentRunForSteerRestart, before the run is aborted.
SteerMarks(s) ==
    LET n == reg[s].e.no IN
    /\ up /\ Trouble /\ Known(s) /\ ~reg[s].e.ended /\ n < MaxRuns /\ <<s, n>> \notin steering
    /\ BecomesHere(s, [reg[s] EXCEPT !.e.suppress = "steer-restart"])
    /\ Persist
    /\ steering' = steering \cup {<<s, n>>}
    /\ UNCHANGED <<stored, fresh, up, history>>

\* replaceSubagentRunAfterSteer: also when the record is gone meanwhile.
SteerSucceeds(s, n) ==
    /\ up /\ <<s, n>> \in steering
    /\ BecomesHere(s, Running(n + 1, FALSE))
    /\ Persist
    /\ steering' = steering \ {<<s, n>>}
    /\ stored' = stored \cup {s}
    /\ UNCHANGED <<fresh, up, troubles, history>>

\* clearSubagentRunSteerRestart: a run that ended meanwhile is announced.
SteerFails(s, n) ==
    LET r == [reg[s] EXCEPT !.e.suppress = "none", !.m.resumed = FALSE]
        again == IF r.e.ended /\ ~r.e.completed THEN Resumed(s, r) ELSE r
    IN /\ up /\ <<s, n>> \in steering
       /\ BecomesHere(s, IF IsRun(s, n) /\ Steered(reg[s]) THEN again ELSE reg[s])
       /\ PersistChanges
       /\ steering' = steering \ {<<s, n>>}
       /\ UNCHANGED <<stored, fresh, up, troubles, history>>

\* sweepSubagentRuns, once the run is to be archived; it saves only
\* when it has deleted all such sessions.
Sweep(s) ==
    /\ up /\ Trouble /\ Known(s)
    /\ BecomesHere(s, Forgotten)
    /\ Persist \/ UNCHANGED disk
    /\ stored' = stored \ {s}
    /\ UNCHANGED <<fresh, steering, up, history>>

\* The gateway stops, whatever it is doing: the records on disk are left.
Crash ==
    /\ up /\ Trouble
    /\ up' = FALSE
    /\ reg' = [s \in Sessions |-> [e |-> disk[s], m |-> Nothing]]
    /\ flow' = [s \in Sessions |-> [n \in Numbers |-> NoFlow]]
    /\ steering' = {}
    /\ UNCHANGED <<disk, stored, fresh, history>>

\* restoreSubagentRunsOnce prunes the orphans and resumes the others.
Restart ==
    /\ ~up /\ up' = TRUE
    /\ Becomes([s \in Sessions |-> Resumed(s, reg[s])], flow)
    /\ PersistChanges
    /\ UNCHANGED <<stored, fresh, steering, troubles, history>>

-----------------------------------------------------------------------------

Timers(s) == TimerFires(s) \/ RetimerFires(s) \/ GraceOver(s) \/ Expire(s)

Next ==
    \/ \E s \in Sessions :
        \/ Register(s) \/ CompletionGoesOn(s) \/ LifecycleEnd(s) \/ LifecycleError(s)
        \/ LifecycleStart(s) \/ WaitFails(s) \/ Timers(s) \/ Kill(s) \/ SteerMarks(s) \/ Sweep(s)
        \/ \E reason \in {"complete", "error"} : WaitReturns(s, reason)
        \/ \E n \in Numbers : Announcement(s, n) \/ Wake(s, n)
                            \/ SteerSucceeds(s, n) \/ SteerFails(s, n)
    \/ Crash \/ Restart

Spec == Init /\ [][Next]_vars

\* What the gateway has begun goes on, and its timers fire.  Nothing is asked of
\* the runs, nor that the gateway comes back.
Fairness ==
    \A s \in Sessions :
        /\ WF_vars(CompletionGoesOn(s))
        /\ WF_vars(TimerFires(s) \/ RetimerFires(s)) /\ WF_vars(Expire(s))
        /\ WF_vars(\E n \in Numbers : flow[s][n] # NoFlow /\ Announcement(s, n))
        /\ WF_vars(\E n \in Numbers : SteerSucceeds(s, n) \/ SteerFails(s, n))

FairSpec == Spec /\ Fairness
=============================================================================
