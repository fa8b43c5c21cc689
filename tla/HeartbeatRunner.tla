--------------------------- MODULE HeartbeatRunner ---------------------------
(***************************************************************************)
(* The heartbeat runner (startHeartbeatRunner of                           *)
(* src/infra/heartbeat-runner.ts) on top of the wake layer: it keeps when  *)
(* each agent's next heartbeat is due, sets an alarm for the earliest one, *)
(* which requests a wake for everyone, and is the handler that wakes call. *)
(* A call walks over the agents; it awaits only runHeartbeatOnce, and is   *)
(* at rest only while one of those runs.  What it does between two awaits  *)
(* that are answered at once happens before any timer or request           *)
(* (microtasks): those steps wait until no call is at a step.              *)
(*                                                                         *)
(* A runner's agents and their interval stay the same here; a reload of    *)
(* the configuration makes new objects for them.                           *)
(***************************************************************************)
EXTENDS HeartbeatWake

CONSTANTS
    Agents,    \* agents with a heartbeat
    Everyone,  \* the target of wakes that name neither agent nor session
    Interval   \* their heartbeat interval, in ticks

\* REASON_PRIORITY.INTERVAL, counted from 1.
IntervalPriority == 2

ASSUME HeartbeatRunnerAssumption ==
    /\ Targets = Agents \cup {Everyone} /\ Everyone \notin Agents
    /\ Agents # {} /\ IsFiniteSet(Agents)
    /\ IntervalPriority \in Priorities
    /\ Interval \in Nat \ {0}

VARIABLES
    agents,    \* per runner and agent: ticks until it is due; whether it ran
    alarm,     \* per runner: ticks left of its timer, or Off
    stopped,   \* runners that were stopped
    enabled,   \* heartbeatsEnabled
    walk,      \* what the call of each run is doing
    quiet,     \* history: ticks before an agent's next interval heartbeat is no repetition
    lapsed,    \* history: runners that skipped a call as heartbeats were disabled,
               \* and have not set their alarm since
    overlapped \* history: runners that had two calls under way at once

runnerVars == <<agents, alarm, stopped, enabled, walk, quiet, lapsed, overlapped>>
vars == <<wakeVars, runnerVars>>

Off == Interval + 1

Monus(n) == IF n > 0 THEN n - 1 ELSE 0

NoWalk == [by |-> NoHandler, at |-> "idle", todo |-> <<>>, due |-> {}, age |-> 0,
           stale |-> FALSE]

Init ==
    /\ WakeInit
    /\ agents = [h \in Handlers |-> [a \in Agents |-> [left |-> Interval, ran |-> FALSE]]]
    /\ alarm = [h \in Handlers |-> Off]
    /\ stopped = {}
    /\ enabled = TRUE
    /\ walk = [r \in Runs |-> NoWalk]
    /\ quiet = [h \in Handlers |-> [a \in Agents |-> 0]]
    /\ lapsed = {}
    /\ overlapped = {}

\* No call has a microtask to do.
Settled == \A r \in Runs : walk[r].at \in {"idle", "agent"}

\* scheduleNext of a runner whose agents are now as.
ScheduleNext(h, as) ==
    IF h \in stopped THEN UNCHANGED <<alarm, lapsed>>
    ELSE /\ alarm' = [alarm EXCEPT ![h] = Min({as[h][a].left : a \in Agents})]
         /\ lapsed' = lapsed \ {h}

-----------------------------------------------------------------------------
(* Timers, the configuration, and those who request wakes. *)

Tick ==
    /\ Settled
    /\ timer' = [timer EXCEPT !.left = Monus(@)]
    /\ alarm' = [h \in Handlers |-> IF alarm[h] = Off THEN Off ELSE Monus(alarm[h])]
    /\ agents' = [h \in Handlers |-> IF h \in registered \ stopped
                    THEN [a \in Agents |-> [agents[h][a] EXCEPT !.left = Monus(@)]]
                    ELSE agents[h]]
    /\ walk' = [r \in Runs |-> IF walk[r].at = "agent" /\ walk[r].age < Interval
                               THEN [walk[r] EXCEPT !.age = @ + 1] ELSE walk[r]]
    /\ quiet' = [h \in Handlers |-> [a \in Agents |-> Monus(quiet[h][a])]]
    /\ UNCHANGED <<handler, registered, pending, scheduled, running, runs, owed,
                   stopped, enabled, lapsed, overlapped>>

\* startHeartbeatRunner
StartRunner(h) ==
    /\ Settled
    /\ SetHandler(h)
    /\ ScheduleNext(h, agents)
    /\ UNCHANGED <<agents, stopped, enabled, walk, quiet, overlapped>>

\* cleanup
StopRunner(h) ==
    /\ Settled
    /\ h \notin stopped
    /\ Dispose(h)
    /\ stopped' = stopped \cup {h}
    /\ alarm' = [alarm EXCEPT ![h] = Off]
    /\ agents' = [agents EXCEPT ![h] = [a \in Agents |-> [left |-> Interval, ran |-> FALSE]]]
    /\ quiet' = [quiet EXCEPT ![h] = [a \in Agents |-> 0]]
    /\ lapsed' = lapsed \ {h}
    /\ UNCHANGED <<enabled, walk, overlapped>>

\* The runner's timer fires.
AlarmRings(h) ==
    /\ Settled
    /\ alarm[h] = 0
    /\ alarm' = [alarm EXCEPT ![h] = Off]
    /\ Request(Everyone, IntervalPriority, 0)
    /\ UNCHANGED <<agents, stopped, enabled, walk, quiet, lapsed, overlapped>>

\* Hooks, cron jobs, commands that have finished: anything but the interval.
OthersRequest(t, p) ==
    /\ Settled
    /\ Request(t, p, CoalesceMs)
    /\ UNCHANGED runnerVars

\* set-heartbeats
SetHeartbeatsEnabled ==
    /\ Settled
    /\ enabled' = ~enabled
    /\ UNCHANGED <<wakeVars, agents, alarm, stopped, walk, quiet, lapsed, overlapped>>

\* resolveNextDue: as before, unless an agent that never ran is due now.
ResolveNextDue(agent) ==
    IF agent.ran \/ agent.left > 0 THEN agent ELSE [agent EXCEPT !.left = Interval]

\* updateConfig: the calls under way keep the old objects.
UpdateConfig(h) ==
    LET as == [agents EXCEPT ![h] = [a \in Agents |-> ResolveNextDue(@[a])]]
    IN /\ Settled
       /\ h \in registered \ stopped
       /\ agents' = as
       /\ walk' = [r \in Runs |-> IF walk[r].by = h THEN [walk[r] EXCEPT !.stale = TRUE]
                                  ELSE walk[r]]
       /\ quiet' = IF walk' = walk THEN quiet
                   ELSE [quiet EXCEPT ![h] = [a \in Agents |-> 0]]
       /\ ScheduleNext(h, as)
       /\ UNCHANGED <<wakeVars, stopped, enabled, overlapped>>

-----------------------------------------------------------------------------
(* The wake layer's timer, and calls of the handler. *)

\* Runners with two calls under way, of the walks w.
TwiceCalled(w) ==
    {h \in Handlers : \E r, s \in Runs : r # s /\ w[r].by = h /\ w[s].by = h}

\* The walks after a step of the wake layer: the handler is called for a run's
\* new wake.
WalksFollow ==
    /\ walk' = [r \in Runs |->
                  IF runs'[r] = runs[r] THEN walk[r]
                  ELSE IF runs'[r].batch = <<>> THEN NoWalk
                  ELSE [NoWalk EXCEPT !.at = "begin",
                                      !.by = IF Active(r) THEN walk[r].by ELSE handler]]
    /\ overlapped' = overlapped \cup TwiceCalled(walk')

WakeTimerFires ==
    /\ Settled
    /\ TimerFiresIdle \/ TimerFiresWhileRunning \/ TimerFires
    /\ WalksFollow
    /\ UNCHANGED <<agents, alarm, stopped, enabled, quiet, lapsed>>

\* A runner that was stopped, or paused, skips the call.
SkipCall(r) ==
    /\ walk[r].at = "begin"
    /\ walk[r].by \in stopped \/ ~enabled
    /\ HandlerDone(r)
    /\ WalksFollow
    /\ lapsed' = lapsed \cup ({walk[r].by} \ stopped)
    /\ UNCHANGED <<agents, alarm, stopped, enabled, quiet>>

IsInterval(r) ==
    LET wake == Head(runs[r].batch)
    IN wake.target = Everyone /\ wake.priority = IntervalPriority

\* A call begins: for one agent, or for all, of which an interval concerns those
\* that are due by now.
BeginCall(r) ==
    LET t == Head(runs[r].batch).target
    IN /\ walk[r].at = "begin"
       /\ walk[r].by \notin stopped /\ enabled
       /\ walk' = [walk EXCEPT
              ![r].at = "next",
              ![r].todo = IF t = Everyone THEN SetToSeq(Agents) ELSE <<t>>,
              ![r].due = {a \in Agents : IsInterval(r) => agents[walk[r].by][a].left = 0}]
       /\ UNCHANGED <<wakeVars, agents, alarm, stopped, enabled, quiet, lapsed, overlapped>>

\* The call works on the objects its runner has now.
Fresh(r) == ~walk[r].stale /\ walk[r].by \notin stopped

\* advanceAgentSchedule, with the time the call began; on an object that a
\* reload has replaced it is in vain.
Advanced(r, a) ==
    IF Fresh(r)
    THEN [agents EXCEPT ![walk[r].by][a] = [left |-> Interval - walk[r].age, ran |-> TRUE]]
    ELSE agents

NextAgent(r) == walk' = [walk EXCEPT ![r].at = "next", ![r].todo = Tail(@)]

AtAgent(r, a) == walk[r].at = "next" /\ walk[r].todo # <<>> /\ Head(walk[r].todo) = a

DueForFaulty(r, a) == TRUE

\* The agent is due: it was when the call began, and no other run has dealt with
\* it since.
DueFor(r, a) ==
    /\ a \in walk[r].due
    /\ IsInterval(r) /\ Fresh(r) => agents[walk[r].by][a].left = 0

PassOver(r, a) ==
    /\ AtAgent(r, a) /\ ~DueFor(r, a)
    /\ NextAgent(r)
    /\ UNCHANGED <<wakeVars, agents, alarm, stopped, enabled, quiet, lapsed, overlapped>>

\* runHeartbeatOnce finds heartbeats disabled, and the next agent is tried, or
\* it is outside the agent's active hours.
HeartbeatSkipped(r, a) ==
    /\ AtAgent(r, a) /\ DueFor(r, a)
    /\ agents' = IF enabled THEN Advanced(r, a) ELSE agents
    /\ NextAgent(r)
    /\ UNCHANGED <<wakeVars, alarm, stopped, enabled, quiet, lapsed, overlapped>>

\* It finds the main lane busy: the call is over.  A call for one agent
\* advances its schedule nevertheless.
HeartbeatBusy(r, a) ==
    LET as == Advanced(r, a)
    IN /\ AtAgent(r, a) /\ DueFor(r, a) /\ enabled
       /\ IF Head(runs[r].batch).target = Everyone
          THEN UNCHANGED <<agents, alarm, lapsed>>
          ELSE agents' = as /\ ScheduleNext(walk[r].by, as)
       /\ HandlerBusy(r)
       /\ WalksFollow
       /\ UNCHANGED <<stopped, enabled, quiet>>

\* It gets to work ...
HeartbeatBegins(r, a) ==
    /\ AtAgent(r, a) /\ DueFor(r, a) /\ enabled
    /\ walk' = [walk EXCEPT ![r].at = "agent"]
    /\ quiet' = IF IsInterval(r) /\ Fresh(r)
                THEN [quiet EXCEPT ![walk[r].by][a] = Interval - walk[r].age] ELSE quiet
    /\ UNCHANGED <<wakeVars, agents, alarm, stopped, enabled, lapsed, overlapped>>

\* ... and has run the heartbeat, or failed.
HeartbeatEnds(r, a) ==
    /\ walk[r].at = "agent" /\ Head(walk[r].todo) = a
    /\ Settled
    /\ agents' = Advanced(r, a)
    /\ NextAgent(r)
    /\ UNCHANGED <<wakeVars, alarm, stopped, enabled, quiet, lapsed, overlapped>>

EndCall(r) ==
    /\ walk[r].at = "next" /\ walk[r].todo = <<>>
    /\ ScheduleNext(walk[r].by, agents)
    /\ HandlerDone(r)
    /\ WalksFollow
    /\ UNCHANGED <<agents, stopped, enabled, quiet>>

-----------------------------------------------------------------------------
CallStep(r) ==
    \/ SkipCall(r) \/ BeginCall(r) \/ EndCall(r)
    \/ \E a \in Agents :
         \/ PassOver(r, a) \/ HeartbeatSkipped(r, a) \/ HeartbeatBusy(r, a)
         \/ HeartbeatBegins(r, a) \/ HeartbeatEnds(r, a)

Next ==
    \/ Tick \/ WakeTimerFires \/ SetHeartbeatsEnabled
    \/ \E h \in Handlers : StartRunner(h) \/ StopRunner(h) \/ AlarmRings(h) \/ UpdateConfig(h)
    \/ \E t \in Targets, p \in Priorities \ {IntervalPriority} : OthersRequest(t, p)
    \/ \E r \in Runs : CallStep(r)

Spec == Init /\ [][Next]_vars

\* Timers fire (between microtasks, so that they are due again and again until
\* they do), heartbeats end, and the main lane is free at some retry of a wake.
Fairness ==
    /\ SF_vars(Tick) /\ SF_vars(WakeTimerFires)
    /\ \A h \in Handlers : SF_vars(AlarmRings(h))
    /\ \A r \in Runs : WF_vars(CallStep(r))
    /\ \A r \in Runs, a \in Agents, t \in Targets :
         SF_vars(HeartbeatBegins(r, a) /\ Head(runs[r].batch).target = t)

FairSpec == Spec /\ Fairness
=============================================================================
