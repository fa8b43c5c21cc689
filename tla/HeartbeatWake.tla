---------------------------- MODULE HeartbeatWake ----------------------------
(***************************************************************************)
(* The wake layer of heartbeats (src/infra/heartbeat-wake.ts): anything    *)
(* may request a heartbeat for a target; requests are coalesced per target *)
(* and behind one timer, which calls the registered handler for each       *)
(* pending wake in turn.  The handler may find the main lane busy, or      *)
(* throw: such wakes are queued again behind a cooldown.  A restart within *)
(* the process registers a new handler while runs of the old one may still *)
(* be under way.                                                           *)
(*                                                                         *)
(* Time is counted in ticks, of which a timer has so many left; a timer    *)
(* that is due may fire late.  An action runs up to its next await: a run  *)
(* is suspended only while it awaits the handler's answer for one wake.    *)
(***************************************************************************)
EXTENDS Naturals, FiniteSets, SequencesExt

CONSTANTS
    Targets,    \* keys of pendingWakes: an agent, a session, or everyone
    Handlers,   \* the handlers there will be, one per start of a heartbeat runner
    NoHandler,
    Runs,       \* bound: runs of the timer's callback that may be under way at once
    Priorities, \* those of the reasons requested: REASON_PRIORITY, counted from 1
    CoalesceMs, \* DEFAULT_COALESCE_MS, in ticks
    RetryMs     \* DEFAULT_RETRY_MS, in ticks

ASSUME HeartbeatWakeAssumption ==
    /\ NoHandler \notin Handlers /\ IsFiniteSet(Targets)
    /\ Priorities \subseteq 1..4
    /\ CoalesceMs \in Nat /\ RetryMs \in Nat
    /\ CoalesceMs < RetryMs

VARIABLES
    handler,    \* the registered handler
    registered, \* the handlers registered so far
    pending,    \* pendingWakes: the priority of each target's wake, or 0
    timer,      \* timer, timerDueAt (as ticks left), timerKind and its delay
    scheduled,
    running,
    runs,       \* the callbacks under way
    owed        \* history: the highest priority requested for each target
                \* that no call of a handler has answered for since, or 0

wakeVars == <<handler, registered, pending, timer, scheduled, running, runs, owed>>

NoTimer == [kind |-> "none", left |-> 0, delay |-> 0]

\* A run is working on the head of its batch; the batch's former part is done.
NoRun == [batch |-> <<>>, former |-> <<>>, delay |-> 0]

Active(r) == runs[r].batch # <<>>

WakeInit ==
    /\ handler = NoHandler
    /\ registered = {}
    /\ pending = [t \in Targets |-> 0]
    /\ timer = NoTimer
    /\ scheduled = FALSE
    /\ running = FALSE
    /\ runs = [r \in Runs |-> NoRun]
    /\ owed = [t \in Targets |-> 0]

-----------------------------------------------------------------------------
PrioritiesOf(t, wakes) == {w.priority : w \in {v \in wakes : v.target = t}}

QueuedFaulty(p, wakes) ==
    [t \in DOMAIN p |-> IF PrioritiesOf(t, wakes) = {} THEN p[t] ELSE Max(PrioritiesOf(t, wakes))]

\* queuePendingWakeReason for each of the wakes: of two wakes of a target the one of
\* higher priority stays, the newer one of equals.
Queued(p, wakes) == [t \in DOMAIN p |-> Max({p[t]} \cup PrioritiesOf(t, wakes))]

\* Whether a new schedule replaces timer tm: a retry cooldown stands.
Preempts(tm, delay) == tm.kind = "normal" /\ tm.left > delay

\* schedule(delay, kind) when the timer is tm.
Scheduled(tm, delay, kind) ==
    IF tm.kind = "none" \/ Preempts(tm, delay)
    THEN [kind |-> kind, left |-> delay, delay |-> delay] ELSE tm

\* requestHeartbeatNow
Request(t, priority, coalesce) ==
    /\ pending' = Queued(pending, {[target |-> t, priority |-> priority]})
    /\ timer' = Scheduled(timer, coalesce, "normal")
    /\ owed' = [owed EXCEPT ![t] = IF priority > @ THEN priority ELSE @]
    /\ UNCHANGED <<handler, registered, scheduled, running, runs>>

RearmedFaulty == NoTimer

\* The timer that a new handler starts with.
Rearmed ==
    IF \E t \in Targets : pending[t] > 0
    THEN Scheduled(NoTimer, CoalesceMs, "normal") ELSE NoTimer

\* setHeartbeatWakeHandler with a new handler: nothing of an earlier lifecycle
\* holds it up.
SetHandler(h) ==
    /\ h \notin registered
    /\ registered' = registered \cup {h}
    /\ handler' = h
    /\ timer' = Rearmed
    /\ running' = FALSE
    /\ scheduled' = FALSE
    /\ UNCHANGED <<pending, runs, owed>>

\* The disposer that it returned; it is void once there is a newer handler.
\* (No handler is registered twice, so handlerGeneration tells no more.)
Dispose(h) ==
    /\ h \in registered
    /\ handler' = IF handler = h THEN NoHandler ELSE handler
    /\ UNCHANGED <<registered, pending, timer, scheduled, running, runs, owed>>

-----------------------------------------------------------------------------
\* Of the wakes o owed, those left when the handler is called for a wake ...
Called(o, wake) == [o EXCEPT ![wake.target] = IF wake.priority >= @ THEN 0 ELSE @]

\* ... and those owed when it did not do what it was called for.
Owe(wake) == [owed EXCEPT ![wake.target] = IF wake.priority > @ THEN wake.priority ELSE @]

\* The pending wakes, in some order (that of their first request).
Batches ==
    LET due == {t \in Targets : pending[t] > 0}
    IN {[i \in DOMAIN s |-> [target |-> s[i], priority |-> pending[s[i]]]] :
            s \in SetToSeqs(due)}

\* The timer fires while there is no handler, or nothing pending: the wakes
\* stay for the next schedule.
TimerFiresIdle ==
    /\ timer.kind # "none" /\ timer.left = 0
    /\ \/ handler = NoHandler
       \/ ~running /\ \A t \in Targets : pending[t] = 0
    /\ timer' = NoTimer
    /\ scheduled' = FALSE
    /\ UNCHANGED <<handler, registered, pending, running, runs, owed>>

\* It fires while a run is under way: it is set again.
TimerFiresWhileRunning ==
    /\ timer.kind # "none" /\ timer.left = 0
    /\ handler # NoHandler /\ running
    /\ scheduled' = TRUE
    /\ timer' = Scheduled(NoTimer, timer.delay, timer.kind)
    /\ UNCHANGED <<handler, registered, pending, running, runs, owed>>

MayRunFaulty == TRUE

MayRun == ~running

\* It fires, and a run takes all pending wakes and calls the handler for the first.
TimerFires ==
    /\ timer.kind # "none" /\ timer.left = 0
    /\ handler # NoHandler /\ MayRun
    /\ \E r \in Runs : ~Active(r)
    /\ \E batch \in Batches :
          /\ batch # <<>>
          /\ runs' = [runs EXCEPT ![CHOOSE r \in Runs : ~Active(r)] =
                         [batch |-> batch, former |-> <<>>, delay |-> timer.delay]]
          /\ owed' = Called(owed, Head(batch))
    /\ pending' = [t \in Targets |-> 0]
    /\ running' = TRUE
    /\ timer' = NoTimer
    /\ scheduled' = FALSE
    /\ UNCHANGED <<handler, registered>>

\* The finally block of run r, with pending wakes p and timer tm.
RunEnds(r, p, tm) ==
    /\ runs' = [runs EXCEPT ![r] = NoRun]
    /\ running' = FALSE
    /\ pending' = p
    /\ timer' = IF scheduled \/ \E t \in Targets : p[t] > 0
                THEN Scheduled(tm, runs[r].delay, "normal") ELSE tm
    /\ UNCHANGED <<handler, registered, scheduled>>

\* After an answer, run r goes on to its next wake, with pending wakes p,
\* timer tm and wakes o owed.
RunGoesOn(r, p, tm, o) ==
    LET wake == Head(runs[r].batch)
        rest == Tail(runs[r].batch)
    IN IF rest = <<>>
       THEN RunEnds(r, p, tm) /\ owed' = o
       ELSE /\ runs' = [runs EXCEPT ![r].batch = rest, ![r].former = Append(@, wake)]
            /\ owed' = Called(o, Head(rest))
            /\ pending' = p
            /\ timer' = tm
            /\ UNCHANGED <<handler, registered, scheduled, running>>

\* The handler has run a heartbeat, failed, or skipped it for good.
HandlerDone(r) == Active(r) /\ RunGoesOn(r, pending, timer, owed)

HandlerBusyFaulty(r) == HandlerDone(r)

\* The handler has found requests in flight.
HandlerBusy(r) ==
    LET wake == Head(runs[r].batch)
    IN /\ Active(r)
       /\ RunGoesOn(r, Queued(pending, {wake}), Scheduled(timer, RetryMs, "retry"), Owe(wake))

\* The wakes that a thrown error queues again: all of the batch.
Requeued(run) == ToSet(run.former) \cup ToSet(run.batch)

\* The handler throws, and the rest of the batch is not tried.
HandlerThrows(r) ==
    /\ Active(r)
    /\ RunEnds(r, Queued(pending, Requeued(runs[r])), Scheduled(timer, RetryMs, "retry"))
    /\ owed' = Owe(Head(runs[r].batch))

WakeTick ==
    /\ timer.left > 0
    /\ timer' = [timer EXCEPT !.left = @ - 1]
    /\ UNCHANGED <<handler, registered, pending, scheduled, running, runs, owed>>

-----------------------------------------------------------------------------
WakeNext ==
    \/ \E t \in Targets, p \in Priorities, d \in {0, CoalesceMs} : Request(t, p, d)
    \/ \E h \in Handlers : SetHandler(h) \/ Dispose(h)
    \/ TimerFiresIdle \/ TimerFiresWhileRunning \/ TimerFires
    \/ \E r \in Runs : HandlerDone(r) \/ HandlerBusy(r) \/ HandlerThrows(r)
    \/ WakeTick

WakeSpec == WakeInit /\ [][WakeNext]_wakeVars
=============================================================================
