---------------------------- MODULE FollowupQueue ----------------------------
(***************************************************************************)
(* The follow-up queue of one session (src/auto-reply/reply/queue/ with    *)
(* the helpers of src/utils/queue-helpers.ts): messages that arrive while  *)
(* an agent run is active wait here and are given to the agent in turns of *)
(* their own, one by one or collected.                                     *)
(*                                                                         *)
(* FOLLOWUP_QUEUES maps the session's key to a queue object; a drain is a  *)
(* coroutine that holds on to the object it began with, while the map's    *)
(* entry may be deleted and replaced under it.  So objects have identities *)
(* here, and current is the one the map holds.  A drain is suspended only  *)
(* in waitForQueueDebounce ("waiting") and in runFollowup ("turn").        *)
(*                                                                         *)
(* Prompts are abstracted to the messages they contain, summary lines to   *)
(* the messages counted as dropped.  The variables after recent are        *)
(* history: they record what became of each message.                       *)
(***************************************************************************)
EXTENDS Naturals, FiniteSets, SequencesExt

CONSTANTS
    Msgs,          \* inbound messages, named by message id and routing
    Redelivered,   \* those a channel may deliver more than once
    Route,         \* where each message came from: channel, peer, account, thread
    Unroutable,    \* messages from a channel replies cannot be routed to
    Settings,      \* the queue settings a message can carry: mode, cap, drop
                   \* (every mode that queues but collect drains as followup)
    Objects,       \* identities of queue objects
    NoQueue,       \* the map has no entry for the session
    Stop           \* whether clearSessionQueues is called

ASSUME FollowupQueueAssumption ==
    /\ Unroutable \cup Redelivered \subseteq Msgs
    /\ DOMAIN Route = Msgs
    /\ Settings \subseteq [mode : {"collect", "followup"}, cap : Nat \ {0},
                           drop : {"summarize", "old", "new"}]
    /\ NoQueue \notin Objects
    /\ Stop \in BOOLEAN

VARIABLES
    queues,     \* the queue objects
    current,    \* FOLLOWUP_QUEUES.get(key)
    callback,   \* FOLLOWUP_RUN_CALLBACKS has an entry for the key
    recent,     \* RECENT_QUEUE_MESSAGE_IDS
    phase,      \* what the reply pipeline is doing with each message
    accepted,   \* the messages the queue took
    earlier,    \* pairs of them: the first was taken before the second
    presented,  \* messages given to the agent in a follow-up turn
    reported,   \* dropped messages counted in a summary given to the agent
    shed,       \* messages taken out by the overflow policy or by a stop
    stopped     \* the queues of the session were cleared

history == <<accepted, earlier, presented, reported, shed, stopped>>
followupVars == <<queues, current, callback, recent, phase, history>>

\* A queue object that nothing refers to.
Garbage == [items |-> <<>>, dropped |-> {}, draining |-> FALSE, hasRun |-> FALSE,
            mode |-> "collect", cap |-> 1, drop |-> "new", pc |-> "idle",
            force |-> FALSE, batch |-> <<>>, summary |-> {}, kind |-> "none"]

FollowupInit ==
    /\ queues = [o \in Objects |-> Garbage]
    /\ current = NoQueue
    /\ callback = FALSE
    /\ recent = {}
    /\ phase = [m \in Msgs |-> "away"]
    /\ accepted = {}
    /\ earlier = {}
    /\ presented = {}
    /\ reported = {}
    /\ shed = {}
    /\ stopped = FALSE

HasWork(q) == q.items # <<>> \/ q.dropped # {}

\* Of the objects qs, those the map or a drain still refers to.
Live(qs, cur) == [o \in Objects |-> IF o = cur \/ qs[o].draining THEN qs[o] ELSE Garbage]

-----------------------------------------------------------------------------
(* Putting a message in the queue. *)

\* applyQueueDropPolicy: the queue is full.
OverCap(q) == Len(q.items) >= q.cap

IsRunAlreadyQueued(q, m) == m \in Range(q.items)

\* getFollowupQueue: the object the map holds, or a new one, with the
\* settings of this message applied.
WithSettings(q, s) == [q EXCEPT !.mode = s.mode, !.cap = s.cap, !.drop = s.drop]

\* The items applyQueueDropPolicy splices off the front.
Overflow(q) ==
    IF OverCap(q) /\ q.drop # "new"
    THEN SubSeq(q.items, 1, Len(q.items) - q.cap + 1) ELSE <<>>

PushedFaulty(q, m) == <<m>> \o q.items

\* queue.items.push after the overflow has been spliced off
Pushed(q, m) == Append(SubSeq(q.items, Len(Overflow(q)) + 1, Len(q.items)), m)

Enqueued(q, m) ==
    [q EXCEPT !.hasRun = TRUE,
              !.items = Pushed(q, m),
              !.dropped = IF q.drop = "summarize"
                          THEN @ \cup Range(Overflow(q)) ELSE @]

-----------------------------------------------------------------------------
(* Drains. *)

\* The drain coroutine has passed its loop condition and waits for quiet.
Waiting(q) == [q EXCEPT !.draining = TRUE, !.pc = "waiting", !.kind = "none",
                        !.batch = <<>>, !.summary = {}]

Stopped(q) == [q EXCEPT !.draining = FALSE, !.pc = "idle", !.kind = "none",
                        !.batch = <<>>, !.summary = {}, !.force = FALSE]

\* scheduleFollowupDrain, called when the objects are qs: begin a drain of the
\* queue the map holds, unless there is none or it is being drained.
ScheduleFollowupDrain(qs) ==
    IF current = NoQueue \/ qs[current].draining
    THEN queues' = Live(qs, current) /\ UNCHANGED <<current, callback>>
    ELSE /\ callback' = TRUE
         /\ current' = IF HasWork(qs[current]) THEN current ELSE NoQueue
         /\ queues' = Live([qs EXCEPT ![current] = IF HasWork(@) THEN Waiting(@) ELSE @],
                           current')

EndDrainFaulty(o, q) ==
    LET next == IF HasWork(q) THEN current ELSE NoQueue
    IN /\ queues' = Live([queues EXCEPT ![o] = Stopped(q)], next)
       /\ current' = next
       /\ UNCHANGED callback

\* The finally block of a drain of object o, whose state is now q: start over,
\* or forget the key, whichever object it stands for by now.
EndDrain(o, q) ==
    LET qs == [queues EXCEPT ![o] = Stopped(q)]
    IN IF HasWork(q)
       THEN ScheduleFollowupDrain(qs)
       ELSE /\ queues' = Live(qs, NoQueue)
            /\ current' = NoQueue
            /\ UNCHANGED callback

\* The head of the drain's loop, with the object's state now q.
ContinueDrain(o, q) ==
    IF HasWork(q)
    THEN queues' = [queues EXCEPT ![o] = Waiting(q)] /\ UNCHANGED <<current, callback>>
    ELSE EndDrain(o, q)

\* hasCrossChannelItems
IsCrossChannel(q) ==
    \/ Range(q.items) \cap Unroutable # {}
    \/ \E m, n \in Range(q.items) : Route[m] # Route[n]

\* previewQueueSummaryPrompt
Summary(q) == IF q.drop = "summarize" THEN q.dropped ELSE {}

\* runFollowup is called with a prompt made of batch and summary.
StartTurn(o, q, kind, batch, summary) ==
    /\ queues' = [queues EXCEPT ![o] = [q EXCEPT !.pc = "turn", !.kind = kind,
                                                 !.batch = batch, !.summary = summary]]
    /\ presented' = IF kind = "summary" THEN presented ELSE presented \cup Range(batch)
    /\ reported' = reported \cup summary
    /\ UNCHANGED <<current, callback>>

\* The drain gives up: nothing to start a turn with.
BreakDrain(o, q) == EndDrain(o, q) /\ UNCHANGED <<presented, reported>>

\* Collect mode: one turn for all items, unless they come from several places
\* or once did in this drain.
CollectStep(o) ==
    LET q == [queues[o] EXCEPT !.force = @ \/ IsCrossChannel(queues[o])]
        head == SubSeq(q.items, 1, 1)
    IN IF q.force
       THEN IF q.items = <<>> THEN BreakDrain(o, q)
            ELSE StartTurn(o, q, "single", head, {})
       ELSE IF q.items = <<>> /\ ~q.hasRun THEN BreakDrain(o, q)
            ELSE StartTurn(o, q, "collect", q.items, Summary(q))

\* Every other mode: one turn per item; when messages were dropped, a turn
\* with the summary, routed like the first item.
SingleStep(o) ==
    LET q == queues[o]
        head == SubSeq(q.items, 1, 1)
    IN IF q.items = <<>> THEN BreakDrain(o, q)
       ELSE IF Summary(q) = {} THEN StartTurn(o, q, "single", head, {})
       ELSE IF ~q.hasRun THEN BreakDrain(o, q)
       ELSE StartTurn(o, q, "summary", head, Summary(q))

\* The queue has been quiet for debounceMs: the drain's loop body up to the
\* call of runFollowup.
DebounceElapses(o) ==
    /\ queues[o].pc = "waiting"
    /\ IF queues[o].mode = "collect" THEN CollectStep(o) ELSE SingleStep(o)
    /\ UNCHANGED <<recent, phase, accepted, earlier, shed, stopped>>

TakenOutFaulty(q) == 0

TakenOutAll(q) == Len(q.items)

\* How many items are removed when the turn is over (shift, splice): as many as
\* it was started with, whatever the items are by then.
TakenOut(q) == IF q.kind = "collect" THEN Len(q.batch) ELSE 1

AfterTurn(q) ==
    [q EXCEPT !.items = SubSeq(@, TakenOut(q) + 1, Len(@)),
              !.dropped = IF q.summary # {} THEN {} ELSE @]

\* runFollowup resolves; an agent failure is among the ways it does.
TurnEnds(o) ==
    /\ queues[o].pc = "turn"
    /\ ContinueDrain(o, AfterTurn(queues[o]))
    /\ UNCHANGED <<recent, phase, history>>

\* runFollowup rejects (its reply could not be sent): the items stay, and the
\* agent is going to see them again.
TurnFails(o) ==
    /\ queues[o].pc = "turn"
    /\ EndDrain(o, queues[o])
    /\ presented' = presented \ Range(queues[o].batch)
    /\ reported' = reported \ queues[o].summary
    /\ UNCHANGED <<recent, phase, accepted, earlier, shed, stopped>>

-----------------------------------------------------------------------------
(* The reply pipeline. *)

Busy == \/ \E m \in Msgs : phase[m] = "running"
        \/ \E o \in Objects : queues[o].pc = "turn"

\* A message arrives and isEmbeddedPiRunActive is read; a run that has not
\* registered yet is not seen.  The decision is carried out after an await.
Arrive(m) ==
    /\ phase[m] = "away"
    /\ \/ Busy /\ phase' = [phase EXCEPT ![m] = "toQueue"]
       \/ phase' = [phase EXCEPT ![m] = "running"]
    /\ UNCHANGED <<queues, current, callback, recent, history>>

\* A direct run ends: finalizeWithFollowup.
RunEnds(m) ==
    /\ phase[m] = "running"
    /\ phase' = [phase EXCEPT ![m] = "done"]
    /\ ScheduleFollowupDrain(queues)
    /\ UNCHANGED <<recent, history>>

\* The channel delivers a message again.
Redeliver(m) ==
    /\ m \in Redelivered /\ phase[m] = "done"
    /\ phase' = [phase EXCEPT ![m] = "away"]
    /\ UNCHANGED <<queues, current, callback, recent, history>>

\* Five minutes have passed, or the cache is full.  (The ids of other messages
\* are never asked for again.)
ForgetId(m) ==
    /\ m \in recent \cap Redelivered
    /\ recent' = recent \ {m}
    /\ UNCHANGED <<queues, current, callback, phase, history>>

\* The order of acceptance when m is accepted, for the first time or again.
AcceptedLast(m) ==
    {p \in earlier : m \notin {p[1], p[2]}} \cup ((accepted \ {m}) \X {m})

\* enqueueFollowupRun on object o, which is the map's or newly made.
EnqueueFollowupRun(m, o, s) ==
    LET q == WithSettings(queues[o], s)
        next == Enqueued(q, m)
    IN /\ phase[m] = "toQueue"
       /\ IF current = NoQueue THEN queues[o] = Garbage ELSE o = current
       /\ phase' = [phase EXCEPT ![m] = "done"]
       /\ IF m \in recent \/ IsRunAlreadyQueued(q, m)
          THEN /\ queues' = [queues EXCEPT ![o] = q]
               /\ UNCHANGED <<callback, recent, history>>
          ELSE IF OverCap(q) /\ q.drop = "new"
          THEN /\ queues' = [queues EXCEPT ![o] = [q EXCEPT !.hasRun = TRUE]]
               /\ UNCHANGED <<callback, recent, history>>
          ELSE /\ recent' = recent \cup {m}
               /\ accepted' = accepted \cup {m}
               /\ earlier' = AcceptedLast(m)
               /\ presented' = presented \ {m}
               /\ reported' = reported \ {m}
               /\ shed' = (shed \ {m}) \cup Range(Overflow(q))
               /\ queues' = [queues EXCEPT ![o] = IF callback /\ ~q.draining
                                                  THEN Waiting(next) ELSE next]
               /\ UNCHANGED <<callback, stopped>>
       /\ current' = o

\* clearSessionQueues: /stop, a session reset, a killed subagent.
ClearSessionQueues ==
    /\ Stop
    /\ stopped' = TRUE
    /\ callback' = FALSE
    /\ current' = NoQueue
    /\ IF current = NoQueue THEN UNCHANGED <<queues, shed>>
       ELSE LET q == queues[current]
            IN /\ shed' = shed \cup Range(q.items)
               /\ queues' = Live([queues EXCEPT ![current] =
                    [q EXCEPT !.items = <<>>, !.dropped = {}, !.hasRun = FALSE]], NoQueue)
    /\ UNCHANGED <<recent, phase, accepted, earlier, presented, reported>>

-----------------------------------------------------------------------------
FollowupNext ==
    \/ \E o \in Objects : DebounceElapses(o) \/ TurnEnds(o) \/ TurnFails(o)
    \/ \E m \in Msgs : Arrive(m) \/ RunEnds(m) \/ Redeliver(m) \/ ForgetId(m)
    \/ \E m \in Msgs, o \in Objects, s \in Settings : EnqueueFollowupRun(m, o, s)
    \/ ClearSessionQueues

FollowupSpec == FollowupInit /\ [][FollowupNext]_followupVars

\* Timers fire, promises settle, and a turn that is retried succeeds some time.
FollowupFairness ==
    /\ \A o \in Objects : WF_followupVars(DebounceElapses(o)) /\ SF_followupVars(TurnEnds(o))
    /\ \A m \in Msgs : WF_followupVars(RunEnds(m))
    /\ \A m \in Msgs :
         WF_followupVars(\E o \in Objects, s \in Settings : EnqueueFollowupRun(m, o, s))

FollowupFairSpec == FollowupSpec /\ FollowupFairness
=============================================================================
