----------------------- MODULE FollowupQueueProperties -----------------------
(* What the follow-up queue promises, and what its documentation says of it. *)
EXTENDS FollowupQueue

QueueState ==
    [items : Seq(Msgs), dropped : SUBSET Msgs, draining : BOOLEAN, hasRun : BOOLEAN,
     mode : {"collect", "followup"}, cap : Nat \ {0}, drop : {"summarize", "old", "new"},
     pc : {"idle", "waiting", "turn"}, force : BOOLEAN, batch : Seq(Msgs),
     summary : SUBSET Msgs, kind : {"none", "single", "collect", "summary"}]

\* Types, and what ties a queue object to its drain: a drain is under way
\* exactly while the flag is up, and only a queue that is being drained or that
\* the map holds has any content.
FollowupTypeOK ==
    /\ queues \in [Objects -> QueueState]
    /\ current \in Objects \cup {NoQueue}
    /\ callback \in BOOLEAN
    /\ recent \subseteq Msgs
    /\ phase \in [Msgs -> {"away", "running", "toQueue", "done"}]
    /\ accepted \subseteq Msgs /\ earlier \subseteq accepted \X accepted
    /\ presented \cup reported \cup shed \subseteq Msgs
    /\ stopped \in BOOLEAN
    /\ \A o \in Objects : queues[o].draining <=> queues[o].pc # "idle"
    /\ \A o \in Objects \ {current} : queues[o].pc = "idle" => queues[o] = Garbage

\* Messages wait in the order they were accepted, none of them twice (whatever is
\* delivered again, and however early its id is forgotten), and a turn that hands out
\* messages hands out the oldest there were: none is accepted before its last
\* one and still waiting to be handed out.  (Until a stop, which makes dedupe
\* forget the object that still drains.)
InArrivalOrder ==
    ~stopped =>
    \A o \in Objects :
        LET q == queues[o]
        IN /\ \A i, j \in 1..Len(q.items) :
                i < j => <<q.items[i], q.items[j]>> \in earlier
           /\ \A m \in Range(q.batch) \cap presented, n \in Range(q.items) \ Range(q.batch) :
                <<m, n>> \in earlier

TurnStarts(o) == queues[o].pc = "waiting" /\ queues'[o].pc = "turn"

\* Unless its turn failed, no message is given to the agent a second time: what
\* a turn was started with leaves the queue when it ends, also when the
\* overflow policy has changed the items in the meantime.  (Until a stop, as
\* above.)
PresentedOnce ==
    [][\A o \in Objects :
         ~stopped /\ TurnStarts(o) /\ queues'[o].kind # "summary"
            => Range(queues'[o].batch) \cap presented = {}]_followupVars

Queued(m) == \E o \in Objects : m \in Range(queues[o].items)

\* A message the queue took waits in it until it was given to the agent, or was
\* taken out by the overflow policy or by a stop.
NothingVanishes ==
    \A m \in accepted : Queued(m) \/ m \in presented \/ m \in shed

\* The same of a session that was never stopped.  (After a stop the drain of
\* the old object may delete the new one: see FollowupQueue_stop_race.cfg.)
NothingVanishesUnstopped == ~stopped => NothingVanishes

\* Under FollowupFairSpec: a message that waits while a callback is cached is given to
\* the agent, although turns may fail, unless the session is stopped.
DrainedOnceStarted ==
    \A m \in Msgs : Queued(m) /\ callback ~> m \in presented \/ stopped
=============================================================================
