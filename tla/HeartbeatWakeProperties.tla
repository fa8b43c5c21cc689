----------------------- MODULE HeartbeatWakeProperties -----------------------
(* What the wake layer promises to those who request heartbeats. *)
EXTENDS HeartbeatWake

Wake == [target : Targets, priority : Priorities]

UnderWay == {r \in Runs : Active(r)}

\* Types; and the flag that keeps a second run out is never up without a run,
\* which would put an end to heartbeats.
TypeOK ==
    /\ handler \in registered \cup {NoHandler}
    /\ registered \subseteq Handlers
    /\ pending \in [Targets -> Priorities \cup {0}]
    /\ owed \in [Targets -> Priorities \cup {0}]
    /\ timer \in [kind : {"none", "normal", "retry"}, left : 0..RetryMs, delay : 0..RetryMs]
    /\ scheduled \in BOOLEAN /\ running \in BOOLEAN
    /\ runs \in [Runs -> [batch : Seq(Wake), former : Seq(Wake), delay : 0..RetryMs]]
    /\ running => UnderWay # {}

\* Each restart of the runner lets at most one more run overlap with the others;
\* without restarts runs exclude one another.
RunsExclude == Cardinality(UnderWay) <= Cardinality(registered)

\* What was requested for a target, and was not answered for since by a call of
\* a handler of at least that priority, is pending or comes in a run under way,
\* at no lower priority, across busy lanes, errors and restarts.
WakesAreKept ==
    \A t \in Targets :
        owed[t] > 0 =>
            \/ pending[t] >= owed[t]
            \/ \E r \in UnderWay : \E i \in 2..Len(runs[r].batch) :
                  runs[r].batch[i].target = t /\ runs[r].batch[i].priority >= owed[t]

\* Pending wakes are never stranded: when there is a handler, a timer is set for
\* them or a run is under way (which sets one when it ends).
PendingIsScheduled ==
    handler # NoHandler /\ (\E t \in Targets : pending[t] > 0)
        => timer.kind # "none" \/ UnderWay # {}
=============================================================================
