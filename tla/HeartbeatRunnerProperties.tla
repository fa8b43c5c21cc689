---------------------- MODULE HeartbeatRunnerProperties ----------------------
(* What the heartbeat runner promises, and what its documentation says of it. *)
EXTENDS HeartbeatRunner

Walk == [by : Handlers \cup {NoHandler}, at : {"idle", "begin", "next", "agent"},
         todo : Seq(Agents), due : SUBSET Agents, age : 0..Interval, stale : BOOLEAN]

\* Types; and a run of the wake layer awaits a call of the runner, always.
RunnerTypeOK ==
    /\ agents \in [Handlers -> [Agents -> [left : 0..Interval, ran : BOOLEAN]]]
    /\ alarm \in [Handlers -> 0..Off]
    /\ stopped \subseteq registered /\ lapsed \subseteq registered \ stopped
    /\ overlapped \subseteq registered
    /\ enabled \in BOOLEAN
    /\ walk \in [Runs -> Walk]
    /\ quiet \in [Handlers -> [Agents -> 0..Interval]]
    /\ \A r \in Runs : Active(r) <=> walk[r].at # "idle"

\* Something is going to set the runner's alarm again, or it is set.
Ahead(h) ==
    \/ alarm[h] # Off
    \/ pending[Everyone] > 0
    \/ \E r \in Runs : walk[r].by = h

Working(h) == handler = h /\ h \notin stopped

\* A working runner has its next heartbeats ahead, through busy lanes, reloads and
\* restarts, unless it skipped a call because heartbeats were disabled.
StaysScheduled == \A h \in Handlers \ lapsed : Working(h) => Ahead(h)

\* "enable: turn heartbeats back on (use this if they were disabled)"
\* (docs/cli/system.md:41): while heartbeats are enabled a next one is ahead.
EnabledMeansOn == \A h \in Handlers : Working(h) /\ enabled => Ahead(h)

BeginsInterval(r) ==
    /\ walk[r].at = "next" /\ walk'[r].at = "agent"
    /\ IsInterval(r) /\ Fresh(r)

\* An agent's interval heartbeats come no more often than its interval, although
\* wakes for it come from elsewhere and busy lanes put it off.  (A reload amid a
\* heartbeat forgets it: quiet starts anew.)  Excepted is a runner that once had two
\* calls under way, which takes a restart: when a heartbeat of the old runner ends, it
\* clears the flag of the new one's run (heartbeat-wake.ts:186), and the alarm that
\* rang meanwhile begins a heartbeat beside the new one.
NoRepetition ==
    [][\A r \in Runs :
         BeginsInterval(r) /\ walk[r].by \notin overlapped
            => quiet[walk[r].by][Head(walk[r].todo)] = 0]_vars

AtWork(a) == \E r \in Runs : walk[r].at = "agent" /\ Head(walk[r].todo) = a

\* Under FairSpec: an agent whose heartbeat is due gets it or is put off to a
\* later time, if heartbeats stay enabled and were enabled when the alarm came.
DueIsServed ==
    \A h \in Handlers, a \in Agents :
        handler = h /\ agents[h][a].left = 0
            ~> AtWork(a) \/ agents[h][a].left > 0 \/ handler # h \/ ~enabled \/ h \in lapsed
=============================================================================
