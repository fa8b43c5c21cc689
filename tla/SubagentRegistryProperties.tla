---------------------- MODULE SubagentRegistryProperties ----------------------
(* What the registry of subagent runs promises (see SubagentRegistry).        *)
EXTENDS SubagentRegistry

Records ==
    [known : BOOLEAN, no : Numbers, woken : BOOLEAN, ended : BOOLEAN, ok : BOOLEAN,
     handled : BOOLEAN, completed : BOOLEAN,
     suppress : {"none", "steer-restart", "killed"}, retries : 0..MaxRetries,
     wake : BOOLEAN, expired : BOOLEAN]

Memory ==
    [agent : {"running", "failed", "over"}, waiting : BOOLEAN, completing : BOOLEAN,
     resumed : BOOLEAN, timer : BOOLEAN, retimer : BOOLEAN, begun : {FALSE}]

\* The values the registry, its file and the announcements may hold; a run is
\* not announced while it goes on or is not there.
TypeOK ==
    /\ reg \in [Sessions -> [e : Records, m : Memory]]
    /\ disk \in [Sessions -> Records]
    /\ stored \subseteq Sessions
    /\ flow \in [Sessions -> [Numbers -> [at : {"none", "checking", "waking", "delivering",
                                              "asked", "done", "failed"},
                                       wake : BOOLEAN, asks : 0..MaxAsks]]]
    /\ fresh \subseteq Sessions
    /\ steering \subseteq Sessions \X Numbers
    /\ up \in BOOLEAN
    /\ troubles \in 0..MaxTroubles
    /\ announced \in [Sessions -> [Numbers -> Nat]]
    /\ waived \subseteq Sessions \X Numbers
    /\ \A s \in Sessions, n \in Numbers :
          flow[s][n].at # "none" /\ IsRun(s, n) => reg[s].e.ended /\ reg[s].e.handled

\* The result of a run is told once at most, although completions, timers, settled
\* runs below, failed steers and restarts all try, except after a call that was left
\* without an answer: never while a call is under way, nor when a stop of the gateway
\* has cut one off, nor after one was answered.
AnnouncedOnce == \A s \in Sessions, n \in Numbers : announced[s][n] <= 1

\* The cleanup of a run that is kept is only completed for a cause: its result was
\* delivered, or was for nobody, or could not be delivered as often or as long as
\* it is tried, or the run was killed.  Waiting for runs below is no try.
SettledForCause ==
    \A s \in Sessions :
        LET e == reg[s].e IN
        Known(s) /\ e.completed =>
            \/ announced[s][e.no] > 0 \/ <<s, e.no>> \in waived
            \/ e.retries = MaxRetries \/ e.expired \/ e.suppress = "killed"

\* What a stop of the gateway left claimed by an announcement or by a steer.
Abandoned(s) ==
    \/ reg[s].e.handled /\ flow[s][reg[s].e.no] = NoFlow
    \/ Steered(reg[s]) /\ <<s, reg[s].e.no>> \notin steering

\* While the gateway is up, the cleanup of a run that ended does not stay undone, be
\* it put off, failed, killed or resumed after a restart, unless a stop abandoned it.
EndedSettles ==
    \A s \in Sessions :
        []<>(up /\ Known(s) /\ reg[s].e.ended => reg[s].e.completed \/ Abandoned(s))

\* "Delete-mode is finalized only after announce succeeds or give-up triggers"
\* (subagent-registry.ts:932): no run is forgotten while its tries are not used up.
DeletedForCause ==
    [][\A s \in Sessions :
           LET e == reg[s].e IN
           Known(s) /\ ~Known(s)' /\ troubles' = 0
               => announced[s][e.no] > 0 \/ <<s, e.no>> \in waived]_vars
=============================================================================
