-------------------------- MODULE AgentRunsProperties --------------------------
(* What agent runs promise their sessions and those who wait for them. *)
EXTENDS AgentRuns

Waiting(r) == stage[r] \in {"cron", "session", "global"}

AtWork(r) == stage[r] \in {"between", "attempt", "asking", "compacting"}

InLineOf(r) == CASE stage[r] = "cron" -> "cron"
                 [] stage[r] = "session" -> SessionOf[r]
                 [] stage[r] = "global" -> AgentLane(r)

\* Types; and the runs in line are those that wait, each in the lane of its stage and
\* there once, so that nobody waits where no pump finds it and nobody is started twice.
TypeOK ==
    /\ stage \in [Runs -> {"new", "cron", "session", "global", "between", "attempt", "asking",
                           "aborting", "compacting", "done"}]
    /\ line \in [Lanes -> Seq(Runs)]
    /\ serving \in [Lanes -> SUBSET Runs]
    /\ active \in [Sessions -> Runs \cup {None}]
    /\ aborted \subseteq Runs /\ late \subseteq aborted /\ signalled \subseteq Runs
    /\ rotations \in [Runs -> Nat] /\ models \in [Runs -> Nat] /\ fallbacks \in Nat
    /\ refreshed \subseteq Runs /\ prompted \subseteq Runs /\ stopped \subseteq Runs
    /\ \A l \in Lanes : IsInjective(line[l])
    /\ \A l \in Lanes, r \in Runs : r \in Range(line[l]) <=> Waiting(r) /\ l = InLineOf(r)

\* One run or compaction of a session is at work at a time, whatever was stopped,
\* tried again or queued anew, by whatever lane it came; and the run registered
\* for a session, which a stop or a compaction aborts, is the one at work.
OneRunPerSession ==
    /\ \A r, u \in Runs : SessionOf[r] = SessionOf[u] /\ AtWork(r) /\ AtWork(u) => r = u
    /\ \A s \in Sessions :
         active[s] # None => stage[active[s]] \in {"attempt", "asking"} /\ SessionOf[active[s]] = s

\* Runs that wait for slots that only runs among them hold.
Deadlocked(waits, S) ==
    /\ S # {}
    /\ \A r \in S :
         /\ waits[r] # {}
         /\ waits[r] \subseteq S

\* Those whose end a waiting run needs: the holders of its lane's slots.
Holders ==
    [r \in Runs |-> IF ~Waiting(r) \/ Cardinality(serving[InLineOf(r)]) < Width[InLineOf(r)]
                    THEN {} ELSE serving[InLineOf(r)]]

\* Runs hold one lane, or two, while they wait for another; yet no set of runs
\* waits in lines for itself.  (One in an attempt that asked another does not count as
\* waiting: it goes on when its patience ends, and may wait for its own lane till then.)
NoCircularWait == \A S \in SUBSET Runs : ~Deadlocked(Holders, S)

BeginsAttempt(r) == stage[r] = "between" /\ stage'[r] = "attempt"

\* A run that a stop found in its session's line or in an attempt calls the model no
\* more, where no fallback models are configured: it is not tried on another profile,
\* compacted or queued anew.  The code has four exceptions, which `stopped' leaves out:
\* the time of the run or of its job ran out while it was being aborted, its token was
\* refused and refreshed (run.ts:1372), or its job prompts it again because it had only
\* said that it would begin (cron/isolated-agent/run.ts:684).  (A run that waits in a
\* global lane, or is between two attempts, is not found: see the README.)
StoppedCallsNoMore ==
    [][fallbacks = 0 => \A r \in stopped : ~BeginsAttempt(r)]_vars

\* "abort the current run, clear queued followups for that session"
\* (docs/concepts/session.md:285), whatever models are configured.
StopIsFinal == [][\A r \in stopped : ~BeginsAttempt(r)]_vars

\* Under FairSpec: every run that was requested ends, although it is one of
\* several that ask one another, share lanes, are stopped and tried again.  (A run
\* is requested once: when all that were have ended, no more is to be done.)
RequestedEnd == <>[](\A r \in Runs : stage[r] \in {"new", "done"})
=============================================================================
