------------------------------- MODULE AgentRuns -------------------------------
(***************************************************************************)
(* Agent runs and the lanes they hold: runEmbeddedPiAgent and              *)
(* compactEmbeddedPiSession (src/agents/pi-embedded-runner), the model     *)
(* fallback around a run (src/agents/model-fallback.ts), the registry of   *)
(* active runs (runs.ts), manual runs of cron jobs, and stops.             *)
(*                                                                         *)
(* A run is a command in the lane of its session which, once started, is   *)
(* a command in a global lane and holds both until it ends.  A manual run  *)
(* of a cron job holds the cron lane as well.  The lanes are servers with  *)
(* bounded slots and a line, which the module LaneScheduler says and       *)
(* CommandQueue implements; a command in line and one at work are known    *)
(* by their run.                                                           *)
(***************************************************************************)
EXTENDS Naturals, Sequences, FiniteSets, SequencesExt

CONSTANTS
    Runs, Sessions,
    SessionOf,        \* the session of each run
    Kind,             \* "main", "subagent", "nested", "cron" (a job's manual
                      \* run) or "compact" (the command /compact)
    Width,            \* the slots of each lane
    Copilot,          \* runs whose models may be served by GitHub Copilot
    Rotations,        \* bound: times a run is tried again in its lanes
    MaxFallbacks,     \* bound: fallback models configured
    None

GlobalLanes == {"main", "subagent", "nested", "cron"}
Lanes == Sessions \cup GlobalLanes

ASSUME AgentRunsAssumption ==
    /\ IsFiniteSet(Runs) /\ None \notin Runs \cup Lanes
    /\ Sessions \cap GlobalLanes = {}
    /\ SessionOf \in [Runs -> Sessions]
    /\ Kind \in [Runs -> GlobalLanes \cup {"compact"}]
    /\ Width \in [Lanes -> Nat \ {0}]
    /\ \A s \in Sessions : Width[s] = 1
    /\ Copilot \subseteq Runs
    /\ Rotations \in Nat /\ MaxFallbacks \in Nat

VARIABLES
    stage,       \* of each run; "cron", "session", "global": in line there
    line,        \* of each lane: the runs whose command waits, oldest first
    serving,     \* of each lane: the runs whose command holds a slot
    active,      \* ACTIVE_EMBEDDED_RUNS: the run that can be aborted
    aborted,     \* runs whose attempt was aborted
    late,        \* runs whose attempt was aborted because its time ran out
    signalled,   \* runs whose cron job timed out
    rotations,   \* of each run: times it may yet be tried again in its lanes
    models,      \* of each run: fallback models left
    fallbacks,   \* the number of fallback models configured
    refreshed,   \* runs at work with a token refreshed for it (authRetryPending)
    prompted,    \* runs of cron jobs that were prompted a second time
    stopped      \* history: runs not yet done that a stop found in line or at work, and
                 \* since then none of these: their time or their job's time ran out,
                 \* their token was refreshed, or their job prompted them again

lanes == <<line, serving>>
flags == <<aborted, late, signalled>>
budget == <<rotations, models, fallbacks, refreshed, prompted>>
vars == <<stage, lanes, active, flags, budget, stopped>>

Init ==
    /\ stage = [r \in Runs |-> "new"]
    /\ line = [l \in Lanes |-> <<>>]
    /\ serving = [l \in Lanes |-> {}]
    /\ active = [s \in Sessions |-> None]
    /\ aborted = {} /\ late = {} /\ signalled = {}
    /\ fallbacks \in 0..MaxFallbacks
    /\ rotations = [r \in Runs |-> Rotations]
    /\ models = [r \in Runs |-> IF Kind[r] = "compact" THEN 0 ELSE fallbacks]
    /\ refreshed = {} /\ prompted = {} /\ stopped = {}

Goes(r, from, to) == stage[r] = from /\ stage' = [stage EXCEPT ![r] = to]

Enqueue(r, lane) == line' = [line EXCEPT ![lane] = Append(@, r)]

\* resolveGlobalLane and resolveNestedAgentLane: the runs of cron jobs do not
\* take the lane that their job holds.
AgentLaneFaulty(r) == IF Kind[r] = "compact" THEN "main" ELSE Kind[r]

AgentLane(r) ==
    IF Kind[r] = "compact" THEN "main"
    ELSE IF Kind[r] = "cron" THEN "nested" ELSE Kind[r]

-----------------------------------------------------------------------------
(* Taking the lanes *)

\* A message, a spawned subagent, a step of an agent, or a manual run of a job.
Request(r) ==
    /\ Kind[r] # "compact"
    /\ IF Kind[r] = "cron"
       THEN Goes(r, "new", "cron") /\ Enqueue(r, "cron")
       ELSE Goes(r, "new", "session") /\ Enqueue(r, SessionOf[r])
    /\ UNCHANGED <<serving, active, flags, budget, stopped>>

\* The head of a line takes a free slot.  Its command is called at once and, but
\* for the last one, enqueues the next, for whose end it waits.
TakesSlot(r, lane, next) ==
    /\ line[lane] # <<>> /\ r = Head(line[lane])
    /\ Cardinality(serving[lane]) < Width[lane]
    /\ serving' = [serving EXCEPT ![lane] = @ \cup {r}]
    /\ line' = IF next = None
               THEN [line EXCEPT ![lane] = Tail(@)]
               ELSE [line EXCEPT ![lane] = Tail(@), ![next] = Append(@, r)]
    /\ UNCHANGED <<active, flags, budget, stopped>>

StartCronJob(r) == Goes(r, "cron", "session") /\ TakesSlot(r, "cron", SessionOf[r])

StartInSession(r) == Goes(r, "session", "global") /\ TakesSlot(r, SessionOf[r], AgentLane(r))

StartInGlobal(r) ==
    /\ Goes(r, "global", IF Kind[r] = "compact" THEN "compacting" ELSE "between")
    /\ TakesSlot(r, AgentLane(r), None)

-----------------------------------------------------------------------------
(* Attempts *)

\* runEmbeddedAttempt registers the run.  The signal of a cron job that timed out
\* aborts an attempt at once.
BeginAttempt(r) ==
    /\ Goes(r, "between", "attempt")
    /\ active' = [active EXCEPT ![SessionOf[r]] = r]
    /\ aborted' = aborted \cup ({r} \cap signalled)
    /\ late' = late \cup ({r} \cap signalled)
    /\ UNCHANGED <<lanes, signalled, budget, stopped>>

TimeRunsOut(r) ==
    /\ stage[r] \in {"attempt", "asking"} /\ r \notin late
    /\ aborted' = aborted \cup {r} /\ late' = late \cup {r}
    /\ stopped' = stopped \ {r}
    /\ UNCHANGED <<stage, lanes, active, signalled, budget>>

\* sessions_send: an agent asks another one, in the nested lane, and waits for
\* its answer, as long as its patience lasts.
Ask(r, other) ==
    /\ r # other /\ Kind[other] = "nested"
    /\ stage[r] = "attempt" /\ stage[other] = "new"
    /\ stage' = [stage EXCEPT ![r] = "asking", ![other] = "session"]
    /\ Enqueue(other, SessionOf[other])
    /\ UNCHANGED <<serving, active, flags, budget, stopped>>

AskEnds(r) ==
    /\ Goes(r, "asking", "attempt")
    /\ UNCHANGED <<lanes, active, flags, budget, stopped>>

\* clearActiveEmbeddedRun at the end of an attempt, which had its own flags, or
\* nothing to clear between two attempts.
Unregister(r) ==
    /\ stage[r] \in {"attempt", "asking", "between"}
    /\ active' = [active EXCEPT ![SessionOf[r]] = IF @ = r THEN None ELSE @]
    /\ aborted' = aborted \ {r} /\ late' = late \ {r}
    /\ UNCHANGED signalled

\* To try another auth profile, a compaction or a simpler way of thinking, an attempt
\* that was aborted is not repeated, unless its time ran out.
MayRepeatFaulty(r) == TRUE

MayRepeat(r) == r \notin aborted \/ r \in late

Repeat(r) ==
    /\ Unregister(r) /\ stage[r] # "between"
    /\ MayRepeat(r) /\ rotations[r] > 0
    /\ rotations' = [rotations EXCEPT ![r] = @ - 1]
    /\ refreshed' = refreshed \ {r}
    /\ stage' = [stage EXCEPT ![r] = "between"]
    /\ UNCHANGED <<lanes, models, fallbacks, prompted, stopped>>

\* maybeRefreshCopilotForAuthError: the model refused the token, and the attempt is
\* repeated with a new one, not twice in a row; also one that was aborted.
RefreshToken(r) ==
    /\ r \in Copilot /\ Unregister(r) /\ stage[r] # "between"
    /\ r \notin refreshed /\ refreshed' = refreshed \cup {r}
    /\ stage' = [stage EXCEPT ![r] = "between"]
    /\ stopped' = stopped \ {r}
    /\ UNCHANGED <<lanes, rotations, models, fallbacks, prompted>>

\* The run gives its lanes back; the job, if it has one, keeps the cron lane.
LeavesLanesFaulty(r) ==
    serving' = [l \in Lanes |-> IF l \in {"cron", SessionOf[r]} THEN serving[l]
                                ELSE serving[l] \ {r}]

LeavesLanes(r) == serving' = [l \in Lanes |-> IF l = "cron" THEN serving[l] ELSE serving[l] \ {r}]

\* runWithModelFallback: a run that failed is called again with another model,
\* and queues anew.
FallBack(r) ==
    /\ Unregister(r)
    /\ stage[r] = "between" \/ MayRepeat(r)
    /\ models[r] > 0 /\ r \notin signalled
    /\ models' = [models EXCEPT ![r] = @ - 1]
    /\ refreshed' = refreshed \ {r}
    /\ stage' = [stage EXCEPT ![r] = "session"]
    /\ LeavesLanes(r) /\ Enqueue(r, SessionOf[r])
    /\ UNCHANGED <<rotations, fallbacks, prompted, stopped>>

\* A cron job whose run only said that it would begin prompts it once more, aborted
\* or not, unless the job timed out.  The run has all models again.
PromptAgain(r) ==
    /\ Kind[r] = "cron" /\ r \notin signalled \cup prompted
    /\ Unregister(r) /\ stage[r] # "between"
    /\ prompted' = prompted \cup {r}
    /\ models' = [models EXCEPT ![r] = fallbacks]
    /\ refreshed' = refreshed \ {r}
    /\ stage' = [stage EXCEPT ![r] = "session"]
    /\ LeavesLanes(r) /\ Enqueue(r, SessionOf[r])
    /\ stopped' = stopped \ {r}
    /\ UNCHANGED <<rotations, fallbacks>>

LeavesAll(r) == serving' = [l \in Lanes |-> serving[l] \ {r}]

\* It succeeded, was aborted, or failed for good; what its call counted is gone with it.
Finish(r) ==
    /\ Unregister(r)
    /\ stage' = [stage EXCEPT ![r] = "done"]
    /\ LeavesAll(r)
    /\ rotations' = [rotations EXCEPT ![r] = 0] /\ models' = [models EXCEPT ![r] = 0]
    /\ refreshed' = refreshed \ {r} /\ prompted' = prompted \ {r}
    /\ stopped' = stopped \ {r}
    /\ UNCHANGED <<line, fallbacks>>

\* executeJobCoreWithTimeout gives up waiting: the cron lane is free, and the run
\* is told by a signal that it hears in an attempt.
JobTimesOut(r) ==
    /\ r \in serving["cron"] /\ r \notin signalled
    /\ serving' = [serving EXCEPT !["cron"] = @ \ {r}]
    /\ signalled' = signalled \cup {r}
    /\ LET hears == {r} \cap {u \in Runs : stage[u] \in {"attempt", "asking"}}
       IN aborted' = aborted \cup hears /\ late' = late \cup hears
    /\ stopped' = stopped \ {r}
    /\ UNCHANGED <<stage, line, active, budget>>

-----------------------------------------------------------------------------
(* Stops and compactions *)

AbortedIn(s) == {active[s]} \ {None}

InLine(s) == {r \in Runs : stage[r] = "session" /\ SessionOf[r] = s}

\* A run that is cleared from a line has failed for the model fallback, which calls
\* it with the next model, if there is one and its job did not time out.
Resubmits(r) == models[r] > 0 /\ r \notin signalled

\* clearCommandLane of the session's lane, and the retries of the cleared runs, which
\* come in any order: chains of promises of different lengths lead there.
Clears(s) ==
    \E again \in SetToSeqs({r \in InLine(s) : Resubmits(r)}) : line' = [line EXCEPT ![s] = again]

\* /stop, an interrupting message, sessions.reset and the end of a subagent:
\* abortEmbeddedPiRun, and the session's lane is cleared.
Stop(s) ==
    /\ AbortedIn(s) \cup InLine(s) # {}
    /\ LET again == {r \in InLine(s) : Resubmits(r)}
           gone == InLine(s) \ again
       IN /\ Clears(s)
          /\ stage' = [r \in Runs |-> IF r \in gone THEN "done" ELSE stage[r]]
          /\ models' = [r \in Runs |-> IF r \in again THEN models[r] - 1 ELSE models[r]]
          /\ serving' = [serving EXCEPT !["cron"] = @ \ gone]
          /\ stopped' = stopped \cup (AbortedIn(s) \ late) \cup again
    /\ aborted' = aborted \cup AbortedIn(s)
    /\ UNCHANGED <<active, late, signalled, rotations, fallbacks, refreshed, prompted>>

\* handleCompactCommand aborts the run at work and waits for its end, for a while.
RequestCompact(r) ==
    /\ Kind[r] = "compact"
    /\ LET s == SessionOf[r]
       IN /\ IF active[s] = None
             THEN Goes(r, "new", "session") /\ Enqueue(r, s)
             ELSE Goes(r, "new", "aborting") /\ UNCHANGED line
          /\ aborted' = aborted \cup AbortedIn(s)
          /\ stopped' = stopped \cup (AbortedIn(s) \ late)
    /\ UNCHANGED <<serving, active, late, signalled, budget>>

CompactQueuesFaulty(r) ==
    /\ Goes(r, "aborting", "compacting")
    /\ UNCHANGED <<lanes, active, flags, budget, stopped>>

CompactQueues(r) ==
    /\ Goes(r, "aborting", "session")
    /\ Enqueue(r, SessionOf[r])
    /\ UNCHANGED <<serving, active, flags, budget, stopped>>

EndCompaction(r) ==
    /\ Goes(r, "compacting", "done")
    /\ LeavesAll(r)
    /\ UNCHANGED <<line, active, flags, budget, stopped>>

-----------------------------------------------------------------------------
Proceed(r) ==
    \/ StartCronJob(r) \/ StartInSession(r) \/ StartInGlobal(r)
    \/ BeginAttempt(r) \/ AskEnds(r) \/ CompactQueues(r)
    \/ Repeat(r) \/ RefreshToken(r) \/ FallBack(r) \/ PromptAgain(r)
    \/ Finish(r) \/ EndCompaction(r)

Next ==
    \/ \E r \in Runs :
         \/ Request(r) \/ RequestCompact(r) \/ TimeRunsOut(r) \/ JobTimesOut(r)
         \/ Proceed(r)
         \/ \E other \in Runs : Ask(r, other)
    \/ \E s \in Sessions : Stop(s)

Spec == Init /\ [][Next]_vars

\* Lanes are pumped and timers fire; an attempt and a compaction have a limit of
\* time.  Cron jobs need have none.
FairSpec == Spec /\ \A r \in Runs : WF_vars(Proceed(r))
=============================================================================
