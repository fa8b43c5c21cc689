---------------------------- MODULE AgentRunsProofs ----------------------------
(* What AgentRunsProperties says of agent runs, proved for any runs, sessions,  *)
(* numbers of slots of the global lanes, retries and fallback models.           *)
EXTENDS AgentRunsProperties, FiniteSetTheorems, TLAPS

Stages == {"new", "cron", "session", "global", "between", "attempt", "asking",
           "aborting", "compacting", "done"}

\* The parts of TypeOK that the first argument needs; it needs nothing of the lines.
Typed ==
    /\ stage \in [Runs -> Stages]
    /\ serving \in [Lanes -> SUBSET Runs]
    /\ active \in [Sessions -> Runs \cup {None}]
    /\ models \in [Runs -> Nat] /\ fallbacks \in Nat
    /\ stopped \subseteq Runs

HoldsSession(r) == stage[r] = "global" \/ AtWork(r)

HoldsCron(r) == Kind[r] = "cron" /\ r \notin signalled /\ stage[r] \notin {"new", "cron", "done"}

\* Each stage of a run goes with the slots that it holds.
SessionSlots ==
    \A r \in Runs, s \in Sessions : r \in serving[s] <=> s = SessionOf[r] /\ HoldsSession(r)

GlobalSlots ==
    \A r \in Runs, l \in GlobalLanes \ {"cron"} :
        r \in serving[l] <=> l = AgentLane(r) /\ AtWork(r)

CronSlots == \A r \in Runs : r \in serving["cron"] <=> HoldsCron(r)

CronJobs ==
    \A r \in Runs :
        /\ stage[r] = "cron" => Kind[r] = "cron"
        /\ r \in signalled => stage[r] \notin {"new", "cron"}

\* A session's lane has one slot.
Alone ==
    \A r, u \in Runs :
        SessionOf[r] = SessionOf[u] /\ HoldsSession(r) /\ HoldsSession(u) => r = u

Registered ==
    \A s \in Sessions :
        active[s] # None => stage[active[s]] \in {"attempt", "asking"} /\ SessionOf[active[s]] = s

\* Without fallback models, a stopped run that none of the exceptions of `stopped' took
\* out again is in an aborted attempt, which is not repeated.
StoppedIsOver ==
    fallbacks = 0 =>
        \A r \in Runs :
            /\ models[r] = 0
            /\ r \in stopped => stage[r] \in {"attempt", "asking"} /\ r \in aborted \ late

IInv == /\ Typed
        /\ SessionSlots /\ GlobalSlots /\ CronSlots /\ CronJobs
        /\ Alone /\ Registered
        /\ StoppedIsOver

LEMMA GlobalLaneOfRun ==
    ASSUME NEW r \in Runs
    PROVE  AgentLane(r) \in GlobalLanes \ {"cron"}
  BY AgentRunsAssumption DEF AgentLane, GlobalLanes

LEMMA SessionIsLane ==
    ASSUME NEW s \in Sessions
    PROVE  s \in Lanes /\ s \notin GlobalLanes
  BY AgentRunsAssumption DEF Lanes

LEMMA SessionSlotIsFree ==
    ASSUME Typed, NEW s \in Sessions, Cardinality(serving[s]) < Width[s]
    PROVE  serving[s] = {}
  <1>1. serving[s] \in SUBSET Runs
    BY SessionIsLane DEF Typed
  <1>2. IsFiniteSet(serving[s])
    BY <1>1, FS_Subset, AgentRunsAssumption
  <1>3. Width[s] = 1
    BY AgentRunsAssumption
  <1>4. Cardinality(serving[s]) \in Nat
    BY <1>2, FS_CardinalityType
  <1>5. Cardinality(serving[s]) = 0
    BY <1>3, <1>4
  <1> QED
    BY <1>2, <1>5, FS_EmptySet

LEMMA Starts ==
    ASSUME Init
    PROVE  IInv
  <1>1. Typed
    BY AgentRunsAssumption DEF Init, Typed, Stages
  <1>2. SessionSlots /\ GlobalSlots /\ CronSlots
    BY SessionIsLane DEF Init, SessionSlots, GlobalSlots, CronSlots, HoldsSession, HoldsCron,
       AtWork, Lanes, GlobalLanes
  <1>3. CronJobs /\ Alone /\ Registered
    BY DEF Init, CronJobs, Alone, Registered, HoldsSession, AtWork
  <1>4. StoppedIsOver
    BY DEF Init, StoppedIsOver
  <1> QED
    BY <1>1, <1>2, <1>3, <1>4 DEF IInv

LEMMA RequestKeeps ==
    ASSUME IInv, NEW r \in Runs, Request(r)
    PROVE  IInv'
  <1>1. Typed'
    BY DEF IInv, Typed, Request, Goes, Stages, budget
  <1>2. SessionSlots'
    BY DEF IInv, Typed, SessionSlots, Request, Goes, HoldsSession, AtWork
  <1>3. GlobalSlots'
    BY DEF IInv, Typed, GlobalSlots, Request, Goes, AtWork
  <1>4. CronSlots'
    BY DEF IInv, Typed, CronSlots, Request, Goes, HoldsCron, flags
  <1>5. CronJobs'
    BY DEF IInv, Typed, CronJobs, Request, Goes, flags
  <1>6. Alone'
    BY DEF IInv, Typed, Alone, Request, Goes, HoldsSession, AtWork
  <1>7. Registered'
    BY DEF IInv, Typed, Registered, Request, Goes
  <1>8. StoppedIsOver'
    BY DEF IInv, Typed, StoppedIsOver, Request, Goes, flags, budget
  <1> QED
    BY <1>1, <1>2, <1>3, <1>4, <1>5, <1>6, <1>7, <1>8 DEF IInv

LEMMA StartCronJobKeeps ==
    ASSUME IInv, NEW r \in Runs, StartCronJob(r)
    PROVE  IInv'
  <1>1. Typed'
    BY DEF IInv, Typed, StartCronJob, Goes, TakesSlot, Stages, budget
  <1>2. SessionSlots'
    BY SessionIsLane DEF IInv, Typed, SessionSlots, StartCronJob, Goes, TakesSlot,
       HoldsSession, AtWork, GlobalLanes
  <1>3. GlobalSlots'
    BY DEF IInv, Typed, GlobalSlots, StartCronJob, Goes, TakesSlot, AtWork
  <1>4. CronSlots'
    BY DEF IInv, Typed, CronSlots, StartCronJob, Goes, TakesSlot, HoldsCron, flags, Lanes,
       GlobalLanes, CronJobs
  <1>5. CronJobs'
    BY DEF IInv, CronJobs, StartCronJob, Goes, TakesSlot, flags
  <1>6. Alone'
    BY DEF IInv, Alone, StartCronJob, Goes, HoldsSession, AtWork
  <1>7. Registered'
    BY DEF IInv, Registered, StartCronJob, Goes, TakesSlot
  <1>8. StoppedIsOver'
    BY DEF IInv, StoppedIsOver, StartCronJob, Goes, TakesSlot, flags, budget
  <1> QED
    BY <1>1, <1>2, <1>3, <1>4, <1>5, <1>6, <1>7, <1>8 DEF IInv

LEMMA StartInSessionKeeps ==
    ASSUME IInv, NEW r \in Runs, StartInSession(r)
    PROVE  IInv'
  <1>1. Typed'
    BY DEF IInv, Typed, StartInSession, Goes, TakesSlot, Stages, budget
  <1>2. SessionSlots'
    BY DEF IInv, Typed, SessionSlots, StartInSession, Goes, TakesSlot, HoldsSession, AtWork,
       Lanes
  <1>3. GlobalSlots'
    <2>1. SessionOf[r] \in Sessions /\ serving' = [serving EXCEPT ![SessionOf[r]] = @ \cup {r}]
      BY AgentRunsAssumption DEF StartInSession, TakesSlot
    <2>2. \A l \in GlobalLanes : serving'[l] = serving[l]
      BY <2>1, SessionIsLane DEF IInv, Typed, Lanes
    <2>3. \A u \in Runs : AtWork(u)' <=> AtWork(u)
      BY DEF IInv, Typed, StartInSession, Goes, AtWork
    <2> QED
      BY <2>2, <2>3 DEF IInv, GlobalSlots
  <1>4. CronSlots'
    BY AgentRunsAssumption DEF IInv, Typed, CronSlots, StartInSession, Goes, TakesSlot,
       HoldsCron, flags, Lanes, GlobalLanes
  <1>5. CronJobs'
    BY DEF IInv, CronJobs, StartInSession, Goes, TakesSlot, flags
  <1>6. Alone'
    <2>1. SessionOf[r] \in Sessions /\ Cardinality(serving[SessionOf[r]]) < Width[SessionOf[r]]
      BY AgentRunsAssumption DEF StartInSession, TakesSlot
    <2>2. serving[SessionOf[r]] = {}
      BY <2>1, SessionSlotIsFree DEF IInv
    <2>3. \A u \in Runs : SessionOf[u] = SessionOf[r] => ~HoldsSession(u)
      BY <2>1, <2>2 DEF IInv, SessionSlots
    <2>4. \A u \in Runs : u # r => stage'[u] = stage[u]
      BY DEF IInv, Typed, StartInSession, Goes
    <2>5. \A u \in Runs : u # r /\ HoldsSession(u)' => HoldsSession(u)
      BY <2>4 DEF HoldsSession, AtWork
    <2> QED
      BY <2>3, <2>5 DEF IInv, Alone
  <1>7. Registered'
    BY DEF IInv, Registered, StartInSession, Goes, TakesSlot
  <1>8. StoppedIsOver'
    BY DEF IInv, StoppedIsOver, StartInSession, Goes, TakesSlot, flags, budget
  <1> QED
    BY <1>1, <1>2, <1>3, <1>4, <1>5, <1>6, <1>7, <1>8 DEF IInv

LEMMA StartInGlobalKeeps ==
    ASSUME IInv, NEW r \in Runs, StartInGlobal(r)
    PROVE  IInv'
  <1>1. Typed'
    BY DEF IInv, Typed, StartInGlobal, Goes, TakesSlot, Stages, budget
  <1>2. SessionSlots'
    BY SessionIsLane, GlobalLaneOfRun DEF IInv, Typed, SessionSlots, StartInGlobal, Goes,
       TakesSlot, HoldsSession, AtWork
  <1>3. GlobalSlots'
    BY DEF IInv, Typed, GlobalSlots, StartInGlobal, Goes, TakesSlot, AtWork, Lanes
  <1>4. CronSlots'
    BY DEF IInv, Typed, CronSlots, StartInGlobal, Goes, TakesSlot, HoldsCron, flags, AgentLane
  <1>5. CronJobs'
    BY DEF IInv, CronJobs, StartInGlobal, Goes, TakesSlot, flags
  <1>6. Alone'
    BY DEF IInv, Alone, StartInGlobal, Goes, HoldsSession, AtWork
  <1>7. Registered'
    BY DEF IInv, Registered, StartInGlobal, Goes, TakesSlot
  <1>8. StoppedIsOver'
    BY DEF IInv, StoppedIsOver, StartInGlobal, Goes, TakesSlot, flags, budget
  <1> QED
    BY <1>1, <1>2, <1>3, <1>4, <1>5, <1>6, <1>7, <1>8 DEF IInv

LEMMA BeginAttemptKeeps ==
    ASSUME IInv, NEW r \in Runs, BeginAttempt(r)
    PROVE  IInv'
  <1>1. Typed'
    BY DEF IInv, Typed, BeginAttempt, Goes, Stages, lanes, budget
  <1>2. SessionSlots'
    BY DEF IInv, Typed, SessionSlots, BeginAttempt, Goes, HoldsSession, AtWork, lanes
  <1>3. GlobalSlots'
    BY DEF IInv, GlobalSlots, BeginAttempt, Goes, AtWork, lanes
  <1>4. CronSlots'
    BY DEF IInv, CronSlots, BeginAttempt, Goes, HoldsCron, lanes
  <1>5. CronJobs'
    BY DEF IInv, CronJobs, BeginAttempt, Goes
  <1>6. Alone'
    BY DEF IInv, Alone, BeginAttempt, Goes, HoldsSession, AtWork
  <1>7. Registered'
    BY DEF IInv, Typed, Registered, BeginAttempt, Goes
  <1>8. StoppedIsOver'
    BY DEF IInv, StoppedIsOver, BeginAttempt, Goes, budget
  <1> QED
    BY <1>1, <1>2, <1>3, <1>4, <1>5, <1>6, <1>7, <1>8 DEF IInv

LEMMA TimeRunsOutKeeps ==
    ASSUME IInv, NEW r \in Runs, TimeRunsOut(r)
    PROVE  IInv'
  <1>1. Typed'
    BY DEF IInv, Typed, TimeRunsOut, lanes, budget
  <1>2. SessionSlots'
    BY DEF IInv, SessionSlots, TimeRunsOut, HoldsSession, AtWork, lanes
  <1>3. GlobalSlots'
    BY DEF IInv, GlobalSlots, TimeRunsOut, AtWork, lanes
  <1>4. CronSlots'
    BY DEF IInv, CronSlots, TimeRunsOut, HoldsCron, lanes
  <1>5. CronJobs'
    BY DEF IInv, CronJobs, TimeRunsOut
  <1>6. Alone'
    BY DEF IInv, Alone, TimeRunsOut, HoldsSession, AtWork
  <1>7. Registered'
    BY DEF IInv, Registered, TimeRunsOut
  <1>8. StoppedIsOver'
    BY DEF IInv, StoppedIsOver, TimeRunsOut, budget
  <1> QED
    BY <1>1, <1>2, <1>3, <1>4, <1>5, <1>6, <1>7, <1>8 DEF IInv

LEMMA AskEndsKeeps ==
    ASSUME IInv, NEW r \in Runs, AskEnds(r)
    PROVE  IInv'
  <1>1. Typed'
    BY DEF IInv, Typed, AskEnds, Goes, Stages, lanes, budget
  <1>2. SessionSlots'
    BY DEF IInv, Typed, SessionSlots, AskEnds, Goes, HoldsSession, AtWork, lanes
  <1>3. GlobalSlots'
    BY DEF IInv, GlobalSlots, AskEnds, Goes, AtWork, lanes
  <1>4. CronSlots'
    BY DEF IInv, CronSlots, AskEnds, Goes, HoldsCron, lanes, flags
  <1>5. CronJobs'
    BY DEF IInv, CronJobs, AskEnds, Goes, flags
  <1>6. Alone'
    BY DEF IInv, Alone, AskEnds, Goes, HoldsSession, AtWork
  <1>7. Registered'
    BY DEF IInv, Registered, AskEnds, Goes
  <1>8. StoppedIsOver'
    BY DEF IInv, StoppedIsOver, AskEnds, Goes, flags, budget
  <1> QED
    BY <1>1, <1>2, <1>3, <1>4, <1>5, <1>6, <1>7, <1>8 DEF IInv

LEMMA RepeatKeeps ==
    ASSUME IInv, NEW r \in Runs, Repeat(r)
    PROVE  IInv'
  <1>1. Typed'
    BY DEF IInv, Typed, Repeat, Unregister, Stages, lanes
  <1>2. SessionSlots'
    BY DEF IInv, Typed, SessionSlots, Repeat, Unregister, HoldsSession, AtWork, lanes
  <1>3. GlobalSlots'
    BY DEF IInv, Typed, GlobalSlots, Repeat, Unregister, AtWork, lanes
  <1>4. CronSlots'
    BY DEF IInv, Typed, CronSlots, Repeat, Unregister, HoldsCron, lanes
  <1>5. CronJobs'
    BY DEF IInv, CronJobs, Repeat, Unregister
  <1>6. Alone'
    BY DEF IInv, Alone, Repeat, Unregister, HoldsSession, AtWork
  <1>7. Registered'
    BY DEF IInv, Typed, Registered, Repeat, Unregister
  <1>8. StoppedIsOver'
    BY DEF IInv, StoppedIsOver, Repeat, Unregister, MayRepeat
  <1> QED
    BY <1>1, <1>2, <1>3, <1>4, <1>5, <1>6, <1>7, <1>8 DEF IInv

LEMMA RefreshTokenKeeps ==
    ASSUME IInv, NEW r \in Runs, RefreshToken(r)
    PROVE  IInv'
  <1>1. Typed'
    BY DEF IInv, Typed, RefreshToken, Unregister, Stages, lanes
  <1>2. SessionSlots'
    BY DEF IInv, Typed, SessionSlots, RefreshToken, Unregister, HoldsSession, AtWork, lanes
  <1>3. GlobalSlots'
    BY DEF IInv, Typed, GlobalSlots, RefreshToken, Unregister, AtWork, lanes
  <1>4. CronSlots'
    BY DEF IInv, Typed, CronSlots, RefreshToken, Unregister, HoldsCron, lanes
  <1>5. CronJobs'
    BY DEF IInv, CronJobs, RefreshToken, Unregister
  <1>6. Alone'
    BY DEF IInv, Alone, RefreshToken, Unregister, HoldsSession, AtWork
  <1>7. Registered'
    BY DEF IInv, Typed, Registered, RefreshToken, Unregister
  <1>8. StoppedIsOver'
    BY DEF IInv, Typed, StoppedIsOver, RefreshToken, Unregister
  <1> QED
    BY <1>1, <1>2, <1>3, <1>4, <1>5, <1>6, <1>7, <1>8 DEF IInv

LEMMA FallBackKeeps ==
    ASSUME IInv, NEW r \in Runs, FallBack(r)
    PROVE  IInv'
  <1>1. Typed'
    <2>1. models' \in [Runs -> Nat]
      BY DEF IInv, Typed, FallBack
    <2>2. serving' \in [Lanes -> SUBSET Runs]
      BY DEF IInv, Typed, FallBack, LeavesLanes
    <2>3. stage' \in [Runs -> Stages] /\ active' \in [Sessions -> Runs \cup {None}]
      BY AgentRunsAssumption DEF IInv, Typed, FallBack, Unregister, Stages
    <2> QED
      BY <2>1, <2>2, <2>3 DEF IInv, Typed, FallBack
  <1>2. SessionSlots'
    BY SessionIsLane DEF IInv, Typed, SessionSlots, FallBack, LeavesLanes, HoldsSession,
       AtWork, GlobalLanes
  <1>3. GlobalSlots'
    BY DEF IInv, Typed, GlobalSlots, FallBack, LeavesLanes, AtWork, Lanes
  <1>4. CronSlots'
    BY DEF IInv, Typed, CronSlots, FallBack, Unregister, LeavesLanes, HoldsCron, Lanes,
       GlobalLanes
  <1>5. CronJobs'
    BY DEF IInv, CronJobs, FallBack, Unregister
  <1>6. Alone'
    BY DEF IInv, Alone, FallBack, HoldsSession, AtWork
  <1>7. Registered'
    BY DEF IInv, Typed, Registered, FallBack, Unregister
  <1>8. StoppedIsOver'
    BY DEF IInv, StoppedIsOver, FallBack
  <1> QED
    BY <1>1, <1>2, <1>3, <1>4, <1>5, <1>6, <1>7, <1>8 DEF IInv

LEMMA PromptAgainKeeps ==
    ASSUME IInv, NEW r \in Runs, PromptAgain(r)
    PROVE  IInv'
  <1>1. Typed'
    <2>1. models' \in [Runs -> Nat]
      BY DEF IInv, Typed, PromptAgain
    <2>2. serving' \in [Lanes -> SUBSET Runs]
      BY DEF IInv, Typed, PromptAgain, LeavesLanes
    <2>3. stage' \in [Runs -> Stages] /\ active' \in [Sessions -> Runs \cup {None}]
      BY AgentRunsAssumption DEF IInv, Typed, PromptAgain, Unregister, Stages
    <2> QED
      BY <2>1, <2>2, <2>3 DEF IInv, Typed, PromptAgain
  <1>2. SessionSlots'
    BY SessionIsLane DEF IInv, Typed, SessionSlots, PromptAgain, LeavesLanes, HoldsSession,
       AtWork, GlobalLanes
  <1>3. GlobalSlots'
    BY DEF IInv, Typed, GlobalSlots, PromptAgain, LeavesLanes, AtWork, Lanes
  <1>4. CronSlots'
    BY DEF IInv, Typed, CronSlots, PromptAgain, Unregister, LeavesLanes, HoldsCron, Lanes,
       GlobalLanes
  <1>5. CronJobs'
    BY DEF IInv, CronJobs, PromptAgain, Unregister
  <1>6. Alone'
    BY DEF IInv, Alone, PromptAgain, HoldsSession, AtWork
  <1>7. Registered'
    BY DEF IInv, Typed, Registered, PromptAgain, Unregister
  <1>8. StoppedIsOver'
    BY DEF IInv, Typed, StoppedIsOver, PromptAgain, Unregister
  <1> QED
    BY <1>1, <1>2, <1>3, <1>4, <1>5, <1>6, <1>7, <1>8 DEF IInv

LEMMA FinishKeeps ==
    ASSUME IInv, NEW r \in Runs, Finish(r)
    PROVE  IInv'
  <1>1. Typed'
    <2>1. models' \in [Runs -> Nat]
      BY DEF IInv, Typed, Finish
    <2>2. serving' \in [Lanes -> SUBSET Runs]
      BY DEF IInv, Typed, Finish, LeavesAll
    <2>3. stage' \in [Runs -> Stages] /\ active' \in [Sessions -> Runs \cup {None}]
      BY AgentRunsAssumption DEF IInv, Typed, Finish, Unregister, Stages
    <2> QED
      BY <2>1, <2>2, <2>3 DEF IInv, Typed, Finish
  <1>2. SessionSlots'
    BY DEF IInv, Typed, SessionSlots, Finish, LeavesAll, HoldsSession, AtWork, Lanes
  <1>3. GlobalSlots'
    BY DEF IInv, Typed, GlobalSlots, Finish, LeavesAll, AtWork, Lanes
  <1>4. CronSlots'
    BY DEF IInv, Typed, CronSlots, Finish, Unregister, LeavesAll, HoldsCron, Lanes,
       GlobalLanes
  <1>5. CronJobs'
    BY DEF IInv, CronJobs, Finish, Unregister
  <1>6. Alone'
    BY DEF IInv, Alone, Finish, HoldsSession, AtWork
  <1>7. Registered'
    BY DEF IInv, Typed, Registered, Finish, Unregister
  <1>8. StoppedIsOver'
    BY DEF IInv, StoppedIsOver, Finish, Unregister
  <1> QED
    BY <1>1, <1>2, <1>3, <1>4, <1>5, <1>6, <1>7, <1>8 DEF IInv

LEMMA JobTimesOutKeeps ==
    ASSUME IInv, NEW r \in Runs, JobTimesOut(r)
    PROVE  IInv'
  <1>1. Typed'
    BY DEF IInv, Typed, JobTimesOut, budget
  <1>2. SessionSlots'
    BY SessionIsLane DEF IInv, SessionSlots, JobTimesOut, HoldsSession, AtWork, GlobalLanes
  <1>3. GlobalSlots'
    BY DEF IInv, GlobalSlots, JobTimesOut, AtWork
  <1>4. CronSlots'
    BY DEF IInv, Typed, CronSlots, JobTimesOut, HoldsCron, Lanes, GlobalLanes
  <1>5. CronJobs'
    BY DEF IInv, CronJobs, JobTimesOut, CronSlots, HoldsCron
  <1>6. Alone'
    BY DEF IInv, Alone, JobTimesOut, HoldsSession, AtWork
  <1>7. Registered'
    BY DEF IInv, Registered, JobTimesOut
  <1>8. StoppedIsOver'
    BY DEF IInv, StoppedIsOver, JobTimesOut, budget
  <1> QED
    BY <1>1, <1>2, <1>3, <1>4, <1>5, <1>6, <1>7, <1>8 DEF IInv

LEMMA RequestCompactKeeps ==
    ASSUME IInv, NEW r \in Runs, RequestCompact(r)
    PROVE  IInv'
  <1>1. Typed'
    BY AgentRunsAssumption DEF IInv, Typed, RequestCompact, Goes, AbortedIn, Stages, budget
  <1>2. SessionSlots'
    BY DEF IInv, Typed, SessionSlots, RequestCompact, Goes, HoldsSession, AtWork
  <1>3. GlobalSlots'
    BY DEF IInv, Typed, GlobalSlots, RequestCompact, Goes, AtWork
  <1>4. CronSlots'
    BY DEF IInv, Typed, CronSlots, RequestCompact, Goes, HoldsCron
  <1>5. CronJobs'
    BY DEF IInv, Typed, CronJobs, RequestCompact, Goes
  <1>6. Alone'
    BY DEF IInv, Typed, Alone, RequestCompact, Goes, HoldsSession, AtWork
  <1>7. Registered'
    BY DEF IInv, Typed, Registered, RequestCompact, Goes
  <1>8. StoppedIsOver'
    BY AgentRunsAssumption DEF IInv, Typed, StoppedIsOver, RequestCompact, Goes, AbortedIn,
       budget, Registered
  <1> QED
    BY <1>1, <1>2, <1>3, <1>4, <1>5, <1>6, <1>7, <1>8 DEF IInv

LEMMA CompactQueuesKeeps ==
    ASSUME IInv, NEW r \in Runs, CompactQueues(r)
    PROVE  IInv'
  <1>1. Typed'
    BY DEF IInv, Typed, CompactQueues, Goes, Stages, budget
  <1>2. SessionSlots'
    BY DEF IInv, Typed, SessionSlots, CompactQueues, Goes, HoldsSession, AtWork
  <1>3. GlobalSlots'
    BY DEF IInv, GlobalSlots, CompactQueues, Goes, AtWork
  <1>4. CronSlots'
    BY DEF IInv, CronSlots, CompactQueues, Goes, HoldsCron, flags
  <1>5. CronJobs'
    BY DEF IInv, CronJobs, CompactQueues, Goes, flags
  <1>6. Alone'
    BY DEF IInv, Alone, CompactQueues, Goes, HoldsSession, AtWork
  <1>7. Registered'
    BY DEF IInv, Registered, CompactQueues, Goes
  <1>8. StoppedIsOver'
    BY DEF IInv, StoppedIsOver, CompactQueues, Goes, flags, budget
  <1> QED
    BY <1>1, <1>2, <1>3, <1>4, <1>5, <1>6, <1>7, <1>8 DEF IInv

LEMMA EndCompactionKeeps ==
    ASSUME IInv, NEW r \in Runs, EndCompaction(r)
    PROVE  IInv'
  <1>1. Typed'
    BY DEF IInv, Typed, EndCompaction, Goes, LeavesAll, Stages, budget
  <1>2. SessionSlots'
    BY DEF IInv, Typed, SessionSlots, EndCompaction, Goes, LeavesAll, HoldsSession, AtWork,
       Lanes
  <1>3. GlobalSlots'
    BY DEF IInv, Typed, GlobalSlots, EndCompaction, Goes, LeavesAll, AtWork, Lanes
  <1>4. CronSlots'
    BY DEF IInv, Typed, CronSlots, EndCompaction, Goes, LeavesAll, HoldsCron, flags, Lanes,
       GlobalLanes
  <1>5. CronJobs'
    BY DEF IInv, CronJobs, EndCompaction, Goes, flags
  <1>6. Alone'
    BY DEF IInv, Alone, EndCompaction, Goes, HoldsSession, AtWork
  <1>7. Registered'
    BY DEF IInv, Registered, EndCompaction, Goes
  <1>8. StoppedIsOver'
    BY DEF IInv, StoppedIsOver, EndCompaction, Goes, flags, budget
  <1> QED
    BY <1>1, <1>2, <1>3, <1>4, <1>5, <1>6, <1>7, <1>8 DEF IInv

LEMMA AskKeeps ==
    ASSUME IInv, NEW r \in Runs, NEW other \in Runs, Ask(r, other)
    PROVE  IInv'
  <1>1. Typed'
    BY DEF IInv, Typed, Ask, Stages, budget
  <1>2. SessionSlots'
    BY DEF IInv, Typed, SessionSlots, Ask, HoldsSession, AtWork
  <1>3. GlobalSlots'
    BY DEF IInv, Typed, GlobalSlots, Ask, AtWork
  <1>4. CronSlots'
    BY DEF IInv, Typed, CronSlots, Ask, HoldsCron, flags
  <1>5. CronJobs'
    BY DEF IInv, Typed, CronJobs, Ask, flags
  <1>6. Alone'
    BY DEF IInv, Typed, Alone, Ask, HoldsSession, AtWork
  <1>7. Registered'
    BY DEF IInv, Typed, Registered, Ask
  <1>8. StoppedIsOver'
    BY DEF IInv, Typed, StoppedIsOver, Ask, flags, budget
  <1> QED
    BY <1>1, <1>2, <1>3, <1>4, <1>5, <1>6, <1>7, <1>8 DEF IInv

LEMMA StopKeeps ==
    ASSUME IInv, NEW s \in Sessions, Stop(s)
    PROVE  IInv'
  <1>1. Typed'
    <2>1. models' \in [Runs -> Nat]
      BY DEF IInv, Typed, Stop, Resubmits
    <2>2. serving' \in [Lanes -> SUBSET Runs]
      BY DEF IInv, Typed, Stop
    <2>3. stage' \in [Runs -> Stages] /\ active' \in [Sessions -> Runs \cup {None}]
      BY DEF IInv, Typed, Stop, Stages
    <2>4. stopped' \subseteq Runs /\ fallbacks' \in Nat
      BY DEF IInv, Typed, Stop, AbortedIn, InLine
    <2> QED
      BY <2>1, <2>2, <2>3, <2>4 DEF Typed
  <1>2. SessionSlots'
    BY DEF IInv, Typed, SessionSlots, Stop, InLine, HoldsSession, AtWork
  <1>3. GlobalSlots'
    BY DEF IInv, Typed, GlobalSlots, Stop, InLine, AtWork
  <1>4. CronSlots'
    BY DEF IInv, Typed, CronSlots, Stop, HoldsCron, Lanes, GlobalLanes
  <1>5. CronJobs'
    BY DEF IInv, CronJobs, Stop
  <1>6. Alone'
    BY DEF IInv, Alone, Stop, HoldsSession, AtWork
  <1>7. Registered'
    BY DEF IInv, Typed, Registered, Stop, InLine
  <1>8. StoppedIsOver'
    BY DEF IInv, StoppedIsOver, Stop, AbortedIn, InLine, Resubmits, Registered
  <1> QED
    BY <1>1, <1>2, <1>3, <1>4, <1>5, <1>6, <1>7, <1>8 DEF IInv

LEMMA IInvIsKept ==
    ASSUME IInv, [Next]_vars
    PROVE  IInv'
  <1>1. CASE UNCHANGED vars
    BY <1>1 DEF vars, lanes, flags, budget, IInv, Typed, SessionSlots, GlobalSlots, CronSlots,
       CronJobs, Alone, Registered, StoppedIsOver, HoldsSession, HoldsCron, AtWork
  <1>2. CASE \E s \in Sessions : Stop(s)
    BY <1>2, StopKeeps
  <1>3. ASSUME NEW r \in Runs, Proceed(r)
        PROVE  IInv'
    BY <1>3, StartCronJobKeeps, StartInSessionKeeps, StartInGlobalKeeps, BeginAttemptKeeps,
       AskEndsKeeps, CompactQueuesKeeps, RepeatKeeps, RefreshTokenKeeps, FallBackKeeps,
       PromptAgainKeeps, FinishKeeps, EndCompactionKeeps DEF Proceed
  <1>4. ASSUME NEW r \in Runs, Request(r) \/ RequestCompact(r) \/ TimeRunsOut(r) \/ JobTimesOut(r)
        PROVE  IInv'
    BY <1>4, RequestKeeps, RequestCompactKeeps, TimeRunsOutKeeps, JobTimesOutKeeps
  <1>5. ASSUME NEW r \in Runs, NEW other \in Runs, Ask(r, other)
        PROVE  IInv'
    BY <1>5, AskKeeps
  <1> QED
    BY <1>1, <1>2, <1>3, <1>4, <1>5 DEF Next

LEMMA IInvHolds == Spec => []IInv
  BY Starts, IInvIsKept, PTL DEF Spec

\* At any time one run or compaction of a session is at work, and it is the one that
\* a stop would abort: the session's lane has one slot, which a run keeps from there
\* to its end or its next model, by whatever way it came (run.ts:273).
THEOREM SessionsRunOneByOne == Spec => []OneRunPerSession
  <1>1. ASSUME IInv
        PROVE  OneRunPerSession
    BY <1>1 DEF IInv, Alone, Registered, HoldsSession, OneRunPerSession
  <1> QED
    BY <1>1, IInvHolds, PTL

\* Holders of global slots are at work, holders of session slots are at work or wait
\* for those, and cron jobs wait for either: no run waits for itself, because the
\* runs of cron jobs take another lane than the job (lanes.ts:10).
LEMMA WaitingIsOrdered ==
    ASSUME IInv
    PROVE  NoCircularWait
  <1> SUFFICES ASSUME NEW S \in SUBSET Runs, Deadlocked(Holders, S)
               PROVE  FALSE
    BY DEF NoCircularWait
  <1>1. \A r \in S : Holders[r] # {} /\ Holders[r] \subseteq S
    BY DEF Deadlocked
  <1>2. \A r \in S : Waiting(r) /\ Holders[r] = serving[InLineOf(r)]
    BY <1>1 DEF Holders
  <1>3. \A r \in S : ~AtWork(r)
    BY <1>2 DEF Waiting, AtWork
  <1>4. \A r \in S : stage[r] # "global"
    <2> SUFFICES ASSUME NEW r \in S, stage[r] = "global"
                 PROVE  FALSE
      OBVIOUS
    <2>1. Holders[r] = serving[AgentLane(r)]
      BY <1>2 DEF InLineOf
    <2>2. PICK u \in S : u \in serving[AgentLane(r)]
      BY <1>1, <2>1
    <2> QED
      BY <1>3, <2>2, GlobalLaneOfRun DEF IInv, GlobalSlots
  <1>5. \A r \in S : stage[r] # "session"
    <2> SUFFICES ASSUME NEW r \in S, stage[r] = "session"
                 PROVE  FALSE
      OBVIOUS
    <2>1. Holders[r] = serving[SessionOf[r]]
      BY <1>2 DEF InLineOf
    <2>2. PICK u \in S : u \in serving[SessionOf[r]]
      BY <1>1, <2>1
    <2>3. SessionOf[r] \in Sessions
      BY AgentRunsAssumption
    <2> QED
      BY <1>3, <1>4, <2>2, <2>3 DEF IInv, SessionSlots, HoldsSession
  <1>6. \A r \in S : stage[r] = "cron"
    BY <1>2, <1>4, <1>5 DEF Waiting
  <1>7. PICK r \in S : TRUE
    BY DEF Deadlocked
  <1>8. Holders[r] = serving["cron"]
    BY <1>2, <1>6, <1>7 DEF InLineOf
  <1>9. PICK u \in S : u \in serving["cron"]
    BY <1>1, <1>7, <1>8
  <1> QED
    BY <1>6, <1>9 DEF IInv, CronSlots, HoldsCron

THEOREM RunsNeverWaitInACircle == Spec => []NoCircularWait
  BY IInvHolds, WaitingIsOrdered, PTL

\* Where no fallback models are configured, a stop that finds a run in its session's
\* line or in an attempt is the end of its calls of the model, but for the exceptions
\* that `stopped' leaves out: its time or its job's time runs out as well, its token is
\* refreshed, or its job prompts it again.  Neither another profile nor a compaction nor
\* another way into a line brings it back (run.ts:1401, model-fallback.ts:707).
THEOREM StoppedRunsAreOver == Spec => StoppedCallsNoMore
  <1>1. ASSUME IInv, fallbacks = 0, NEW r \in stopped
        PROVE  ~BeginsAttempt(r)
    BY <1>1 DEF IInv, Typed, StoppedIsOver, BeginsAttempt
  <1>2. ASSUME IInv
        PROVE  fallbacks = 0 => \A r \in stopped : ~BeginsAttempt(r)
    BY <1>1, <1>2
  <1> QED
    BY <1>2, IInvHolds, PTL DEF StoppedCallsNoMore

-----------------------------------------------------------------------------
(* Lines.  Who waits is told by the stages; who is in line, by the sequences. *)

WaitsIn(r, l) ==
    \/ stage[r] = "cron" /\ l = "cron"
    \/ stage[r] = "session" /\ l = SessionOf[r]
    \/ stage[r] = "global" /\ l = AgentLane(r)

Waiters == [l \in Lanes |-> {r \in Runs : WaitsIn(r, l)}]

\* Of any lines and those who are in them.
LinesOf(L, W) ==
    /\ L \in [Lanes -> Seq(Runs)] /\ W \in [Lanes -> SUBSET Runs]
    /\ \A l \in Lanes : IsInjective(L[l]) /\ Range(L[l]) = W[l]

Lines == LinesOf(line, Waiters)

LEMMA WaitsWhere ==
    ASSUME NEW r \in Runs, NEW l
    PROVE  WaitsIn(r, l) <=> Waiting(r) /\ l = InLineOf(r)
  BY DEF WaitsIn, Waiting, InLineOf

LEMMA LanesOfRun ==
    ASSUME NEW r \in Runs
    PROVE  /\ "cron" \in Lanes /\ SessionOf[r] \in Lanes /\ AgentLane(r) \in Lanes
           /\ SessionOf[r] \in Sessions
           /\ \A s \in Sessions : s # "cron" /\ s # AgentLane(r)
           /\ AgentLane(r) # "cron"
  BY AgentRunsAssumption, GlobalLaneOfRun DEF Lanes, GlobalLanes

LEMMA AppendResult ==
    ASSUME NEW q \in Seq(Runs), IsInjective(q), NEW r \in Runs, r \notin Range(q)
    PROVE  /\ Append(q, r) \in Seq(Runs) /\ IsInjective(Append(q, r))
           /\ Range(Append(q, r)) = Range(q) \cup {r}
  <1> DEFINE p == Append(q, r)
  <1>1. /\ p \in Seq(Runs) /\ Len(p) = Len(q) + 1 /\ Len(q) \in Nat
        /\ DOMAIN p = 1..(Len(q) + 1) /\ DOMAIN q = 1..Len(q)
        /\ p[Len(q) + 1] = r /\ \A i \in 1..Len(q) : p[i] = q[i]
    OBVIOUS
  <1>2. \A i \in 1..Len(q) : q[i] # r
    BY <1>1 DEF Range
  <1>3. \A i \in 1..(Len(q) + 1) : i \in 1..Len(q) \/ i = Len(q) + 1
    BY <1>1
  <1> HIDE DEF p
  <1>4. IsInjective(p)
    BY <1>1, <1>2, <1>3 DEF IsInjective
  <1>5. Range(p) \subseteq Range(q) \cup {r}
    BY <1>1, <1>3 DEF Range
  <1>6. Range(q) \cup {r} \subseteq Range(p)
    <2>1. 1..Len(q) \subseteq 1..(Len(q) + 1) /\ Len(q) + 1 \in 1..(Len(q) + 1)
      BY <1>1
    <2> QED
      BY <1>1, <2>1 DEF Range
  <1> QED
    BY <1>1, <1>4, <1>5, <1>6 DEF p

LEMMA TailResult ==
    ASSUME NEW q \in Seq(Runs), IsInjective(q), q # <<>>
    PROVE  /\ Tail(q) \in Seq(Runs) /\ IsInjective(Tail(q))
           /\ Head(q) \in Range(q) /\ Range(Tail(q)) = Range(q) \ {Head(q)}
  <1> DEFINE p == Tail(q)
  <1>1. /\ p \in Seq(Runs) /\ Len(q) \in Nat \ {0}
        /\ DOMAIN p = 1..(Len(q) - 1) /\ DOMAIN q = 1..Len(q)
        /\ Head(q) = q[1] /\ \A i \in 1..(Len(q) - 1) : p[i] = q[i + 1]
    OBVIOUS
  <1> HIDE DEF p
  <1>2. \A i \in 1..(Len(q) - 1) : i + 1 \in 1..Len(q) /\ i + 1 # 1
    BY <1>1
  <1>3. \A i \in 1..Len(q) : i = 1 \/ (i - 1 \in 1..(Len(q) - 1) /\ (i - 1) + 1 = i)
    BY <1>1
  <1>4. 1 \in 1..Len(q)
    BY <1>1
  <1>5. IsInjective(p)
    <2> SUFFICES ASSUME NEW i \in DOMAIN p, NEW j \in DOMAIN p, p[i] = p[j]
                 PROVE  i = j
      BY DEF IsInjective
    <2>1. i + 1 = j + 1
      BY <1>1, <1>2 DEF IsInjective
    <2> QED
      BY <1>1, <2>1
  <1>6. Range(p) \subseteq Range(q) \ {q[1]}
    <2> SUFFICES ASSUME NEW i \in DOMAIN p
                 PROVE  p[i] \in Range(q) /\ p[i] # q[1]
      BY DEF Range
    <2> QED
      BY <1>1, <1>2, <1>4 DEF IsInjective, Range
  <1>7. Range(q) \ {q[1]} \subseteq Range(p)
    <2> SUFFICES ASSUME NEW i \in DOMAIN q, q[i] # q[1]
                 PROVE  q[i] \in Range(p)
      BY DEF Range
    <2>1. i - 1 \in DOMAIN p /\ p[i - 1] = q[i]
      BY <1>1, <1>3
    <2> QED
      BY <2>1 DEF Range
  <1> QED
    BY <1>1, <1>4, <1>5, <1>6, <1>7 DEF p, Range

LEMMA AnyOrderResult ==
    ASSUME NEW S \in SUBSET Runs, NEW q \in SetToSeqs(S)
    PROVE  q \in Seq(Runs) /\ IsInjective(q) /\ Range(q) = S
  <1>1. IsFiniteSet(S)
    BY FS_Subset, AgentRunsAssumption
  <1> DEFINE n == Cardinality(S)
  <1>2. n \in Nat
    BY <1>1, FS_CardinalityType
  <1>3. q \in [1..n -> S] /\ IsInjective(q)
    BY DEF SetToSeqs, IsInjective
  <1>4. IsFiniteSet(1..n) /\ Cardinality(1..n) = n
    BY <1>2, FS_Interval
  <1>5. q \in Surjection(1..n, S)
    BY <1>1, <1>3, <1>4, FS_Injection DEF Injection
  <1>6. Range(q) = S
    BY <1>3, <1>5 DEF Surjection, Range
  <1> QED
    BY <1>2, <1>3, <1>6

LEMMA AppendLine ==
    ASSUME NEW L, NEW W, LinesOf(L, W), NEW l \in Lanes, NEW r \in Runs, r \notin W[l]
    PROVE  LinesOf([L EXCEPT ![l] = Append(@, r)], [W EXCEPT ![l] = @ \cup {r}])
  BY AppendResult DEF LinesOf

LEMMA TailLine ==
    ASSUME NEW L, NEW W, LinesOf(L, W), NEW l \in Lanes, L[l] # <<>>
    PROVE  /\ Head(L[l]) \in W[l]
           /\ LinesOf([L EXCEPT ![l] = Tail(@)], [W EXCEPT ![l] = @ \ {Head(L[l])}])
  BY TailResult DEF LinesOf

LEMMA NewLine ==
    ASSUME NEW L, NEW W, LinesOf(L, W), NEW l \in Lanes,
           NEW S \in SUBSET Runs, NEW q \in SetToSeqs(S)
    PROVE  LinesOf([L EXCEPT ![l] = q], [W EXCEPT ![l] = S])
  BY AnyOrderResult DEF LinesOf

\* A run that waits nowhere goes to the end of a line, and all others stay.
LEMMA JoinKeeps ==
    ASSUME Lines, NEW r \in Runs, NEW l \in Lanes,
           line' = [line EXCEPT ![l] = Append(@, r)],
           ~Waiting(r),
           \A m \in Lanes : WaitsIn(r, m)' <=> m = l,
           \A u \in Runs, m \in Lanes : u # r => (WaitsIn(u, m)' <=> WaitsIn(u, m))
    PROVE  Lines'
  <1>1. r \notin Waiters[l]
    BY WaitsWhere DEF Waiters
  <1>2. Waiters' = [Waiters EXCEPT ![l] = @ \cup {r}]
    <2> DEFINE N == [Waiters EXCEPT ![l] = @ \cup {r}]
    <2>1. \A m \in Lanes : ~WaitsIn(r, m)
      BY WaitsWhere
    <2>2. \A m \in Lanes : {u \in Runs : WaitsIn(u, m)'} = N[m]
      BY <2>1 DEF Waiters
    <2> QED
      BY <2>2 DEF Waiters
  <1> QED
    BY <1>1, <1>2, AppendLine DEF Lines

LEMMA StayKeeps ==
    ASSUME Lines, line' = line,
           \A u \in Runs, m \in Lanes : WaitsIn(u, m)' <=> WaitsIn(u, m)
    PROVE  Lines'
  <1>1. Waiters' = Waiters
    BY DEF Waiters
  <1> QED
    BY <1>1 DEF Lines

\* The head of a line goes to the end of the next one.
LEMMA AdvanceKeeps ==
    ASSUME Lines, NEW r \in Runs, NEW l \in Lanes, NEW n \in Lanes, l # n,
           line[l] # <<>>, r = Head(line[l]),
           line' = [line EXCEPT ![l] = Tail(@), ![n] = Append(@, r)],
           ~WaitsIn(r, n),
           \A m \in Lanes : WaitsIn(r, m) => m = l,
           \A m \in Lanes : WaitsIn(r, m)' <=> m = n,
           \A u \in Runs, m \in Lanes : u # r => (WaitsIn(u, m)' <=> WaitsIn(u, m))
    PROVE  Lines'
  <1> DEFINE L == [line EXCEPT ![l] = Tail(@)]
             W == [Waiters EXCEPT ![l] = @ \ {r}]
  <1>1. LinesOf(L, W)
    BY TailLine DEF Lines
  <1>2. line' = [L EXCEPT ![n] = Append(@, r)]
    BY DEF Lines, LinesOf
  <1>3. r \notin W[n]
    BY DEF Waiters
  <1>4. \A m \in Lanes : {u \in Runs : WaitsIn(u, m)'} = [W EXCEPT ![n] = @ \cup {r}][m]
    BY DEF Waiters
  <1>5. Waiters' = [W EXCEPT ![n] = @ \cup {r}]
    BY <1>4 DEF Waiters
  <1> HIDE DEF L, W
  <1>6. LinesOf([L EXCEPT ![n] = Append(@, r)], [W EXCEPT ![n] = @ \cup {r}])
    BY <1>1, <1>3, AppendLine
  <1> QED
    BY <1>2, <1>5, <1>6 DEF Lines

LEMMA LeaveKeeps ==
    ASSUME Lines, NEW r \in Runs, NEW l \in Lanes,
           line[l] # <<>>, r = Head(line[l]),
           line' = [line EXCEPT ![l] = Tail(@)],
           \A m \in Lanes : WaitsIn(r, m) => m = l,
           \A m \in Lanes : ~WaitsIn(r, m)',
           \A u \in Runs, m \in Lanes : u # r => (WaitsIn(u, m)' <=> WaitsIn(u, m))
    PROVE  Lines'
  <1>1. \A m \in Lanes : {u \in Runs : WaitsIn(u, m)'} = [Waiters EXCEPT ![l] = @ \ {r}][m]
    BY DEF Waiters
  <1>2. Waiters' = [Waiters EXCEPT ![l] = @ \ {r}]
    BY <1>1 DEF Waiters
  <1> QED
    BY <1>2, TailLine DEF Lines

LEMMA StopLines ==
    ASSUME IInv, Lines, NEW s \in Sessions, Stop(s)
    PROVE  Lines'
  <1> DEFINE again == {r \in InLine(s) : Resubmits(r)}
             gone == InLine(s) \ again
  <1>1. PICK q \in SetToSeqs(again) : line' = [line EXCEPT ![s] = q]
    BY DEF Stop, Clears
  <1>2. again \in SUBSET Runs /\ s \in Lanes
    BY SessionIsLane DEF InLine
  <1>3. stage' = [r \in Runs |-> IF r \in gone THEN "done" ELSE stage[r]]
    BY DEF Stop
  <1>4. \A r \in Runs : r \in InLine(s) <=> WaitsIn(r, s)
    BY LanesOfRun DEF InLine, WaitsIn
  <1>5. \A r \in Runs, m \in Lanes : r \in gone => (WaitsIn(r, m) <=> m = s)
    BY LanesOfRun DEF InLine, WaitsIn
  <1>6. \A r \in Runs, m \in Lanes :
            WaitsIn(r, m)' <=> r \notin gone /\ WaitsIn(r, m)
    BY <1>3 DEF WaitsIn, AgentLane
  <1>7. \A m \in Lanes : {u \in Runs : WaitsIn(u, m)'} = [Waiters EXCEPT ![s] = again][m]
    <2> SUFFICES ASSUME NEW m \in Lanes
                 PROVE  {u \in Runs : WaitsIn(u, m)'} = [Waiters EXCEPT ![s] = again][m]
      OBVIOUS
    <2>1. CASE m = s
      <3>1. {u \in Runs : WaitsIn(u, s)'} = again
        BY <1>2, <1>4, <1>6
      <3> QED
        BY <1>2, <2>1, <3>1 DEF Waiters
    <2>2. CASE m # s
      <3>1. \A u \in Runs : WaitsIn(u, m)' <=> WaitsIn(u, m)
        BY <1>5, <1>6, <2>2
      <3> QED
        BY <2>2, <3>1 DEF Waiters
    <2> QED
      BY <2>1, <2>2
  <1>8. Waiters' = [Waiters EXCEPT ![s] = again]
    BY <1>7 DEF Waiters
  <1> HIDE DEF again
  <1> QED
    BY <1>1, <1>2, <1>8, NewLine DEF Lines

LEMMA RunLines ==
    ASSUME IInv, Lines, NEW r \in Runs,
           Proceed(r) \/ Request(r) \/ RequestCompact(r) \/ TimeRunsOut(r) \/ JobTimesOut(r)
    PROVE  Lines'
  <1> USE LanesOfRun
  <1> stage \in [Runs -> Stages]
    BY DEF IInv, Typed
  <1>1. CASE Request(r)
    <2>1. CASE Kind[r] = "cron"
      BY <1>1, <2>1, JoinKeeps DEF Request, Goes, Enqueue, Waiting, WaitsIn, AgentLane
    <2>2. CASE Kind[r] # "cron"
      BY <1>1, <2>2, JoinKeeps DEF Request, Goes, Enqueue, Waiting, WaitsIn, AgentLane
    <2> QED
      BY <2>1, <2>2
  <1>2. CASE StartCronJob(r)
    <2>1. /\ stage[r] = "cron" /\ stage' = [stage EXCEPT ![r] = "session"]
          /\ line["cron"] # <<>> /\ r = Head(line["cron"])
          /\ line' = [line EXCEPT !["cron"] = Tail(@), ![SessionOf[r]] = Append(@, r)]
      BY <1>2, AgentRunsAssumption DEF StartCronJob, TakesSlot, Goes
    <2>2. \A m \in Lanes : (WaitsIn(r, m) <=> m = "cron") /\ (WaitsIn(r, m)' <=> m = SessionOf[r])
      BY <2>1 DEF WaitsIn, AgentLane
    <2>3. \A u \in Runs, m \in Lanes : u # r => (WaitsIn(u, m)' <=> WaitsIn(u, m))
      BY <2>1 DEF WaitsIn, AgentLane
    <2> QED
      BY <2>1, <2>2, <2>3, AdvanceKeeps
  <1>3. CASE StartInSession(r)
    <2>1. /\ stage[r] = "session" /\ stage' = [stage EXCEPT ![r] = "global"]
          /\ line[SessionOf[r]] # <<>> /\ r = Head(line[SessionOf[r]])
          /\ line' = [line EXCEPT ![SessionOf[r]] = Tail(@), ![AgentLane(r)] = Append(@, r)]
      BY <1>3, AgentRunsAssumption DEF StartInSession, TakesSlot, Goes
    <2>2. \A m \in Lanes :
              (WaitsIn(r, m) <=> m = SessionOf[r]) /\ (WaitsIn(r, m)' <=> m = AgentLane(r))
      BY <2>1 DEF WaitsIn, AgentLane
    <2>3. \A u \in Runs, m \in Lanes : u # r => (WaitsIn(u, m)' <=> WaitsIn(u, m))
      BY <2>1 DEF WaitsIn, AgentLane
    <2> QED
      BY <2>1, <2>2, <2>3, AdvanceKeeps
  <1>4. CASE StartInGlobal(r)
    <2>1. /\ stage[r] = "global"
          /\ \E at \in {"compacting", "between"} : stage' = [stage EXCEPT ![r] = at]
          /\ line[AgentLane(r)] # <<>> /\ r = Head(line[AgentLane(r)])
          /\ line' = [line EXCEPT ![AgentLane(r)] = Tail(@)]
      BY <1>4 DEF StartInGlobal, TakesSlot, Goes
    <2>2. \A m \in Lanes : (WaitsIn(r, m) => m = AgentLane(r)) /\ ~WaitsIn(r, m)'
      BY <2>1 DEF WaitsIn, AgentLane
    <2>3. \A u \in Runs, m \in Lanes : u # r => (WaitsIn(u, m)' <=> WaitsIn(u, m))
      BY <2>1 DEF WaitsIn, AgentLane
    <2> QED
      BY <2>1, <2>2, <2>3, LeaveKeeps
  <1>5. CASE BeginAttempt(r) \/ AskEnds(r) \/ EndCompaction(r)
    BY <1>5, StayKeeps
       DEF BeginAttempt, AskEnds, EndCompaction, Goes, WaitsIn, AgentLane, lanes
  <1>6. CASE Repeat(r) \/ RefreshToken(r) \/ Finish(r)
    BY <1>6, StayKeeps
       DEF Repeat, RefreshToken, Finish, Unregister, WaitsIn, AgentLane, lanes
  <1>7. CASE TimeRunsOut(r) \/ JobTimesOut(r)
    BY <1>7, StayKeeps DEF TimeRunsOut, JobTimesOut, WaitsIn, AgentLane, lanes
  <1>8. CASE FallBack(r) \/ PromptAgain(r)
    BY <1>8, JoinKeeps
       DEF FallBack, PromptAgain, Unregister, Enqueue, Waiting, WaitsIn, AgentLane
  <1>9. CASE CompactQueues(r)
    BY <1>9, JoinKeeps DEF CompactQueues, Goes, Enqueue, Waiting, WaitsIn, AgentLane
  <1>10. CASE RequestCompact(r)
    <2>1. CASE active[SessionOf[r]] = None
      BY <1>10, <2>1, JoinKeeps
         DEF RequestCompact, Goes, Enqueue, Waiting, WaitsIn, AgentLane
    <2>2. CASE active[SessionOf[r]] # None
      BY <1>10, <2>2, StayKeeps DEF RequestCompact, Goes, WaitsIn, AgentLane
    <2> QED
      BY <2>1, <2>2
  <1> QED
    BY <1>1, <1>2, <1>3, <1>4, <1>5, <1>6, <1>7, <1>8, <1>9, <1>10 DEF Proceed

LEMMA LinesAreKept ==
    ASSUME IInv, Lines, [Next]_vars
    PROVE  Lines'
  <1>1. CASE UNCHANGED vars
    BY <1>1, StayKeeps DEF vars, lanes, WaitsIn, AgentLane
  <1>2. ASSUME NEW s \in Sessions, Stop(s)
        PROVE  Lines'
    BY <1>2, StopLines
  <1>3. ASSUME NEW r \in Runs, NEW other \in Runs, Ask(r, other)
        PROVE  Lines'
    BY <1>3, JoinKeeps, LanesOfRun
       DEF IInv, Typed, Ask, Enqueue, Waiting, WaitsIn, AgentLane
  <1> QED
    BY <1>1, <1>2, <1>3, RunLines DEF Next

FlagsTyped ==
    /\ aborted \subseteq Runs /\ late \subseteq aborted /\ signalled \subseteq Runs
    /\ rotations \in [Runs -> Nat]
    /\ refreshed \subseteq Runs /\ prompted \subseteq Runs

LEMMA FlagsAreKept ==
    ASSUME IInv, FlagsTyped, [Next]_vars
    PROVE  FlagsTyped'
  <1> USE DEF FlagsTyped
  <1>1. CASE UNCHANGED vars
    BY <1>1 DEF vars, flags, budget
  <1>2. ASSUME NEW s \in Sessions, Stop(s)
        PROVE  FlagsTyped'
    BY <1>2 DEF Stop, AbortedIn, IInv, Typed
  <1>3. ASSUME NEW r \in Runs, NEW other \in Runs, Ask(r, other)
        PROVE  FlagsTyped'
    BY <1>3 DEF Ask, flags, budget
  <1>4. ASSUME NEW r \in Runs,
               Request(r) \/ RequestCompact(r) \/ TimeRunsOut(r) \/ JobTimesOut(r)
        PROVE  FlagsTyped'
    BY <1>4, LanesOfRun DEF Request, RequestCompact, TimeRunsOut, JobTimesOut, AbortedIn,
       flags, budget, IInv, Typed
  <1>5. ASSUME NEW r \in Runs, StartCronJob(r) \/ StartInSession(r) \/ StartInGlobal(r)
        PROVE  FlagsTyped'
    BY <1>5 DEF StartCronJob, StartInSession, StartInGlobal, TakesSlot, flags, budget
  <1>6. ASSUME NEW r \in Runs,
               BeginAttempt(r) \/ AskEnds(r) \/ CompactQueues(r) \/ EndCompaction(r)
        PROVE  FlagsTyped'
    BY <1>6 DEF BeginAttempt, AskEnds, CompactQueues, EndCompaction, flags, budget
  <1>7. ASSUME NEW r \in Runs,
               Repeat(r) \/ RefreshToken(r) \/ FallBack(r) \/ PromptAgain(r) \/ Finish(r)
        PROVE  FlagsTyped'
    BY <1>7 DEF Repeat, RefreshToken, FallBack, PromptAgain, Finish, Unregister
  <1> QED
    BY <1>1, <1>2, <1>3, <1>4, <1>5, <1>6, <1>7 DEF Next, Proceed

\* Types; and the runs in line are those that wait, each in the lane of its stage and
\* there once: no way into a line, out of it, or by a stop out of it and back to it
\* (model-fallback.ts:707) loses a run or doubles it.
THEOREM TypeCorrect == Spec => []TypeOK
  <1>1. Init => Lines /\ FlagsTyped
    <2> SUFFICES ASSUME Init
                 PROVE  Lines /\ FlagsTyped
      OBVIOUS
    <2>1. \A l \in Lanes : Waiters[l] = {}
      BY DEF Init, Waiters, WaitsIn
    <2>2. Waiters \in [Lanes -> SUBSET Runs]
      BY DEF Waiters
    <2>3. Lines
      BY <2>1, <2>2 DEF Init, Lines, LinesOf, IsInjective, Range
    <2> QED
      BY <2>3, AgentRunsAssumption DEF Init, FlagsTyped
  <1>2. IInv /\ Lines /\ FlagsTyped => TypeOK
    <2> SUFFICES ASSUME IInv, Lines, FlagsTyped
                 PROVE  TypeOK
      OBVIOUS
    <2>1. \A l \in Lanes, r \in Runs : r \in Range(line[l]) <=> WaitsIn(r, l)
      BY DEF Lines, LinesOf, Waiters
    <2>2. \A l \in Lanes, r \in Runs :
              r \in Range(line[l]) <=> Waiting(r) /\ l = InLineOf(r)
      BY <2>1, WaitsWhere
    <2> QED
      BY <2>2 DEF IInv, Typed, Lines, LinesOf, FlagsTyped, TypeOK, Stages
  <1> QED
    BY <1>1, <1>2, Starts, IInvIsKept, LinesAreKept, FlagsAreKept, PTL DEF Spec
================================================================================
