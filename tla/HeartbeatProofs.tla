-------------------------- MODULE HeartbeatProofs --------------------------
(* What heartbeats satisfy, proved: of the wake layer, that runs overlap    *)
(* only by restarts and that no wake is lost or stranded, for any targets,  *)
(* handlers, runs and delays; then of the runner on top of it, that its     *)
(* heartbeats stay scheduled and keep their distance, for any agents and    *)
(* any interval.                                                            *)
EXTENDS HeartbeatWakeProperties, HeartbeatRunnerProperties, FiniteSetTheorems,
        WellFoundedInduction, TLAPS

TimerTyped == timer \in [kind : {"none", "normal", "retry"}, left : 0..RetryMs, delay : 0..RetryMs]

\* What a run works on does not matter here: any sets of batches will do.
RunsIn(B, F) == runs \in [Runs -> [batch : B, former : F, delay : 0..RetryMs]]

RunsTyped == \E B, F : RunsIn(B, F)

RegisteredTyped ==
    /\ handler \in registered \cup {NoHandler}
    /\ registered \subseteq Handlers /\ IsFiniteSet(registered)

Typed == TimerTyped /\ RunsTyped /\ RegisteredTyped

\* A handler that has no run yet may begin one more.
OverlapsAreRestarts ==
    /\ IsFiniteSet(UnderWay)
    /\ Cardinality(UnderWay) <= Cardinality(registered)
    /\ ~running /\ registered # {} => Cardinality(UnderWay) < Cardinality(registered)

\* The flag that keeps runs out is never up without one.
FlagIsARun == running => UnderWay # {}

Overlap == OverlapsAreRestarts /\ FlagIsARun

\* A timer is always set by scheduling, for a delay of the code's.
LEMMA ScheduledResult ==
    ASSUME NEW tm \in [kind : {"none", "normal", "retry"}, left : 0..RetryMs, delay : 0..RetryMs],
           NEW delay \in 0..RetryMs, NEW kind \in {"normal", "retry"}
    PROVE  /\ Scheduled(tm, delay, kind)
              \in [kind : {"none", "normal", "retry"}, left : 0..RetryMs, delay : 0..RetryMs]
           /\ Scheduled(tm, delay, kind).kind # "none"
  BY DEF Scheduled, Preempts

LEMMA DelaysAreBounded ==
    /\ 0 \in 0..RetryMs /\ CoalesceMs \in 0..RetryMs /\ RetryMs \in 0..RetryMs
    /\ NoTimer \in [kind : {"none", "normal", "retry"}, left : 0..RetryMs, delay : 0..RetryMs]
  BY HeartbeatWakeAssumption DEF NoTimer

\* The end of run r leaves no pending wake without a timer.
Ended(r) ==
    /\ runs' = [runs EXCEPT ![r] = NoRun]
    /\ ~running'
    /\ TimerTyped'
    /\ (\E t \in Targets : pending'[t] > 0) => timer'.kind # "none"
    /\ UNCHANGED <<handler, registered>>

\* Run r goes on to its next wake.
GoesOn(r) ==
    /\ runs' = [runs EXCEPT ![r].batch = Tail(@), ![r].former = Append(@, Head(runs[r].batch))]
    /\ Tail(runs[r].batch) # <<>>
    /\ TimerTyped'
    /\ UNCHANGED <<handler, registered, running>>

LEMMA RunEndsResult ==
    ASSUME Typed, NEW r \in Runs, NEW p,
           NEW tm \in [kind : {"none", "normal", "retry"}, left : 0..RetryMs, delay : 0..RetryMs],
           RunEnds(r, p, tm)
    PROVE  Ended(r)
  <1>1. runs[r].delay \in 0..RetryMs
    BY DEF Typed, RunsTyped, RunsIn
  <1> DEFINE set == Scheduled(tm, runs[r].delay, "normal")
  <1>2. /\ set \in [kind : {"none", "normal", "retry"}, left : 0..RetryMs, delay : 0..RetryMs]
        /\ set.kind # "none"
    BY <1>1, ScheduledResult
  <1>3. ~running' /\ runs' = [runs EXCEPT ![r] = NoRun] /\ UNCHANGED <<handler, registered>>
    BY DEF RunEnds
  <1>4. timer' \in {set, tm} /\ ((\E t \in Targets : pending'[t] > 0) => timer' = set)
    BY DEF RunEnds
  <1> QED
    BY <1>2, <1>3, <1>4 DEF Ended, TimerTyped

LEMMA AnswerResult ==
    ASSUME Typed, NEW r \in Runs, HandlerDone(r) \/ HandlerBusy(r) \/ HandlerThrows(r)
    PROVE  Active(r) /\ (Ended(r) \/ GoesOn(r))
  <1> DEFINE retry == Scheduled(timer, RetryMs, "retry")
  <1>1. retry \in [kind : {"none", "normal", "retry"}, left : 0..RetryMs, delay : 0..RetryMs]
    BY ScheduledResult, DelaysAreBounded DEF Typed, TimerTyped
  <1>2. ASSUME NEW p, NEW o, NEW tm \in {timer, retry}, RunGoesOn(r, p, tm, o)
        PROVE  Ended(r) \/ GoesOn(r)
    <2>1. tm \in [kind : {"none", "normal", "retry"}, left : 0..RetryMs, delay : 0..RetryMs]
      BY <1>1 DEF Typed, TimerTyped
    <2>2. CASE Tail(runs[r].batch) = <<>>
      BY <1>2, <2>1, <2>2, RunEndsResult DEF RunGoesOn
    <2>3. CASE Tail(runs[r].batch) # <<>>
      BY <1>2, <2>1, <2>3 DEF RunGoesOn, GoesOn, TimerTyped
    <2> QED
      BY <2>2, <2>3
  <1>3. CASE HandlerDone(r)
    BY <1>2, <1>3 DEF HandlerDone
  <1>4. CASE HandlerBusy(r)
    BY <1>2, <1>4 DEF HandlerBusy
  <1>5. CASE HandlerThrows(r)
    BY <1>1, <1>5, RunEndsResult DEF HandlerThrows
  <1> QED
    BY <1>3, <1>4, <1>5

\* Run r begins with the batch, which was pending.
Begins(r, batch) ==
    /\ ~Active(r) /\ ~running /\ running' /\ registered # {}
    /\ batch # <<>>
    /\ runs' = [runs EXCEPT ![r] = [batch |-> batch, former |-> <<>>, delay |-> timer.delay]]
    /\ timer' = NoTimer
    /\ UNCHANGED <<handler, registered>>

LEMMA FiresResult ==
    ASSUME Typed, TimerFires
    PROVE  \E r \in Runs : \E batch : Begins(r, batch)
  <1> DEFINE r == CHOOSE q \in Runs : ~Active(q)
  <1>1. r \in Runs /\ ~Active(r)
    BY DEF TimerFires
  <1>2. \E batch : /\ batch # <<>>
                   /\ runs' = [runs EXCEPT ![r] = [batch |-> batch, former |-> <<>>,
                                                   delay |-> timer.delay]]
    BY DEF TimerFires
  <1>3. ~running /\ running' /\ timer' = NoTimer /\ UNCHANGED <<handler, registered>>
    BY DEF TimerFires, MayRun
  <1>4. registered # {}
    BY DEF TimerFires, Typed, RegisteredTyped
  <1> QED
    BY <1>1, <1>2, <1>3, <1>4 DEF Begins

\* What becomes of the runs, and of those at work.
LEMMA RunsStep ==
    ASSUME Typed, NEW r \in Runs
    PROVE  /\ Ended(r) => RunsTyped' /\ UnderWay' = UnderWay \ {r}
           /\ GoesOn(r) => RunsTyped' /\ r \in UnderWay' /\ UnderWay' = UnderWay \cup {r}
           /\ \A batch : Begins(r, batch)
                         => RunsTyped' /\ r \notin UnderWay /\ UnderWay' = UnderWay \cup {r}
  <1>1. PICK B, F : RunsIn(B, F)
    BY DEF Typed, RunsTyped
  <1>2. ASSUME Ended(r) PROVE RunsTyped' /\ UnderWay' = UnderWay \ {r}
    <2>1. RunsIn(B \cup {<<>>}, F \cup {<<>>})'
      BY <1>1, <1>2, DelaysAreBounded DEF RunsIn, Ended, NoRun
    <2>2. runs' = [runs EXCEPT ![r] = NoRun]
      BY <1>2 DEF Ended
    <2>3. UnderWay' = UnderWay \ {r}
      BY <1>1, <2>2 DEF RunsIn, NoRun, UnderWay, Active
    <2> QED
      BY <2>1, <2>3 DEF RunsTyped
  <1>3. ASSUME GoesOn(r)
        PROVE  RunsTyped' /\ r \in UnderWay' /\ UnderWay' = UnderWay \cup {r}
    <2>1. PICK rest, former :
              runs' = [runs EXCEPT ![r].batch = rest, ![r].former = former] /\ rest # <<>>
      BY <1>3 DEF GoesOn
    <2>2. RunsIn(B \cup {rest}, F \cup {former})'
      BY <1>1, <2>1 DEF RunsIn
    <2>3. r \in UnderWay' /\ UnderWay' = UnderWay \cup {r}
      BY <1>1, <2>1 DEF RunsIn, UnderWay, Active
    <2> QED
      BY <2>2, <2>3 DEF RunsTyped
  <1>4. ASSUME NEW batch, Begins(r, batch)
        PROVE  RunsTyped' /\ r \notin UnderWay /\ UnderWay' = UnderWay \cup {r}
    <2>1. timer.delay \in 0..RetryMs
      BY DEF Typed, TimerTyped
    <2>2. RunsIn(B \cup {batch}, F \cup {<<>>})'
      BY <1>1, <1>4, <2>1 DEF RunsIn, Begins
    <2>3. r \notin UnderWay /\ UnderWay' = UnderWay \cup {r}
      BY <1>1, <1>4 DEF RunsIn, Begins, UnderWay, Active
    <2> QED
      BY <2>2, <2>3 DEF RunsTyped
  <1> QED
    BY <1>2, <1>3, <1>4

LEMMA RunsAlone == ASSUME RunsTyped, UNCHANGED runs PROVE RunsTyped' /\ UnderWay' = UnderWay
  BY DEF RunsTyped, RunsIn, UnderWay, Active

LEMMA TypedStep == Typed /\ [WakeNext]_wakeVars => Typed'
  <1> SUFFICES ASSUME Typed, [WakeNext]_wakeVars PROVE Typed'
    OBVIOUS
  <1> USE DEF Typed
  <1>1. ASSUME NEW t \in Targets, NEW p \in Priorities, NEW d \in {0, CoalesceMs}, Request(t, p, d)
        PROVE  Typed'
    <2>1. TimerTyped'
      BY <1>1, ScheduledResult, DelaysAreBounded DEF Request, TimerTyped
    <2> QED
      BY <1>1, <2>1, RunsAlone DEF Request, RegisteredTyped
  <1>2. ASSUME NEW h \in Handlers, SetHandler(h) PROVE Typed'
    <2>1. TimerTyped'
      BY <1>2, ScheduledResult, DelaysAreBounded DEF SetHandler, Rearmed, TimerTyped
    <2>2. RegisteredTyped'
      BY <1>2, FS_AddElement DEF SetHandler, RegisteredTyped
    <2> QED
      BY <1>2, <2>1, <2>2, RunsAlone DEF SetHandler
  <1>3. ASSUME NEW h \in Handlers, Dispose(h) PROVE Typed'
    BY <1>3, RunsAlone DEF Dispose, TimerTyped, RegisteredTyped
  <1>4. CASE TimerFiresIdle
    BY <1>4, RunsAlone, DelaysAreBounded DEF TimerFiresIdle, TimerTyped, RegisteredTyped
  <1>5. CASE TimerFiresWhileRunning
    <2>1. timer.kind \in {"normal", "retry"} /\ timer.delay \in 0..RetryMs
      BY <1>5 DEF TimerFiresWhileRunning, TimerTyped
    <2>2. TimerTyped'
      BY <1>5, <2>1, ScheduledResult, DelaysAreBounded DEF TimerFiresWhileRunning, TimerTyped
    <2> QED
      BY <1>5, <2>2, RunsAlone DEF TimerFiresWhileRunning, RegisteredTyped
  <1>6. CASE TimerFires
    <2>1. PICK r \in Runs : \E batch : Begins(r, batch)
      BY <1>6, FiresResult
    <2>2. PICK batch : Begins(r, batch)
      BY <2>1
    <2> QED
      BY <2>2, RunsStep, DelaysAreBounded DEF Begins, TimerTyped, RegisteredTyped
  <1>7. ASSUME NEW r \in Runs, HandlerDone(r) \/ HandlerBusy(r) \/ HandlerThrows(r)
        PROVE  Typed'
    <2>1. RunsTyped' /\ (Ended(r) \/ GoesOn(r))
      BY <1>7, AnswerResult, RunsStep
    <2> QED
      BY <2>1 DEF Ended, GoesOn, RegisteredTyped
  <1>8. CASE WakeTick
    <2>1. timer.left - 1 \in 0..RetryMs
      BY <1>8, HeartbeatWakeAssumption DEF WakeTick, TimerTyped
    <2>2. TimerTyped'
      BY <1>8, <2>1 DEF WakeTick, TimerTyped
    <2> QED
      BY <1>8, <2>2, RunsAlone DEF WakeTick, RegisteredTyped
  <1>9. CASE UNCHANGED wakeVars
    BY <1>9, RunsAlone DEF wakeVars, TimerTyped, RegisteredTyped
  <1> QED
    BY <1>1, <1>2, <1>3, <1>4, <1>5, <1>6, <1>7, <1>8, <1>9 DEF WakeNext

LEMMA OverlapStep == Typed /\ Overlap /\ [WakeNext]_wakeVars => Overlap'
  <1> SUFFICES ASSUME Typed, Overlap, [WakeNext]_wakeVars PROVE Overlap'
    OBVIOUS
  <1> USE DEF Overlap, OverlapsAreRestarts, FlagIsARun
  <1>a. /\ Cardinality(UnderWay) \in Nat /\ Cardinality(registered) \in Nat
        /\ registered = {} => Cardinality(registered) = 0
    BY FS_CardinalityType, FS_EmptySet DEF Typed, RegisteredTyped
  <1>1. ASSUME UNCHANGED <<registered, runs, running>> PROVE Overlap'
    BY <1>1 DEF UnderWay, Active
  <1>2. ASSUME NEW h \in Handlers, SetHandler(h) PROVE Overlap'
    <2>1. UnderWay' = UnderWay /\ ~running'
      BY <1>2 DEF SetHandler, UnderWay, Active
    <2>2. Cardinality(registered') = Cardinality(registered) + 1
      BY <1>2, FS_AddElement DEF SetHandler, Typed, RegisteredTyped
    <2> QED
      BY <1>a, <2>1, <2>2
  <1>3. CASE TimerFires
    <2>1. PICK r \in Runs : \E batch : Begins(r, batch)
      BY <1>3, FiresResult
    <2>2. PICK batch : Begins(r, batch)
      BY <2>1
    <2>3. UnderWay' = UnderWay \cup {r} /\ r \notin UnderWay
      BY <2>2, RunsStep
    <2>4. IsFiniteSet(UnderWay') /\ Cardinality(UnderWay') = Cardinality(UnderWay) + 1
      BY <2>3, FS_AddElement
    <2> QED
      BY <1>a, <2>2, <2>3, <2>4 DEF Begins
  <1>4. ASSUME NEW r \in Runs, HandlerDone(r) \/ HandlerBusy(r) \/ HandlerThrows(r)
        PROVE  Overlap'
    <2>1. Active(r) /\ r \in UnderWay
      BY <1>4, AnswerResult DEF UnderWay
    <2>2. CASE Ended(r)
      <3>1. UnderWay' = UnderWay \ {r} /\ ~running' /\ registered' = registered
        BY <2>2, RunsStep DEF Ended
      <3>2. IsFiniteSet(UnderWay') /\ Cardinality(UnderWay') = Cardinality(UnderWay) - 1
        BY <2>1, <3>1, FS_RemoveElement
      <3> QED
        BY <1>a, <3>1, <3>2
    <2>3. CASE GoesOn(r)
      <3>1. UnderWay' = UnderWay
        BY <2>1, <2>3, RunsStep
      <3> QED
        BY <2>3, <3>1 DEF GoesOn
    <2> QED
      BY <1>4, <2>2, <2>3, AnswerResult
  <1>5. CASE \/ \E t \in Targets, p \in Priorities, d \in {0, CoalesceMs} : Request(t, p, d)
             \/ \E h \in Handlers : Dispose(h)
             \/ TimerFiresIdle \/ TimerFiresWhileRunning \/ WakeTick
    BY <1>1, <1>5 DEF Request, Dispose, TimerFiresIdle, TimerFiresWhileRunning, WakeTick
  <1>6. CASE UNCHANGED wakeVars
    BY <1>1, <1>6 DEF wakeVars
  <1> QED
    BY <1>2, <1>3, <1>4, <1>5, <1>6 DEF WakeNext

LEMMA ScheduledStep == Typed /\ PendingIsScheduled /\ [WakeNext]_wakeVars => PendingIsScheduled'
  <1> SUFFICES ASSUME Typed, PendingIsScheduled, [WakeNext]_wakeVars PROVE PendingIsScheduled'
    OBVIOUS
  <1> USE DEF PendingIsScheduled
  <1>1. ASSUME NEW t \in Targets, NEW p \in Priorities, NEW d \in {0, CoalesceMs}, Request(t, p, d)
        PROVE  PendingIsScheduled'
    <2>1. timer'.kind # "none"
      BY <1>1, ScheduledResult, DelaysAreBounded DEF Request, Typed, TimerTyped
    <2> QED
      BY <2>1
  <1>2. ASSUME NEW h \in Handlers, SetHandler(h) PROVE PendingIsScheduled'
    <2>1. (\E t \in Targets : pending[t] > 0) => timer'.kind # "none"
      BY <1>2, ScheduledResult, DelaysAreBounded DEF SetHandler, Rearmed
    <2> QED
      BY <1>2, <2>1 DEF SetHandler
  <1>3. ASSUME NEW h \in Handlers, Dispose(h) PROVE PendingIsScheduled'
    BY <1>3 DEF Dispose, UnderWay, Active
  <1>4. CASE TimerFiresIdle
    <2>1. handler = NoHandler \/ ~\E t \in Targets : pending[t] > 0
      BY <1>4 DEF TimerFiresIdle
    <2> QED
      BY <1>4, <2>1 DEF TimerFiresIdle
  <1>5. CASE TimerFiresWhileRunning
    <2>1. timer.kind \in {"normal", "retry"} /\ timer.delay \in 0..RetryMs
      BY <1>5 DEF TimerFiresWhileRunning, Typed, TimerTyped
    <2>2. timer'.kind # "none"
      BY <1>5, <2>1, ScheduledResult, DelaysAreBounded DEF TimerFiresWhileRunning
    <2> QED
      BY <2>2
  <1>6. CASE TimerFires
    <2>1. PICK r \in Runs : \E batch : Begins(r, batch)
      BY <1>6, FiresResult
    <2>2. r \in UnderWay'
      BY <2>1, RunsStep
    <2> QED
      BY <2>2
  <1>7. ASSUME NEW r \in Runs, HandlerDone(r) \/ HandlerBusy(r) \/ HandlerThrows(r)
        PROVE  PendingIsScheduled'
    <2>1. CASE Ended(r)
      BY <2>1 DEF Ended
    <2>2. CASE GoesOn(r)
      <3>1. r \in UnderWay'
        BY <2>2, RunsStep
      <3> QED
        BY <3>1
    <2> QED
      BY <1>7, <2>1, <2>2, AnswerResult
  <1>8. CASE WakeTick
    <2>1. timer'.kind = timer.kind
      BY <1>8 DEF WakeTick, Typed, TimerTyped
    <2> QED
      BY <1>8, <2>1 DEF WakeTick, UnderWay, Active
  <1>9. CASE UNCHANGED wakeVars
    BY <1>9 DEF wakeVars, UnderWay, Active
  <1> QED
    BY <1>1, <1>2, <1>3, <1>4, <1>5, <1>6, <1>7, <1>8, <1>9 DEF WakeNext

-----------------------------------------------------------------------------
(* Wakes are kept. *)

WakesTyped ==
    /\ pending \in [Targets -> Priorities \cup {0}]
    /\ owed \in [Targets -> Priorities \cup {0}]
    /\ \A r \in Runs : runs[r].batch \in Seq(Wake) /\ runs[r].former \in Seq(Wake)

\* The batch of run r will come to a wake of target t of at least priority n.
Comes(r, t, n) ==
    \E i \in 2..Len(runs[r].batch) :
        runs[r].batch[i].target = t /\ runs[r].batch[i].priority >= n

\* The wakes o owed are among the pending wakes p or come in a batch.
KeptIn(p, o) ==
    \A t \in Targets :
        o[t] > 0 => p[t] >= o[t] \/ \E r \in UnderWay : Comes(r, t, o[t])

LEMMA PriorityTypes == Priorities \cup {0} \subseteq 0..4
  BY HeartbeatWakeAssumption

LEMMA MaxResult ==
    ASSUME NEW S \in SUBSET (0..4), S # {}
    PROVE  Max(S) \in S /\ \A y \in S : Max(S) >= y
  <1>1. \E x \in S : \A y \in S : x >= y
    <2>1. CASE 4 \in S
      BY <2>1
    <2>2. CASE 4 \notin S /\ 3 \in S
      BY <2>2
    <2>3. CASE 4 \notin S /\ 3 \notin S /\ 2 \in S
      BY <2>3
    <2>4. CASE 4 \notin S /\ 3 \notin S /\ 2 \notin S /\ 1 \in S
      BY <2>4
    <2>5. CASE 4 \notin S /\ 3 \notin S /\ 2 \notin S /\ 1 \notin S
      <3>1. \A y \in S : y = 0
        BY <2>5
      <3>2. PICK x : x \in S
        OBVIOUS
      <3>3. \A y \in S : x >= y
        BY <3>1, <3>2
      <3> QED
        BY <3>2, <3>3
    <2> QED
      BY <2>1, <2>2, <2>3, <2>4, <2>5
  <1> QED
    BY <1>1 DEF Max

LEMMA QueuedResult ==
    ASSUME NEW p \in [Targets -> Priorities \cup {0}], NEW wakes \in SUBSET Wake
    PROVE  /\ Queued(p, wakes) \in [Targets -> Priorities \cup {0}]
           /\ \A t \in Targets : Queued(p, wakes)[t] >= p[t]
           /\ \A w \in wakes : Queued(p, wakes)[w.target] >= w.priority
  <1>1. ASSUME NEW t \in Targets
        PROVE  /\ Queued(p, wakes)[t] \in Priorities \cup {0}
               /\ Queued(p, wakes)[t] >= p[t]
               /\ \A w \in wakes : w.target = t => Queued(p, wakes)[t] >= w.priority
    <2> DEFINE S == {p[t]} \cup PrioritiesOf(t, wakes)
    <2>1. S \subseteq Priorities \cup {0}
      BY DEF PrioritiesOf, Wake
    <2>2. Max(S) \in S /\ \A y \in S : Max(S) >= y
      BY <2>1, MaxResult, PriorityTypes
    <2>3. Queued(p, wakes)[t] = Max(S)
      BY DEF Queued
    <2>4. p[t] \in S /\ \A w \in wakes : w.target = t => w.priority \in S
      BY DEF PrioritiesOf
    <2> HIDE DEF S
    <2> QED
      BY <2>1, <2>2, <2>3, <2>4
  <1>2. Queued(p, wakes) = [t \in Targets |-> Queued(p, wakes)[t]]
    BY DEF Queued
  <1> QED
    BY <1>1, <1>2 DEF Wake

\* A batch has a wake for each target that has one pending.
LEMMA BatchResult ==
    ASSUME WakesTyped, NEW batch \in Batches
    PROVE  /\ batch \in Seq(Wake)
           /\ \A t \in Targets :
                pending[t] > 0 => \E i \in 1..Len(batch) :
                                     batch[i].target = t /\ batch[i].priority = pending[t]
  <1> DEFINE due == {t \in Targets : pending[t] > 0}
             D == 1..Cardinality(due)
  <1>1. IsFiniteSet(due) /\ Cardinality(due) \in Nat
    BY HeartbeatWakeAssumption, FS_Subset, FS_CardinalityType
  <1>2. PICK s \in SetToSeqs(due) :
             batch = [i \in DOMAIN s |-> [target |-> s[i], priority |-> pending[s[i]]]]
    BY DEF Batches
  <1>3. s \in [D -> due] /\ \A i, j \in D : i # j => s[i] # s[j]
    BY <1>2 DEF SetToSeqs
  <1>4. s \in Injection(D, due)
    BY <1>3 DEF Injection, IsInjective
  <1>5. Cardinality(D) = Cardinality(due) /\ IsFiniteSet(D)
    BY <1>1, FS_Interval
  <1>6. s \in Surjection(D, due)
    BY <1>1, <1>4, <1>5, FS_Injection
  <1>7. \A t \in due : \E i \in D : s[i] = t
    BY <1>6 DEF Surjection
  <1>8. batch \in Seq(Wake) /\ Len(batch) = Cardinality(due)
    <2>1. \A t \in due : pending[t] \in Priorities
      BY PriorityTypes DEF WakesTyped
    <2>2. batch \in [D -> Wake]
      BY <1>2, <1>3, <2>1 DEF Wake
    <2> HIDE DEF due
    <2> QED
      BY <1>1, <2>2
  <1>9. \A i \in D : batch[i].target = s[i] /\ batch[i].priority = pending[s[i]]
    BY <1>2, <1>3
  <1> QED
    BY <1>7, <1>8, <1>9

LEMMA CalledResult ==
    ASSUME NEW o \in [Targets -> Priorities \cup {0}], NEW wake \in Wake
    PROVE  /\ Called(o, wake) \in [Targets -> Priorities \cup {0}]
           /\ \A t \in Targets :
                Called(o, wake)[t] > 0 => /\ Called(o, wake)[t] = o[t]
                                          /\ wake.target = t => wake.priority < o[t]
  <1>1. wake.target \in Targets /\ wake.priority \in 0..4 /\ \A t \in Targets : o[t] \in 0..4
    BY PriorityTypes DEF Wake
  <1> QED
    BY <1>1 DEF Called

LEMMA OweResult ==
    ASSUME WakesTyped, NEW wake \in Wake
    PROVE  /\ Owe(wake) \in [Targets -> Priorities \cup {0}]
           /\ \A t \in Targets : \/ Owe(wake)[t] = owed[t]
                                 \/ t = wake.target /\ Owe(wake)[t] = wake.priority
  BY DEF Owe, WakesTyped, Wake

LEMMA Sequence ==
    ASSUME NEW s \in Seq(Wake), s # <<>>
    PROVE  /\ Head(s) \in Wake /\ Head(s) = s[1] /\ Tail(s) \in Seq(Wake)
           /\ Len(s) \in Nat \ {0} /\ Len(Tail(s)) = Len(s) - 1
           /\ \A i \in 1..Len(Tail(s)) : Tail(s)[i] = s[i + 1]
  OBVIOUS

\* What is owed has to be kept while a run ends.
LEMMA EndKeeps ==
    ASSUME Typed, WakesTyped, NEW r \in Runs, NEW p \in [Targets -> Priorities \cup {0}],
           NEW o \in [Targets -> Priorities \cup {0}], NEW tm, RunEnds(r, p, tm), owed' = o,
           \A t \in Targets :
              o[t] > 0 => p[t] >= o[t] \/ \E q \in UnderWay \ {r} : Comes(q, t, o[t])
    PROVE  WakesTyped' /\ WakesAreKept'
  <1>1. pending' = p /\ runs' = [runs EXCEPT ![r] = NoRun]
    BY DEF RunEnds
  <1>2. DOMAIN runs = Runs
    BY DEF Typed, RunsTyped, RunsIn
  <1>3. runs'[r] = NoRun /\ \A q \in Runs \ {r} : runs'[q] = runs[q]
    BY <1>1, <1>2
  <1>4. WakesTyped'
    BY <1>1, <1>3 DEF WakesTyped, NoRun
  <1>5. ASSUME NEW t \in Targets, o[t] > 0, ~(p[t] >= o[t])
        PROVE  \E q \in UnderWay' : \E i \in 2..Len(runs'[q].batch) :
                  runs'[q].batch[i].target = t /\ runs'[q].batch[i].priority >= o[t]
    <2>1. PICK q \in UnderWay \ {r} : Comes(q, t, o[t])
      BY <1>5
    <2>2. q \in UnderWay' /\ runs'[q] = runs[q]
      BY <1>3, <2>1 DEF UnderWay, Active
    <2> QED
      BY <2>1, <2>2 DEF Comes
  <1> QED
    BY <1>1, <1>4, <1>5 DEF WakesAreKept

LEMMA GoOnKeeps ==
    ASSUME Typed, WakesTyped, NEW r \in Runs, Active(r),
           NEW p \in [Targets -> Priorities \cup {0}],
           NEW o \in [Targets -> Priorities \cup {0}], NEW tm, RunGoesOn(r, p, tm, o),
           KeptIn(p, o)
    PROVE  WakesTyped' /\ WakesAreKept'
  <1> DEFINE batch == runs[r].batch
             rest == Tail(batch)
  <1>1. /\ batch \in Seq(Wake) /\ batch # <<>> /\ runs[r].former \in Seq(Wake)
    BY DEF WakesTyped, Active
  <1>2. /\ Head(batch) \in Wake /\ rest \in Seq(Wake)
        /\ Len(batch) \in Nat \ {0} /\ Len(rest) = Len(batch) - 1
        /\ \A i \in 1..Len(rest) : rest[i] = batch[i + 1]
    BY <1>1, Sequence
  <1>3. CASE rest = <<>>
    <2>1. RunEnds(r, p, tm) /\ owed' = o
      BY <1>3 DEF RunGoesOn
    <2> HIDE DEF rest
    <2>2. Len(batch) = 1
      BY <1>2, <1>3
    <2>3. ASSUME NEW t \in Targets, NEW n PROVE ~Comes(r, t, n)
      BY <2>2 DEF Comes
    <2> HIDE DEF batch
    <2> QED
      BY <2>1, <2>3, EndKeeps DEF KeptIn
  <1>4. CASE rest # <<>>
    <2>1. /\ runs' = [runs EXCEPT ![r].batch = rest, ![r].former = Append(@, Head(batch))]
          /\ owed' = Called(o, Head(rest)) /\ pending' = p
      BY <1>4 DEF RunGoesOn
    <2>2. DOMAIN runs = Runs /\ \E B, F : runs[r] \in [batch : B, former : F, delay : 0..RetryMs]
      BY DEF Typed, RunsTyped, RunsIn
    <2>3. /\ runs'[r].batch = rest /\ runs'[r].former = Append(runs[r].former, Head(batch))
          /\ \A q \in Runs \ {r} : runs'[q] = runs[q]
      BY <2>1, <2>2
    <2>4. Head(rest) \in Wake /\ Head(rest) = rest[1]
      BY <1>2, <1>4, Sequence
    <2>5. WakesTyped'
      <3>1. /\ pending' \in [Targets -> Priorities \cup {0}]
            /\ owed' \in [Targets -> Priorities \cup {0}]
        BY <2>1, <2>4, CalledResult
      <3>2. runs'[r].batch \in Seq(Wake) /\ runs'[r].former \in Seq(Wake)
        BY <1>1, <1>2, <2>3
      <3>3. \A q \in Runs \ {r} : runs'[q].batch \in Seq(Wake) /\ runs'[q].former \in Seq(Wake)
        BY <2>3 DEF WakesTyped
      <3> QED
        BY <3>1, <3>2, <3>3 DEF WakesTyped, Wake
    <2>6. ASSUME NEW t \in Targets, owed'[t] > 0, ~(p[t] >= owed'[t])
          PROVE  \E q \in UnderWay' : \E i \in 2..Len(runs'[q].batch) :
                    runs'[q].batch[i].target = t /\ runs'[q].batch[i].priority >= owed'[t]
      <3>1. owed'[t] = o[t] /\ (Head(rest).target = t => Head(rest).priority < o[t])
        BY <2>1, <2>4, <2>6, CalledResult
      <3>2. PICK q \in UnderWay : Comes(q, t, o[t])
        BY <2>6, <3>1 DEF KeptIn
      <3>3. CASE q # r
        <4>1. q \in UnderWay' /\ runs'[q] = runs[q]
          BY <2>3, <3>2, <3>3 DEF UnderWay, Active
        <4> QED
          BY <3>1, <3>2, <4>1 DEF Comes
      <3>4. CASE q = r
        <4>1. PICK i \in 2..Len(batch) : batch[i].target = t /\ batch[i].priority >= o[t]
          BY <3>2, <3>4 DEF Comes
        <4>2. i - 1 \in 1..Len(rest) /\ rest[i - 1] = batch[i]
          BY <1>2, <4>1
        <4>3. i - 1 # 1
          <5> SUFFICES ASSUME i - 1 = 1 PROVE FALSE
            OBVIOUS
          <5>1. Head(rest) = batch[i]
            BY <2>4, <4>2
          <5>2. batch[i].priority \in 0..4 /\ o[t] \in 0..4
            <6>1. batch[i] \in Wake
              BY <1>1, <1>2, <4>1
            <6> QED
              BY <6>1, PriorityTypes DEF Wake
          <5> QED
            BY <3>1, <4>1, <5>1, <5>2
        <4>4. r \in UnderWay'
          BY <1>4, <2>3 DEF UnderWay, Active
        <4>5. i - 1 \in 2..Len(runs'[r].batch) /\ runs'[r].batch[i - 1] = batch[i]
          BY <1>2, <2>3, <4>2, <4>3
        <4> QED
          BY <3>1, <4>1, <4>4, <4>5
      <3> QED
        BY <3>3, <3>4
    <2> QED
      BY <2>1, <2>5, <2>6 DEF WakesAreKept
  <1> QED
    BY <1>3, <1>4

LEMMA AnswerKeeps ==
    ASSUME Typed, WakesTyped, WakesAreKept, NEW r \in Runs,
           HandlerDone(r) \/ HandlerBusy(r) \/ HandlerThrows(r)
    PROVE  WakesTyped' /\ WakesAreKept'
  <1> DEFINE batch == runs[r].batch
             wake == Head(batch)
  <1>1. /\ Active(r) /\ batch \in Seq(Wake) /\ batch # <<>> /\ runs[r].former \in Seq(Wake)
    BY DEF WakesTyped, Active, HandlerDone, HandlerBusy, HandlerThrows
  <1>2. wake \in Wake /\ wake = batch[1] /\ Len(batch) \in Nat \ {0}
    BY <1>1, Sequence
  <1>3. KeptIn(pending, owed)
    BY DEF KeptIn, Comes, WakesAreKept
  <1>4. /\ pending \in [Targets -> Priorities \cup {0}]
        /\ owed \in [Targets -> Priorities \cup {0}]
    BY DEF WakesTyped
  <1>5. CASE HandlerDone(r)
    BY <1>1, <1>3, <1>4, <1>5, GoOnKeeps DEF HandlerDone
  <1>6. /\ Owe(wake) \in [Targets -> Priorities \cup {0}]
        /\ \A t \in Targets : \/ Owe(wake)[t] = owed[t]
                              \/ t = wake.target /\ Owe(wake)[t] = wake.priority
    BY <1>2, OweResult
  <1>7. \A t \in Targets : pending[t] \in 0..4 /\ owed[t] \in 0..4 /\ Owe(wake)[t] \in 0..4
    BY <1>4, <1>6, PriorityTypes
  <1>8. CASE HandlerBusy(r)
    <2> DEFINE p == Queued(pending, {wake})
    <2>1. /\ p \in [Targets -> Priorities \cup {0}]
          /\ \A t \in Targets : p[t] >= pending[t] /\ p[t] \in 0..4
          /\ p[wake.target] >= wake.priority
      BY <1>2, <1>4, QueuedResult, PriorityTypes
    <2>2. PICK tm : RunGoesOn(r, p, tm, Owe(wake))
      BY <1>8 DEF HandlerBusy
    <2> HIDE DEF p, wake
    <2>3. KeptIn(p, Owe(wake))
      <3> SUFFICES ASSUME NEW t \in Targets, Owe(wake)[t] > 0, ~(p[t] >= Owe(wake)[t])
                   PROVE  \E q \in UnderWay : Comes(q, t, Owe(wake)[t])
        BY DEF KeptIn
      <3>1. Owe(wake)[t] = owed[t]
        BY <1>6, <2>1
      <3>2. ~(pending[t] >= owed[t])
        BY <1>7, <2>1, <3>1
      <3> QED
        BY <1>3, <3>1, <3>2 DEF KeptIn
    <2> QED
      BY <1>1, <1>6, <2>1, <2>2, <2>3, GoOnKeeps
  <1>9. CASE HandlerThrows(r)
    <2> DEFINE wakes == Requeued(runs[r])
               p == Queued(pending, wakes)
    <2>1. wakes \subseteq Wake /\ \A i \in 1..Len(batch) : batch[i] \in wakes
      BY <1>1 DEF Requeued, ToSet
    <2> HIDE DEF wakes
    <2>2. /\ p \in [Targets -> Priorities \cup {0}]
          /\ \A t \in Targets : p[t] >= pending[t] /\ p[t] \in 0..4
          /\ \A w \in wakes : p[w.target] >= w.priority
      BY <1>4, <2>1, QueuedResult, PriorityTypes
    <2>3. PICK tm : RunEnds(r, p, tm) /\ owed' = Owe(wake)
      BY <1>9 DEF HandlerThrows, wakes
    <2> HIDE DEF p
    <2>4. ASSUME NEW t \in Targets, Owe(wake)[t] > 0, ~(p[t] >= Owe(wake)[t])
          PROVE  \E q \in UnderWay \ {r} : Comes(q, t, Owe(wake)[t])
      <3>1. Owe(wake)[t] = owed[t]
        <4>1. p[wake.target] >= wake.priority
          BY <1>2, <2>1, <2>2
        <4> QED
          BY <1>6, <2>4, <4>1
      <3>2. ~(pending[t] >= owed[t])
        BY <1>7, <2>2, <2>4, <3>1
      <3>3. PICK q \in UnderWay : Comes(q, t, owed[t])
        BY <1>3, <2>4, <3>1, <3>2 DEF KeptIn
      <3>4. ASSUME q = r PROVE FALSE
        <4>1. PICK i \in 2..Len(batch) : batch[i].target = t /\ batch[i].priority >= owed[t]
          BY <3>3, <3>4 DEF Comes
        <4>2. batch[i] \in wakes /\ batch[i].priority \in 0..4
          BY <1>1, <2>1, <4>1, PriorityTypes DEF Wake
        <4>3. p[t] >= batch[i].priority
          BY <2>2, <4>1, <4>2
        <4> QED
          BY <1>7, <2>2, <2>4, <3>1, <4>1, <4>2, <4>3
      <3> QED
        BY <3>1, <3>3, <3>4
    <2> QED
      BY <1>6, <2>2, <2>3, <2>4, EndKeeps
  <1> QED
    BY <1>5, <1>8, <1>9

LEMMA RequestKeeps ==
    ASSUME WakesTyped, WakesAreKept, NEW t \in Targets, NEW n \in Priorities, NEW d,
           Request(t, n, d)
    PROVE  WakesTyped' /\ WakesAreKept'
  <1> DEFINE wake == [target |-> t, priority |-> n]
             p == Queued(pending, {wake})
  <1>1. /\ pending' = p /\ runs' = runs
        /\ owed' = [owed EXCEPT ![t] = IF n > @ THEN n ELSE @]
    BY DEF Request
  <1>2. wake \in Wake /\ wake.target = t /\ wake.priority = n
    BY DEF Wake
  <1> HIDE DEF wake
  <1>3. /\ p \in [Targets -> Priorities \cup {0}]
        /\ \A u \in Targets : p[u] >= pending[u] /\ p[u] \in 0..4
        /\ p[t] >= n
    BY <1>2, QueuedResult, PriorityTypes DEF WakesTyped
  <1> HIDE DEF p
  <1>4. WakesTyped'
    BY <1>1, <1>3 DEF WakesTyped
  <1>5. ASSUME NEW u \in Targets, owed'[u] > 0, ~(pending'[u] >= owed'[u])
        PROVE  \E r \in UnderWay' : \E i \in 2..Len(runs'[r].batch) :
                  runs'[r].batch[i].target = u /\ runs'[r].batch[i].priority >= owed'[u]
    <2>1. owed'[u] = owed[u] \/ (u = t /\ owed'[u] = n)
      BY <1>1 DEF WakesTyped
    <2>2. owed'[u] = owed[u]
      BY <1>1, <1>3, <1>5, <2>1
    <2>3. ~(pending[u] >= owed[u])
      <3>1. pending[u] \in 0..4 /\ owed[u] \in 0..4
        BY PriorityTypes DEF WakesTyped
      <3> QED
        BY <1>1, <1>3, <1>5, <2>2, <3>1
    <2>4. PICK r \in UnderWay : Comes(r, u, owed[u])
      BY <1>5, <2>2, <2>3 DEF WakesAreKept, Comes
    <2> QED
      BY <1>1, <2>2, <2>4 DEF Comes, UnderWay, Active
  <1> QED
    BY <1>4, <1>5 DEF WakesAreKept

LEMMA FiresKeeps ==
    ASSUME Typed, WakesTyped, WakesAreKept, TimerFires
    PROVE  WakesTyped' /\ WakesAreKept'
  <1> DEFINE r == CHOOSE q \in Runs : ~Active(q)
  <1>1. r \in Runs /\ ~Active(r)
    BY DEF TimerFires
  <1>2. PICK batch \in Batches :
            /\ batch # <<>>
            /\ runs' = [runs EXCEPT ![r] = [batch |-> batch, former |-> <<>>,
                                            delay |-> timer.delay]]
            /\ owed' = Called(owed, Head(batch))
    BY DEF TimerFires
  <1>3. pending' = [t \in Targets |-> 0]
    BY DEF TimerFires
  <1> HIDE DEF r
  <1>4. /\ batch \in Seq(Wake)
        /\ \A t \in Targets :
             pending[t] > 0 => \E i \in 1..Len(batch) :
                                  batch[i].target = t /\ batch[i].priority = pending[t]
    BY BatchResult
  <1>5. Head(batch) \in Wake /\ Head(batch) = batch[1] /\ Len(batch) \in Nat
    BY <1>2, <1>4, Sequence
  <1>6. DOMAIN runs = Runs
    BY DEF Typed, RunsTyped, RunsIn
  <1>7. /\ runs'[r].batch = batch /\ runs'[r].former = <<>>
        /\ \A q \in Runs \ {r} : runs'[q] = runs[q]
    BY <1>1, <1>2, <1>6
  <1>8. /\ Called(owed, Head(batch)) \in [Targets -> Priorities \cup {0}]
        /\ \A t \in Targets :
             owed'[t] > 0 => /\ owed'[t] = owed[t]
                             /\ Head(batch).target = t => Head(batch).priority < owed[t]
    BY <1>2, <1>5, CalledResult DEF WakesTyped
  <1>9. WakesTyped'
    BY <1>2, <1>3, <1>4, <1>7, <1>8 DEF WakesTyped
  <1>10. ASSUME NEW t \in Targets, owed'[t] > 0
         PROVE  \E q \in UnderWay' : \E i \in 2..Len(runs'[q].batch) :
                   runs'[q].batch[i].target = t /\ runs'[q].batch[i].priority >= owed'[t]
    <2>1. pending[t] \in 0..4 /\ owed[t] \in 0..4 /\ owed'[t] = owed[t] /\ owed[t] > 0
      BY <1>8, <1>10, PriorityTypes DEF WakesTyped
    <2>2. CASE pending[t] >= owed[t]
      <3>1. PICK i \in 1..Len(batch) : batch[i].target = t /\ batch[i].priority = pending[t]
        BY <1>4, <2>1, <2>2
      <3>2. i # 1
        BY <1>5, <1>8, <1>10, <2>1, <2>2, <3>1
      <3>3. r \in UnderWay'
        BY <1>1, <1>2, <1>7 DEF UnderWay, Active
      <3> QED
        BY <1>5, <1>7, <2>1, <2>2, <3>1, <3>2, <3>3
    <2>3. CASE ~(pending[t] >= owed[t])
      <3>1. PICK q \in UnderWay : Comes(q, t, owed[t])
        BY <2>1, <2>3 DEF WakesAreKept, Comes
      <3>2. q # r
        BY <1>1, <3>1 DEF UnderWay
      <3>3. q \in UnderWay' /\ runs'[q] = runs[q]
        BY <1>7, <3>1, <3>2 DEF UnderWay, Active
      <3> QED
        BY <2>1, <3>1, <3>3 DEF Comes
    <2> QED
      BY <2>2, <2>3
  <1> QED
    BY <1>9, <1>10 DEF WakesAreKept

FlagsTyped == scheduled \in BOOLEAN /\ running \in BOOLEAN

LEMMA FlagsStep == FlagsTyped /\ [WakeNext]_wakeVars => FlagsTyped'
  <1> SUFFICES ASSUME FlagsTyped, [WakeNext]_wakeVars PROVE FlagsTyped'
    OBVIOUS
  <1> USE DEF FlagsTyped
  <1>1. CASE UNCHANGED <<scheduled, running>>
    BY <1>1
  <1>2. ASSUME NEW r \in Runs, HandlerDone(r) \/ HandlerBusy(r) \/ HandlerThrows(r)
        PROVE  FlagsTyped'
    BY <1>2 DEF HandlerDone, HandlerBusy, HandlerThrows, RunGoesOn, RunEnds
  <1>3. CASE TimerFires \/ TimerFiresIdle \/ TimerFiresWhileRunning
    BY <1>3 DEF TimerFires, TimerFiresIdle, TimerFiresWhileRunning
  <1>4. CASE \/ \E t \in Targets, p \in Priorities, d \in {0, CoalesceMs} : Request(t, p, d)
             \/ \E h \in Handlers : SetHandler(h) \/ Dispose(h)
             \/ WakeTick
    BY <1>4 DEF Request, SetHandler, Dispose, WakeTick
  <1> QED
    BY <1>1, <1>2, <1>3, <1>4 DEF WakeNext, wakeVars

Kept == WakesTyped /\ WakesAreKept

LEMMA KeptStep == Typed /\ Kept /\ [WakeNext]_wakeVars => Kept'
  <1> SUFFICES ASSUME Typed, WakesTyped, WakesAreKept, [WakeNext]_wakeVars
               PROVE  WakesTyped' /\ WakesAreKept'
    BY DEF Kept
  <1>1. ASSUME UNCHANGED <<pending, runs, owed>> PROVE WakesTyped' /\ WakesAreKept'
    BY <1>1 DEF WakesTyped, WakesAreKept, UnderWay, Active
  <1>2. CASE \E t \in Targets, p \in Priorities, d \in {0, CoalesceMs} : Request(t, p, d)
    BY <1>2, RequestKeeps
  <1>3. CASE TimerFires
    BY <1>3, FiresKeeps
  <1>4. CASE \E r \in Runs : HandlerDone(r) \/ HandlerBusy(r) \/ HandlerThrows(r)
    BY <1>4, AnswerKeeps
  <1>5. CASE \/ \E h \in Handlers : SetHandler(h) \/ Dispose(h)
             \/ TimerFiresIdle \/ TimerFiresWhileRunning \/ WakeTick
    BY <1>1, <1>5 DEF SetHandler, Dispose, TimerFiresIdle, TimerFiresWhileRunning, WakeTick
  <1>6. CASE UNCHANGED wakeVars
    BY <1>1, <1>6 DEF wakeVars
  <1> QED
    BY <1>2, <1>3, <1>4, <1>5, <1>6 DEF WakeNext

-----------------------------------------------------------------------------
(* The inductive invariant, and the theorems. *)

IInv == Typed /\ FlagsTyped /\ Overlap /\ PendingIsScheduled /\ Kept

LEMMA InitHolds == WakeInit => IInv
  <1> SUFFICES ASSUME WakeInit PROVE IInv
    OBVIOUS
  <1> USE DEF WakeInit
  <1>1. Typed
    <2>1. RunsIn({<<>>}, {<<>>})
      BY DelaysAreBounded DEF RunsIn, NoRun
    <2> QED
      BY <2>1, DelaysAreBounded, FS_EmptySet DEF Typed, TimerTyped, RunsTyped, RegisteredTyped
  <1>2. UnderWay = {}
    BY DEF UnderWay, Active, NoRun
  <1>3. Overlap
    BY <1>2, FS_EmptySet DEF Overlap, OverlapsAreRestarts, FlagIsARun
  <1>4. PendingIsScheduled
    BY DEF PendingIsScheduled
  <1>5. Kept
    <2>1. \A r \in Runs : runs[r].batch = <<>> /\ runs[r].former = <<>>
      BY DEF NoRun
    <2>2. WakesTyped
      <3>1. <<>> \in Seq(Wake)
        OBVIOUS
      <3>2. \A r \in Runs : runs[r].batch \in Seq(Wake) /\ runs[r].former \in Seq(Wake)
        BY <2>1, <3>1
      <3> QED
        BY <3>2 DEF WakesTyped
    <2>3. WakesAreKept
      BY DEF WakesAreKept
    <2> QED
      BY <2>2, <2>3 DEF Kept
  <1> QED
    BY <1>1, <1>3, <1>4, <1>5 DEF IInv, FlagsTyped

LEMMA Invariance == WakeSpec => []IInv
  <1>1. IInv /\ [WakeNext]_wakeVars => IInv'
    BY TypedStep, FlagsStep, OverlapStep, ScheduledStep, KeptStep DEF IInv
  <1> QED
    BY <1>1, InitHolds, PTL DEF WakeSpec

\* The types of the state are kept; in particular every wake in a batch is one of a target
\* with a priority that was requested.
THEOREM TypeCorrect == WakeSpec => []TypeOK
  <1>1. IInv => TypeOK
    <2> SUFFICES ASSUME IInv PROVE TypeOK
      OBVIOUS
    <2>1. PICK B, F : RunsIn(B, F)
      BY DEF IInv, Typed, RunsTyped
    <2>2. \A r \in Runs : runs[r] \in [batch : B, former : F, delay : 0..RetryMs]
      BY <2>1 DEF RunsIn
    <2>3. runs \in [Runs -> [batch : Seq(Wake), former : Seq(Wake), delay : 0..RetryMs]]
      <3>1. \A r \in Runs : runs[r].batch \in Seq(Wake) /\ runs[r].former \in Seq(Wake)
        BY DEF IInv, Kept, WakesTyped
      <3> DEFINE S == Seq(Wake)
      <3> HIDE DEF S
      <3>2. \A r \in Runs : runs[r] \in [batch : S, former : S, delay : 0..RetryMs]
        BY <2>2, <3>1 DEF S
      <3> QED
        BY <2>1, <3>2 DEF RunsIn, S
    <2>4. scheduled \in BOOLEAN /\ running \in BOOLEAN
      BY DEF IInv, FlagsTyped
    <2> QED
      BY <2>3, <2>4
         DEF IInv, Typed, TimerTyped, RegisteredTyped, Overlap, FlagIsARun, Kept, WakesTyped,
             TypeOK
  <1> QED
    BY <1>1, Invariance, PTL

\* Two runs overlap only where a restart let the later one begin: there are at
\* most as many as handlers were registered.
THEOREM RunsOverlapByRestarts == WakeSpec => []RunsExclude
  <1>1. IInv => RunsExclude
    BY DEF IInv, Overlap, OverlapsAreRestarts, RunsExclude
  <1> QED
    BY <1>1, Invariance, PTL

\* With a handler, what is pending has a timer or a run that will set one: the
\* end of every run, also by an error, looks at what came in meanwhile.
THEOREM PendingIsNeverStranded == WakeSpec => []PendingIsScheduled
  <1>1. IInv => PendingIsScheduled
    BY DEF IInv
  <1> QED
    BY <1>1, Invariance, PTL

\* The flag that keeps a second run out is up only while there is a run to take
\* it down: heartbeats do not end with a flag left behind.
THEOREM FlagHasARun == WakeSpec => [](running => UnderWay # {})
  <1>1. IInv => (running => UnderWay # {})
    BY DEF IInv, Overlap, FlagIsARun
  <1> QED
    BY <1>1, Invariance, PTL

\* What was requested for a target stays owed until a handler is called for it with at
\* least that priority; till then it is pending or comes in a batch, also when the
\* handler is busy, throws in the middle of a batch, or is replaced.
THEOREM WakesAreNeverLost == WakeSpec => []WakesAreKept
  <1>1. IInv => WakesAreKept
    BY DEF IInv, Kept
  <1> QED
    BY <1>1, Invariance, PTL
-----------------------------------------------------------------------------
(* The runner's steps are steps of the wake layer.                         *)

LEMMA Constants ==
    /\ Everyone \in Targets /\ IntervalPriority \in Priorities
    /\ Targets \ {Everyone} = Agents /\ Interval \in Nat \ {0}
  BY HeartbeatRunnerAssumption

LEMMA RunnerUsesWakes == TimerTyped /\ [Next]_vars => [WakeNext]_wakeVars
  <1> SUFFICES ASSUME TimerTyped, [Next]_vars PROVE [WakeNext]_wakeVars
    OBVIOUS
  <1>1. CASE Tick
    <2>1. CASE timer.left > 0
      <3>1. timer' = [timer EXCEPT !.left = timer.left - 1]
        BY <1>1, <2>1 DEF Tick, Monus
      <3> QED
        BY <1>1, <2>1, <3>1 DEF Tick, WakeNext, WakeTick
    <2>2. CASE ~(timer.left > 0)
      <3>1. timer.left = 0
        BY <2>2, HeartbeatWakeAssumption DEF TimerTyped
      <3>2. timer' = timer
        BY <1>1, <3>1 DEF Tick, Monus, TimerTyped
      <3> QED
        BY <1>1, <3>2 DEF Tick, wakeVars
    <2> QED
      BY <2>1, <2>2
  <1>2. CASE WakeTimerFires
    BY <1>2 DEF WakeTimerFires, WakeNext
  <1>3. CASE SetHeartbeatsEnabled \/ UNCHANGED vars
    BY <1>3 DEF SetHeartbeatsEnabled, vars
  <1>4. ASSUME NEW h \in Handlers,
               StartRunner(h) \/ StopRunner(h) \/ AlarmRings(h) \/ UpdateConfig(h)
        PROVE  [WakeNext]_wakeVars
    <2>1. StartRunner(h) => SetHandler(h)
      BY DEF StartRunner
    <2>2. StopRunner(h) => Dispose(h)
      BY DEF StopRunner
    <2>3. AlarmRings(h) => Request(Everyone, IntervalPriority, 0)
      BY DEF AlarmRings
    <2>4. UpdateConfig(h) => UNCHANGED wakeVars
      BY DEF UpdateConfig
    <2> QED
      BY <1>4, <2>1, <2>2, <2>3, <2>4, Constants DEF WakeNext
  <1>5. ASSUME NEW t \in Targets, NEW p \in Priorities \ {IntervalPriority}, OthersRequest(t, p)
        PROVE  WakeNext
    BY <1>5 DEF OthersRequest, WakeNext
  <1>6. ASSUME NEW r \in Runs, CallStep(r) PROVE [WakeNext]_wakeVars
    <2>1. SkipCall(r) \/ EndCall(r) => HandlerDone(r)
      BY DEF SkipCall, EndCall
    <2>2. BeginCall(r) => UNCHANGED wakeVars
      BY DEF BeginCall
    <2>3. ASSUME NEW a \in Agents
          PROVE  /\ HeartbeatBusy(r, a) => HandlerBusy(r)
                 /\ PassOver(r, a) \/ HeartbeatSkipped(r, a) => UNCHANGED wakeVars
                 /\ HeartbeatBegins(r, a) \/ HeartbeatEnds(r, a) => UNCHANGED wakeVars
      BY DEF PassOver, HeartbeatSkipped, HeartbeatBusy, HeartbeatBegins, HeartbeatEnds
    <2>4. CallStep(r) => HandlerDone(r) \/ HandlerBusy(r) \/ UNCHANGED wakeVars
      BY <2>1, <2>2, <2>3 DEF CallStep
    <2> QED
      BY <1>6, <2>4 DEF WakeNext
  <1> QED
    BY <1>1, <1>2, <1>3, <1>4, <1>5, <1>6 DEF Next

\* The heartbeat runner implements the wake layer: all that is proved of the layer with
\* handlers that may do anything holds of the runner's calls.
THEOREM RunnerImplementsWakeLayer == Spec => WakeSpec
  <1>1. Init => WakeInit
    BY DEF Init
  <1>2. WakeInit => TimerTyped
    BY DelaysAreBounded DEF WakeInit, TimerTyped
  <1>3. TimerTyped /\ [Next]_vars => [WakeNext]_wakeVars
    BY RunnerUsesWakes
  <1>4. IInv => TimerTyped
    BY DEF IInv, Typed
  <1>5. WakeInit => IInv
    BY InitHolds
  <1>6. IInv /\ [WakeNext]_wakeVars => IInv'
    BY TypedStep, FlagsStep, OverlapStep, ScheduledStep, KeptStep DEF IInv
  <1> QED
    BY <1>1, <1>3, <1>4, <1>5, <1>6, PTL DEF Spec, WakeSpec

-----------------------------------------------------------------------------
(* Types of the runner's state.                                            *)

\* A set of numbers has a least one.
LessThan == {p \in Nat \X Nat : p[1] < p[2]}

LEMMA LessThanWellFounded == IsWellFoundedOn(LessThan, Nat)
  BY NatLessThanWellFounded, Zenon DEF OpToRel, LessThan

LEMMA MinResult ==
    ASSUME NEW S \in SUBSET Nat, S # {}
    PROVE  Min(S) \in S
  <1>1. PICK x \in S : \A y \in S : ~ (<<y, x>> \in LessThan)
    BY LessThanWellFounded, WFMin, Zenon
  <1>2. ASSUME NEW y \in S PROVE x <= y
    <2>1. x \in Nat /\ y \in Nat
      OBVIOUS
    <2>2. ~ (<<y, x>> \in LessThan)
      BY <1>1
    <2>3. ~ (y < x)
      BY <2>1, <2>2 DEF LessThan
    <2> QED
      BY <2>1, <2>3
  <1> QED
    BY <1>2 DEF Min

\* The types of RunnerTypeOK.
AgentState == [left : 0..Interval, ran : BOOLEAN]

RunnerTyped ==
    /\ agents \in [Handlers -> [Agents -> AgentState]]
    /\ alarm \in [Handlers -> 0..Off]
    /\ stopped \subseteq registered /\ lapsed \subseteq registered \ stopped
    /\ overlapped \subseteq registered
    /\ enabled \in BOOLEAN
    /\ walk \in [Runs -> Walk]
    /\ quiet \in [Handlers -> [Agents -> 0..Interval]]

LEMMA ScheduleNextResult ==
    ASSUME RunnerTyped, NEW h \in Handlers,
           NEW as \in [Handlers -> [Agents -> AgentState]],
           ScheduleNext(h, as)
    PROVE  /\ alarm' \in [Handlers -> 0..Off]
           /\ lapsed' \subseteq lapsed
           /\ \A k \in Handlers \ {h} : alarm'[k] = alarm[k]
           /\ h \in stopped => alarm' = alarm /\ lapsed' = lapsed
           /\ h \notin stopped => alarm'[h] # Off /\ lapsed' = lapsed \ {h}
  <1> DEFINE lefts == {as[h][a].left : a \in Agents}
  <1>1. lefts \subseteq 0..Interval /\ lefts # {}
    <2>1. \A a \in Agents : as[h][a].left \in 0..Interval
      BY DEF AgentState
    <2>2. lefts \subseteq 0..Interval
      BY <2>1
    <2>3. PICK a \in Agents : TRUE
      BY HeartbeatRunnerAssumption
    <2>4. as[h][a].left \in lefts
      OBVIOUS
    <2> QED
      BY <2>2, <2>4
  <1>2. Min(lefts) \in 0..Interval
    <2> HIDE DEF lefts
    <2>1. lefts \in SUBSET Nat
      BY <1>1, Constants
    <2>2. Min(lefts) \in lefts
      BY <1>1, <2>1, MinResult
    <2> QED
      BY <1>1, <2>2
  <1>3. Min(lefts) \in 0..Off /\ Min(lefts) # Off
    <2> HIDE DEF lefts
    <2> QED
      BY <1>2, Constants DEF Off
  <1>4. CASE h \in stopped
    BY <1>4 DEF ScheduleNext, RunnerTyped
  <1>5. CASE h \notin stopped
    <2>1. alarm' = [alarm EXCEPT ![h] = Min(lefts)] /\ lapsed' = lapsed \ {h}
      BY <1>5 DEF ScheduleNext
    <2> HIDE DEF lefts
    <2> QED
      BY <1>3, <1>5, <2>1 DEF RunnerTyped
  <1> QED
    BY <1>4, <1>5

LEMMA AllAgents == SetToSeq(Agents) \in Seq(Agents)
  <1> DEFINE n == Cardinality(Agents)
  <1>1. IsFiniteSet(Agents) /\ n \in Nat
    BY HeartbeatRunnerAssumption, FS_CardinalityType
  <1>2. \E f \in [1..n -> Agents] : IsInjective(f)
    <2>1. ExistsBijection(1..n, Agents)
      BY <1>1, FS_CardinalityType
    <2>2. PICK f : f \in Bijection(1..n, Agents)
      BY <2>1 DEF ExistsBijection
    <2>3. f \in [1..n -> Agents] /\ \A i, j \in 1..n : f[i] = f[j] => i = j
      BY <2>2 DEF Bijection, Injection, IsInjective
    <2> QED
      BY <2>3 DEF IsInjective
  <1>3. SetToSeq(Agents) \in [1..n -> Agents]
    BY <1>2 DEF SetToSeq
  <1> HIDE DEF n
  <1> QED
    BY <1>1, <1>3

-----------------------------------------------------------------------------
(* Calls of the handler.                                                   *)

Begun(h) == [NoWalk EXCEPT !.at = "begin", !.by = h]

\* Agent a's heartbeat is at work in run r, and its end will count for runner h.
AtWorkFor(r, h, a) ==
    /\ walk[r].by = h /\ walk[r].at = "agent" /\ Fresh(r)
    /\ Head(walk[r].todo) = a

WalkOK(r) ==
    /\ Active(r) <=> walk[r].at # "idle"
    /\ walk[r].at = "idle" => walk[r] = NoWalk
    /\ walk[r].at # "idle" => walk[r].by \in registered
    /\ walk[r].at = "agent" => walk[r].todo # <<>>

WalksOK == \A r \in Runs : WalkOK(r)

\* A runner's calls follow one another, unless it is known to have overlapped.
CallsFollow ==
    \A r, s \in Runs :
        r # s /\ walk[r].by = walk[s].by /\ walk[r].at # "idle" => walk[r].by \in overlapped

\* An agent is due no sooner than its next heartbeat is no repetition, or its heartbeat
\* is at work.
DueIsQuiet ==
    \A h \in Handlers \ overlapped, a \in Agents :
        quiet[h][a] <= agents[h][a].left \/ \E r \in Runs : AtWorkFor(r, h, a)

\* Nor is it sooner when its schedule is advanced by a call under way.
AdvanceIsQuiet ==
    \A r \in Runs, a \in Agents :
        walk[r].at # "idle" /\ Fresh(r) /\ walk[r].by \notin overlapped
            => quiet[walk[r].by][a] <= Interval - walk[r].age

LEMMA NewWalks ==
    /\ NoWalk \in Walk /\ NoWalk.at = "idle" /\ NoWalk.by = NoHandler
    /\ NoHandler \notin Handlers
    /\ \A h \in Handlers : /\ Begun(h) \in Walk /\ Begun(h).at = "begin" /\ Begun(h).by = h
                           /\ Begun(h).age = 0
  <1>1. <<>> \in Seq(Agents) /\ {} \in SUBSET Agents /\ 0 \in 0..Interval
    BY Constants
  <1> QED
    BY <1>1, HeartbeatWakeAssumption DEF NoWalk, Walk, Begun

\* A second call of a runner is noted.
LEMMA OverlapsRecorded ==
    ASSUME registered \subseteq Handlers, overlapped \subseteq registered,
           UNCHANGED registered, WalksFollow, WalksOK'
    PROVE  /\ overlapped \subseteq overlapped' /\ overlapped' \subseteq registered'
           /\ CallsFollow'
  <1> USE NewWalks
  <1>1. overlapped' = overlapped \cup TwiceCalled(walk')
    BY DEF WalksFollow
  <1>2. TwiceCalled(walk') \subseteq registered
    <2> SUFFICES ASSUME NEW h \in Handlers, NEW r \in Runs, walk'[r].by = h
                 PROVE  h \in registered
      BY DEF TwiceCalled
    <2>1. walk'[r].at # "idle"
      BY DEF WalksOK, WalkOK
    <2> QED
      BY <2>1 DEF WalksOK, WalkOK
  <1>3. CallsFollow'
    <2> SUFFICES ASSUME NEW r \in Runs, NEW s \in Runs, r # s,
                        walk'[r].by = walk'[s].by, walk'[r].at # "idle"
                 PROVE  walk'[r].by \in overlapped'
      BY DEF CallsFollow
    <2>1. walk'[r].by \in Handlers
      BY DEF WalksOK, WalkOK
    <2> QED
      BY <1>1, <2>1 DEF TwiceCalled
  <1> QED
    BY <1>1, <1>2, <1>3

\* After an answer the handler is called for the next wake of the batch, or the run is over.
LEMMA AnswerWalk ==
    ASSUME Typed, WakesTyped, RunnerTyped, WalksOK, NEW r \in Runs,
           HandlerDone(r) \/ HandlerBusy(r), WalksFollow
    PROVE  /\ walk[r].at # "idle"
           /\ \/ walk' = [walk EXCEPT ![r] = NoWalk]
              \/ walk' = [walk EXCEPT ![r] = Begun(walk[r].by)]
           /\ walk' \in [Runs -> Walk] /\ WalksOK' /\ CallsFollow'
           /\ overlapped \subseteq overlapped' /\ overlapped' \subseteq registered'
           /\ UNCHANGED registered
  <1> USE NewWalks
  <1>1. Active(r) /\ (Ended(r) \/ GoesOn(r))
    BY AnswerResult
  <1>2. UNCHANGED registered /\ registered \subseteq Handlers
    BY <1>1 DEF Ended, GoesOn, Typed, RegisteredTyped
  <1>3. walk[r].at # "idle" /\ walk[r].by \in Handlers
    BY <1>1, <1>2 DEF WalksOK, WalkOK
  <1>4. walk \in [Runs -> Walk] /\ DOMAIN runs = Runs
    BY DEF RunnerTyped, Typed, RunsTyped, RunsIn
  <1>5. /\ \A q \in Runs \ {r} : runs'[q] = runs[q]
        /\ runs'[r] # runs[r]
        /\ runs'[r].batch = <<>> \/ runs'[r].batch # <<>>
    <2>1. runs[r].batch \in Seq(Wake) /\ runs[r].batch # <<>>
      BY <1>1 DEF WakesTyped, Active
    <2>2. Tail(runs[r].batch) # runs[r].batch
      <3>1. Len(Tail(runs[r].batch)) = Len(runs[r].batch) - 1 /\ Len(runs[r].batch) \in Nat
        BY <2>1, Sequence
      <3>2. Len(Tail(runs[r].batch)) # Len(runs[r].batch)
        BY <3>1
      <3> QED
        BY <3>2
    <2>3. CASE Ended(r)
      BY <1>4, <2>1, <2>3 DEF Ended, NoRun
    <2>4. CASE GoesOn(r)
      <3>1. PICK B, F : RunsIn(B, F)
        BY DEF Typed, RunsTyped
      <3>2. runs'[r].batch = Tail(runs[r].batch)
        BY <2>4, <3>1 DEF GoesOn, RunsIn
      <3> QED
        BY <1>4, <2>2, <2>4, <3>2 DEF GoesOn
    <2> QED
      BY <1>1, <2>3, <2>4
  <1>6. CASE runs'[r].batch = <<>>
    <2>1. walk' = [walk EXCEPT ![r] = NoWalk]
      <3>1. walk' = [q \in Runs |-> IF q = r THEN NoWalk ELSE walk[q]]
        BY <1>5, <1>6, Zenon DEF WalksFollow
      <3> QED
        BY <1>4, <3>1
    <2>2. walk' \in [Runs -> Walk]
      BY <1>4, <2>1
    <2>3. WalksOK'
      BY <1>2, <1>4, <1>5, <1>6, <2>1 DEF WalksOK, WalkOK, Active
    <2> QED
      BY <1>2, <1>3, <2>1, <2>2, <2>3, OverlapsRecorded DEF RunnerTyped
  <1>7. CASE runs'[r].batch # <<>>
    <2>1. walk' = [walk EXCEPT ![r] = Begun(walk[r].by)]
      BY <1>1, <1>4, <1>5, <1>7 DEF WalksFollow, Begun
    <2>2. walk' \in [Runs -> Walk]
      BY <1>3, <1>4, <2>1
    <2>3. WalksOK'
      <3>1. WalkOK(r)'
        BY <1>2, <1>3, <1>4, <1>7, <2>1 DEF WalksOK, WalkOK, Active
      <3>2. ASSUME NEW q \in Runs \ {r} PROVE WalkOK(q)'
        BY <1>2, <1>4, <1>5, <2>1 DEF WalksOK, WalkOK, Active
      <3> QED
        BY <3>1, <3>2 DEF WalksOK
    <2> QED
      BY <1>2, <1>3, <2>1, <2>2, <2>3, OverlapsRecorded DEF RunnerTyped
  <1> QED
    BY <1>6, <1>7

\* The wake layer's timer calls the handler for a run of its own, or for none.
LEMMA FiresWalk ==
    ASSUME Typed, RunnerTyped, WalksOK, CallsFollow, WakeTimerFires
    PROVE  /\ \/ walk' = walk
              \/ \E r \in Runs : /\ walk[r].at = "idle" /\ handler \in registered
                                 /\ walk' = [walk EXCEPT ![r] = Begun(handler)]
           /\ walk' \in [Runs -> Walk] /\ WalksOK' /\ CallsFollow'
           /\ overlapped \subseteq overlapped' /\ overlapped' \subseteq registered'
           /\ UNCHANGED registered
  <1> USE NewWalks
  <1>1. walk \in [Runs -> Walk] /\ DOMAIN runs = Runs /\ registered \subseteq Handlers
    BY DEF RunnerTyped, Typed, RunsTyped, RunsIn, RegisteredTyped
  <1>2. WalksFollow /\ (TimerFires \/ TimerFiresIdle \/ TimerFiresWhileRunning)
    BY DEF WakeTimerFires
  <1>3. CASE TimerFiresIdle \/ TimerFiresWhileRunning
    <2>1. UNCHANGED <<runs, registered>>
      BY <1>3 DEF TimerFiresIdle, TimerFiresWhileRunning
    <2>2. walk' = walk
      BY <1>1, <1>2, <2>1 DEF WalksFollow
    <2>3. WalksOK'
      BY <2>1, <2>2 DEF WalksOK, WalkOK, Active
    <2> QED
      BY <1>1, <1>2, <2>1, <2>2, <2>3, OverlapsRecorded DEF RunnerTyped
  <1>4. CASE TimerFires
    <2>1. PICK r \in Runs : \E batch : Begins(r, batch)
      BY <1>4, FiresResult
    <2>2. handler \in registered
      BY <1>4 DEF TimerFires, Typed, RegisteredTyped
    <2>3. /\ runs[r].batch = <<>> /\ runs'[r].batch # <<>>
          /\ \A q \in Runs \ {r} : runs'[q] = runs[q]
          /\ UNCHANGED registered
      BY <1>1, <2>1 DEF Begins, Active
    <2>4. walk[r].at = "idle"
      BY <2>3 DEF WalksOK, WalkOK, Active
    <2>5. walk' = [walk EXCEPT ![r] = Begun(handler)]
      BY <1>1, <1>2, <2>3 DEF WalksFollow, Active, Begun
    <2>6. walk' \in [Runs -> Walk]
      BY <1>1, <2>2, <2>5
    <2>7. WalksOK'
      <3>1. WalkOK(r)'
        BY <1>1, <2>2, <2>3, <2>5 DEF WalkOK, Active
      <3>2. ASSUME NEW q \in Runs \ {r} PROVE WalkOK(q)'
        BY <1>1, <2>3, <2>5 DEF WalksOK, WalkOK, Active
      <3> QED
        BY <3>1, <3>2 DEF WalksOK
    <2> QED
      BY <1>1, <1>2, <2>2, <2>3, <2>4, <2>5, <2>6, <2>7, OverlapsRecorded DEF RunnerTyped
  <1> QED
    BY <1>2, <1>3, <1>4

LEMMA AdvancedResult ==
    ASSUME RunnerTyped, NEW r \in Runs, NEW a \in Agents, walk[r].by \in Handlers
    PROVE  /\ Advanced(r, a) \in [Handlers -> [Agents -> AgentState]]
           /\ \A h \in Handlers, b \in Agents :
                Advanced(r, a)[h][b].left =
                   IF Fresh(r) /\ h = walk[r].by /\ b = a THEN Interval - walk[r].age
                   ELSE agents[h][b].left
  <1> DEFINE state == [left |-> Interval - walk[r].age, ran |-> TRUE]
  <1>1. walk[r].age \in 0..Interval
    BY DEF RunnerTyped, Walk
  <1>2. state \in AgentState /\ state.left = Interval - walk[r].age
    BY <1>1, Constants DEF AgentState
  <1> HIDE DEF state
  <1>3. CASE Fresh(r)
    <2>1. Advanced(r, a) = [agents EXCEPT ![walk[r].by][a] = state]
      BY <1>3 DEF Advanced, state
    <2>2. agents \in [Handlers -> [Agents -> AgentState]]
      BY DEF RunnerTyped
    <2> QED
      BY <1>2, <1>3, <2>1, <2>2
  <1>4. CASE ~Fresh(r)
    BY <1>4 DEF Advanced, RunnerTyped
  <1> QED
    BY <1>3, <1>4

\* Registering a handler leaves the calls alone.
LEMMA SameWalks ==
    ASSUME WalksOK, CallsFollow, UNCHANGED <<walk, runs, overlapped>>,
           registered \subseteq registered'
    PROVE  WalksOK' /\ CallsFollow'
  BY DEF WalksOK, WalkOK, Active, CallsFollow

\* A step within call r that stays with the same wake.
LEMMA CallGoesOn ==
    ASSUME RunnerTyped, WalksOK, CallsFollow, NEW r \in Runs, walk[r].at # "idle",
           NEW w \in Walk, w.at # "idle", w.by = walk[r].by,
           w.at = "agent" => w.todo # <<>>,
           walk' = [walk EXCEPT ![r] = w],
           UNCHANGED <<runs, registered, overlapped>>
    PROVE  walk' \in [Runs -> Walk] /\ WalksOK' /\ CallsFollow'
  <1>1. walk \in [Runs -> Walk]
    BY DEF RunnerTyped
  <1>2. walk' \in [Runs -> Walk]
    BY <1>1
  <1>3. WalkOK(r)'
    BY <1>1 DEF WalksOK, WalkOK, Active
  <1>4. ASSUME NEW q \in Runs \ {r} PROVE WalkOK(q)'
    BY <1>1 DEF WalksOK, WalkOK, Active
  <1>5. \A q \in Runs : walk'[q].by = walk[q].by /\ (walk'[q].at # "idle" => walk[q].at # "idle")
    BY <1>1
  <1> QED
    BY <1>2, <1>3, <1>4, <1>5 DEF WalksOK, CallsFollow

\* The target of the wake a call is for.
LEMMA CalledFor ==
    ASSUME WakesTyped, WalksOK, NEW r \in Runs, walk[r].at # "idle"
    PROVE  /\ Head(runs[r].batch) \in Wake
           /\ Head(runs[r].batch).target \in Targets
           /\ Head(runs[r].batch).priority \in Priorities
  <1>1. runs[r].batch \in Seq(Wake) /\ runs[r].batch # <<>>
    BY DEF WakesTyped, WalksOK, WalkOK, Active
  <1> QED
    BY <1>1, Sequence DEF Wake

LEMMA NextAgentResult ==
    ASSUME RunnerTyped, NEW r \in Runs, walk[r].todo # <<>>, NextAgent(r)
    PROVE  \E w \in Walk : /\ w.at = "next" /\ w.by = walk[r].by
                           /\ w.age = walk[r].age /\ w.stale = walk[r].stale
                           /\ walk' = [walk EXCEPT ![r] = w]
  <1> DEFINE w == [walk[r] EXCEPT !.at = "next", !.todo = Tail(walk[r].todo)]
  <1>1. walk[r] \in Walk /\ walk \in [Runs -> Walk]
    BY DEF RunnerTyped
  <1>2. walk[r].todo \in Seq(Agents) /\ Tail(walk[r].todo) \in Seq(Agents)
    BY <1>1 DEF Walk
  <1>3. w \in Walk /\ w.at = "next" /\ w.by = walk[r].by
        /\ w.age = walk[r].age /\ w.stale = walk[r].stale
    BY <1>1, <1>2 DEF Walk
  <1>4. walk' = [walk EXCEPT ![r] = w]
    BY <1>1 DEF NextAgent
  <1> QED
    BY <1>3, <1>4

Walking == RunnerTyped /\ WalksOK /\ CallsFollow

\* What the steps of call r leave of the state of runners and calls.
LEMMA CallWalks ==
    ASSUME Typed, WakesTyped, Walking, NEW r \in Runs, CallStep(r)
    PROVE  Walking'
  <1> USE DEF Walking
  <1>0. registered \subseteq Handlers
    BY DEF Typed, RegisteredTyped
  <1>1. walk \in [Runs -> Walk] /\ walk[r] \in Walk
    BY DEF RunnerTyped
  <1>2. walk[r].at # "idle" => walk[r].by \in registered /\ walk[r].by \in Handlers
    BY <1>0 DEF WalksOK, WalkOK
  <1>3. CASE SkipCall(r)
    <2>1. HandlerDone(r) /\ WalksFollow
      BY <1>3 DEF SkipCall
    <2>2. /\ walk[r].at # "idle" /\ walk' \in [Runs -> Walk] /\ WalksOK' /\ CallsFollow'
          /\ overlapped' \subseteq registered' /\ UNCHANGED registered
      BY <2>1, AnswerWalk
    <2>3. lapsed' \subseteq registered' \ stopped'
      BY <1>2, <1>3, <2>2 DEF SkipCall, RunnerTyped
    <2> QED
      BY <1>3, <2>2, <2>3 DEF SkipCall, RunnerTyped
  <1>4. CASE BeginCall(r)
    <2> DEFINE t == Head(runs[r].batch).target
               w == [walk[r] EXCEPT
                       !.at = "next",
                       !.todo = IF t = Everyone THEN SetToSeq(Agents) ELSE <<t>>,
                       !.due = {a \in Agents : IsInterval(r) => agents[walk[r].by][a].left = 0}]
    <2>1. t \in Targets /\ walk[r].at # "idle"
      BY <1>4, CalledFor DEF BeginCall
    <2>2. (IF t = Everyone THEN SetToSeq(Agents) ELSE <<t>>) \in Seq(Agents)
      <3>1. t # Everyone => t \in Agents
        BY <2>1, Constants
      <3> QED
        BY <3>1, AllAgents
    <2>3. w \in Walk /\ w.at = "next" /\ w.by = walk[r].by
      BY <1>1, <2>2 DEF Walk
    <2>4. walk' = [walk EXCEPT ![r] = w]
      BY <1>1, <1>4 DEF BeginCall
    <2>5. UNCHANGED <<runs, registered, overlapped>>
      BY <1>4 DEF BeginCall, wakeVars
    <2> HIDE DEF w
    <2>6. walk' \in [Runs -> Walk] /\ WalksOK' /\ CallsFollow'
      BY <2>1, <2>3, <2>4, <2>5, CallGoesOn
    <2> QED
      BY <1>4, <2>6 DEF BeginCall, wakeVars, RunnerTyped
  <1>5. CASE EndCall(r)
    <2>1. HandlerDone(r) /\ WalksFollow /\ ScheduleNext(walk[r].by, agents)
      BY <1>5 DEF EndCall
    <2>2. /\ walk[r].at # "idle" /\ walk' \in [Runs -> Walk] /\ WalksOK' /\ CallsFollow'
          /\ overlapped' \subseteq registered' /\ UNCHANGED registered
      BY <2>1, AnswerWalk
    <2>3. alarm' \in [Handlers -> 0..Off] /\ lapsed' \subseteq lapsed
      BY <1>2, <2>1, <2>2, ScheduleNextResult DEF RunnerTyped
    <2> QED
      BY <1>5, <2>2, <2>3 DEF EndCall, RunnerTyped
  <1>6. ASSUME NEW a \in Agents, PassOver(r, a) \/ HeartbeatSkipped(r, a) \/ HeartbeatEnds(r, a)
        PROVE  Walking'
    <2>1. /\ walk[r].at # "idle" /\ walk[r].todo # <<>> /\ NextAgent(r)
          /\ UNCHANGED <<wakeVars, alarm, stopped, enabled, quiet, lapsed, overlapped>>
          /\ agents' \in {agents, Advanced(r, a)}
      BY <1>6 DEF PassOver, HeartbeatSkipped, HeartbeatEnds, AtAgent, WalksOK, WalkOK
    <2>2. PICK w \in Walk : /\ w.at = "next" /\ w.by = walk[r].by
                            /\ walk' = [walk EXCEPT ![r] = w]
      BY <2>1, NextAgentResult
    <2>3. UNCHANGED <<runs, registered, overlapped>>
      BY <2>1 DEF wakeVars
    <2>4. walk' \in [Runs -> Walk] /\ WalksOK' /\ CallsFollow'
      BY <2>1, <2>2, <2>3, CallGoesOn
    <2>5. agents' \in [Handlers -> [Agents -> AgentState]]
      BY <1>2, <2>1, AdvancedResult DEF RunnerTyped
    <2> QED
      BY <2>1, <2>3, <2>4, <2>5 DEF RunnerTyped
  <1>7. ASSUME NEW a \in Agents, HeartbeatBusy(r, a) PROVE Walking'
    <2>1. HandlerBusy(r) /\ WalksFollow
      BY <1>7 DEF HeartbeatBusy
    <2>2. /\ walk[r].at # "idle" /\ walk' \in [Runs -> Walk] /\ WalksOK' /\ CallsFollow'
          /\ overlapped' \subseteq registered' /\ UNCHANGED registered
      BY <2>1, AnswerWalk
    <2>3. Advanced(r, a) \in [Handlers -> [Agents -> AgentState]]
      BY <1>2, <2>2, AdvancedResult
    <2>4. /\ agents' \in [Handlers -> [Agents -> AgentState]]
          /\ alarm' \in [Handlers -> 0..Off] /\ lapsed' \subseteq lapsed
      <3>1. CASE UNCHANGED <<agents, alarm, lapsed>>
        BY <3>1 DEF RunnerTyped
      <3>2. CASE agents' = Advanced(r, a) /\ ScheduleNext(walk[r].by, Advanced(r, a))
        BY <1>2, <2>2, <2>3, <3>2, ScheduleNextResult
      <3> QED
        BY <1>7, <3>1, <3>2 DEF HeartbeatBusy
    <2> QED
      BY <1>7, <2>2, <2>4 DEF HeartbeatBusy, RunnerTyped
  <1>8. ASSUME NEW a \in Agents, HeartbeatBegins(r, a) PROVE Walking'
    <2> DEFINE w == [walk[r] EXCEPT !.at = "agent"]
    <2>1. /\ walk[r].at # "idle" /\ w \in Walk /\ w.at = "agent" /\ w.by = walk[r].by
          /\ w.todo # <<>>
      BY <1>1, <1>8 DEF HeartbeatBegins, AtAgent, Walk
    <2>2. walk' = [walk EXCEPT ![r] = w] /\ UNCHANGED <<runs, registered, overlapped>>
      BY <1>1, <1>8 DEF HeartbeatBegins, wakeVars
    <2> HIDE DEF w
    <2>3. walk' \in [Runs -> Walk] /\ WalksOK' /\ CallsFollow'
      BY <2>1, <2>2, CallGoesOn
    <2>4. quiet' \in [Handlers -> [Agents -> 0..Interval]]
      <3>1. Interval - walk[r].age \in 0..Interval
        BY <1>1, Constants DEF Walk
      <3> QED
        BY <1>8, <3>1 DEF HeartbeatBegins, RunnerTyped
    <2> QED
      BY <1>8, <2>2, <2>3, <2>4 DEF HeartbeatBegins, RunnerTyped
  <1> QED
    BY <1>3, <1>4, <1>5, <1>6, <1>7, <1>8 DEF CallStep

\* A tick ages the calls that wait for an agent and brings all times nearer.
LEMMA TickResult ==
    ASSUME RunnerTyped, Tick
    PROVE  /\ walk' \in [Runs -> Walk]
           /\ \A r \in Runs : /\ walk'[r].at = walk[r].at /\ walk'[r].by = walk[r].by
                              /\ walk'[r].todo = walk[r].todo /\ walk'[r].stale = walk[r].stale
                              /\ walk[r].at = "idle" => walk'[r] = walk[r]
                              /\ walk[r].at # "agent" => walk'[r].age = walk[r].age
                              /\ walk[r].at = "agent" => walk'[r].age = IF walk[r].age < Interval
                                                           THEN walk[r].age + 1 ELSE Interval
           /\ agents' \in [Handlers -> [Agents -> AgentState]]
           /\ \A h \in Handlers, a \in Agents :
                /\ agents'[h][a].left \in {agents[h][a].left, Monus(agents[h][a].left)}
                /\ quiet'[h][a] = Monus(quiet[h][a])
                /\ h \in registered \ stopped => agents'[h][a].left = Monus(agents[h][a].left)
           /\ quiet' \in [Handlers -> [Agents -> 0..Interval]]
           /\ alarm' \in [Handlers -> 0..Off]
           /\ \A h \in Handlers : alarm[h] # Off => alarm'[h] # Off
           /\ UNCHANGED <<runs, registered, stopped, enabled, lapsed, overlapped>>
  <1> USE Constants
  <1>1. UNCHANGED <<runs, registered, stopped, enabled, lapsed, overlapped>>
    BY DEF Tick
  <1>2. ASSUME NEW r \in Runs
        PROVE  /\ walk'[r] \in Walk
               /\ walk'[r].at = walk[r].at /\ walk'[r].by = walk[r].by
               /\ walk'[r].todo = walk[r].todo /\ walk'[r].stale = walk[r].stale
               /\ walk[r].at = "idle" => walk'[r] = walk[r]
               /\ walk[r].at # "agent" => walk'[r].age = walk[r].age
               /\ walk[r].at = "agent" => walk'[r].age = IF walk[r].age < Interval
                                            THEN walk[r].age + 1 ELSE Interval
    <2>1. walk[r] \in Walk
      BY DEF RunnerTyped
    <2>2. walk'[r] = IF walk[r].at = "agent" /\ walk[r].age < Interval
                     THEN [walk[r] EXCEPT !.age = walk[r].age + 1] ELSE walk[r]
      BY DEF Tick
    <2> QED
      BY <2>1, <2>2 DEF Walk
  <1>3. walk' \in [Runs -> Walk]
    <2>1. walk' = [r \in Runs |-> walk'[r]]
      BY DEF Tick
    <2> QED
      BY <1>2, <2>1
  <1>4. ASSUME NEW h \in Handlers, NEW a \in Agents
        PROVE  /\ agents'[h] \in [Agents -> AgentState]
               /\ agents'[h][a].left \in {agents[h][a].left, Monus(agents[h][a].left)}
               /\ h \in registered \ stopped => agents'[h][a].left = Monus(agents[h][a].left)
    <2>1. agents[h] \in [Agents -> AgentState]
      BY DEF RunnerTyped
    <2>2. CASE h \in registered \ stopped
      <3> DEFINE later(b) == [agents[h][b] EXCEPT !.left = Monus(agents[h][b].left)]
      <3>1. agents'[h] = [b \in Agents |-> later(b)]
        BY <2>2 DEF Tick
      <3>2. \A b \in Agents :
                later(b) \in AgentState /\ later(b).left = Monus(agents[h][b].left)
        BY <2>1 DEF AgentState, Monus
      <3> HIDE DEF later
      <3> QED
        BY <3>1, <3>2
    <2>3. CASE h \notin registered \ stopped
      <3>1. agents'[h] = agents[h]
        BY <2>3 DEF Tick
      <3> QED
        BY <2>1, <2>3, <3>1
    <2> QED
      BY <2>2, <2>3
  <1>5. agents' \in [Handlers -> [Agents -> AgentState]]
    <2>1. Agents # {}
      BY HeartbeatRunnerAssumption
    <2>2. agents' = [h \in Handlers |-> agents'[h]]
      BY DEF Tick
    <2> QED
      BY <1>4, <2>1, <2>2
  <1>6. /\ \A h \in Handlers, a \in Agents : quiet'[h][a] = Monus(quiet[h][a])
        /\ quiet' \in [Handlers -> [Agents -> 0..Interval]]
    BY DEF Tick, RunnerTyped, Monus
  <1>7. ASSUME NEW h \in Handlers
        PROVE  alarm'[h] \in 0..Off /\ (alarm[h] # Off => alarm'[h] # Off)
    BY DEF Tick, RunnerTyped, Monus, Off
  <1>8. alarm' \in [Handlers -> 0..Off]
    <2>1. alarm' = [h \in Handlers |-> alarm'[h]]
      BY DEF Tick
    <2> QED
      BY <1>7, <2>1
  <1> QED
    BY <1>1, <1>2, <1>3, <1>4, <1>5, <1>6, <1>7, <1>8

\* A reload makes the runner's calls stale and puts no agent's time nearer.
LEMMA UpdateResult ==
    ASSUME RunnerTyped, NEW h \in Handlers, UpdateConfig(h)
    PROVE  /\ walk' \in [Runs -> Walk]
           /\ \A r \in Runs : /\ walk'[r].at = walk[r].at /\ walk'[r].by = walk[r].by
                              /\ walk'[r].todo = walk[r].todo /\ walk'[r].age = walk[r].age
                              /\ walk[r].by = h => walk'[r].stale
                              /\ walk[r].by # h => walk'[r] = walk[r]
           /\ agents' \in [Handlers -> [Agents -> AgentState]]
           /\ \A k \in Handlers, a \in Agents : /\ agents'[k][a].left >= agents[k][a].left
                                                /\ k # h => agents'[k] = agents[k]
           /\ quiet' \in [Handlers -> [Agents -> 0..Interval]]
           /\ \A k \in Handlers, a \in Agents : quiet'[k][a] \in {0, quiet[k][a]}
           /\ \A k \in Handlers \ {h} : quiet'[k] = quiet[k]
           /\ \/ walk' = walk
              \/ \A a \in Agents : quiet'[h][a] = 0
           /\ UNCHANGED <<wakeVars, stopped, enabled, overlapped>>
  <1> USE Constants
  <1> DEFINE fresh == [a \in Agents |-> ResolveNextDue(agents[h][a])]
             as == [agents EXCEPT ![h] = fresh]
             zero == [a \in Agents |-> 0]
  <1>1. UNCHANGED <<wakeVars, stopped, enabled, overlapped>>
    BY DEF UpdateConfig
  <1>2. ASSUME NEW r \in Runs
        PROVE  /\ walk'[r] \in Walk
               /\ walk'[r].at = walk[r].at /\ walk'[r].by = walk[r].by
               /\ walk'[r].todo = walk[r].todo /\ walk'[r].age = walk[r].age
               /\ walk[r].by = h => walk'[r].stale
               /\ walk[r].by # h => walk'[r] = walk[r]
    <2>1. walk[r] \in Walk
      BY DEF RunnerTyped
    <2>2. walk'[r] = IF walk[r].by = h THEN [walk[r] EXCEPT !.stale = TRUE] ELSE walk[r]
      BY DEF UpdateConfig
    <2> QED
      BY <2>1, <2>2 DEF Walk
  <1>3. walk' \in [Runs -> Walk]
    <2>1. walk' = [r \in Runs |-> walk'[r]]
      BY DEF UpdateConfig
    <2> QED
      BY <1>2, <2>1
  <1>4. /\ fresh \in [Agents -> AgentState]
        /\ \A a \in Agents : fresh[a].left >= agents[h][a].left
    <2>1. ASSUME NEW a \in Agents
          PROVE  /\ ResolveNextDue(agents[h][a]) \in AgentState
                 /\ ResolveNextDue(agents[h][a]).left >= agents[h][a].left
      BY DEF ResolveNextDue, AgentState, RunnerTyped
    <2> QED
      BY <2>1
  <1>5. agents' = as
    BY DEF UpdateConfig
  <1>6. /\ as \in [Handlers -> [Agents -> AgentState]]
        /\ \A k \in Handlers, a \in Agents : /\ as[k][a].left >= agents[k][a].left
                                             /\ k # h => as[k] = agents[k]
    <2> HIDE DEF fresh
    <2>1. agents \in [Handlers -> [Agents -> AgentState]]
      BY DEF RunnerTyped
    <2>2. \A k \in Handlers, a \in Agents : agents[k][a].left \in 0..Interval
      BY <2>1 DEF AgentState
    <2> QED
      BY <1>4, <2>1, <2>2
  <1>7. \/ walk' = walk /\ quiet' = quiet
        \/ quiet' = [quiet EXCEPT ![h] = zero]
    BY DEF UpdateConfig
  <1>8. /\ quiet' \in [Handlers -> [Agents -> 0..Interval]]
        /\ \A k \in Handlers, a \in Agents : quiet'[k][a] \in {0, quiet[k][a]}
        /\ \A k \in Handlers \ {h} : quiet'[k] = quiet[k]
        /\ walk' = walk \/ \A a \in Agents : quiet'[h][a] = 0
    <2>1. zero \in [Agents -> 0..Interval] /\ \A a \in Agents : zero[a] = 0
      OBVIOUS
    <2> HIDE DEF zero
    <2> QED
      BY <1>7, <2>1 DEF RunnerTyped
  <1> QED
    BY <1>1, <1>2, <1>3, <1>5, <1>6, <1>8

LEMMA WalkingStep == Typed /\ WakesTyped /\ Walking /\ [Next]_vars => Walking'
  <1> SUFFICES ASSUME Typed, WakesTyped, Walking, [Next]_vars PROVE Walking'
    OBVIOUS
  <1> USE DEF Walking
  <1>0. registered \subseteq Handlers /\ walk \in [Runs -> Walk]
    BY DEF Typed, RegisteredTyped, RunnerTyped
  <1>1. CASE Tick
    <2>1. UNCHANGED <<runs, registered, overlapped>>
      BY <1>1, TickResult
    <2>2. ASSUME NEW r \in Runs PROVE WalkOK(r)'
      BY <1>1, <2>1, TickResult DEF WalksOK, WalkOK, Active
    <2>3. CallsFollow'
      <3>1. \A r \in Runs : walk'[r].at = walk[r].at /\ walk'[r].by = walk[r].by
        BY <1>1, TickResult
      <3> QED
        BY <2>1, <3>1 DEF CallsFollow
    <2>4. WalksOK'
      BY <2>2 DEF WalksOK
    <2> QED
      BY <1>1, <2>3, <2>4, TickResult DEF RunnerTyped
  <1>2. CASE WakeTimerFires
    <2>1. /\ walk' \in [Runs -> Walk] /\ WalksOK' /\ CallsFollow'
          /\ overlapped' \subseteq registered' /\ UNCHANGED registered
      BY <1>2, FiresWalk
    <2> QED
      BY <1>2, <2>1 DEF WakeTimerFires, RunnerTyped
  <1>3. CASE SetHeartbeatsEnabled \/ UNCHANGED vars
    <2>1. /\ UNCHANGED <<runs, registered, walk, overlapped, agents, alarm, stopped, lapsed,
                         quiet>>
          /\ enabled' \in BOOLEAN
      BY <1>3 DEF SetHeartbeatsEnabled, vars, wakeVars, runnerVars, RunnerTyped
    <2> QED
      BY <2>1, SameWalks DEF RunnerTyped
  <1>4. ASSUME NEW h \in Handlers, StartRunner(h) PROVE Walking'
    <2>1. /\ registered' = registered \cup {h} /\ ScheduleNext(h, agents)
          /\ UNCHANGED <<runs, walk, overlapped, agents, stopped, enabled, quiet>>
      BY <1>4 DEF StartRunner, SetHandler
    <2>2. alarm' \in [Handlers -> 0..Off] /\ lapsed' \subseteq lapsed
      BY <2>1, ScheduleNextResult DEF RunnerTyped
    <2> QED
      BY <2>1, <2>2, SameWalks DEF RunnerTyped
  <1>5. ASSUME NEW h \in Handlers, StopRunner(h) PROVE Walking'
    <2>1. /\ h \in registered /\ stopped' = stopped \cup {h} /\ lapsed' = lapsed \ {h}
          /\ UNCHANGED <<registered, runs, walk, overlapped, enabled>>
      BY <1>5 DEF StopRunner, Dispose
    <2>2. alarm' \in [Handlers -> 0..Off]
      BY <1>5, Constants DEF StopRunner, RunnerTyped, Off
    <2>3. agents' \in [Handlers -> [Agents -> AgentState]]
      BY <1>5, Constants DEF StopRunner, RunnerTyped, AgentState
    <2>4. quiet' \in [Handlers -> [Agents -> 0..Interval]]
      BY <1>5, Constants DEF StopRunner, RunnerTyped
    <2> QED
      BY <2>1, <2>2, <2>3, <2>4, SameWalks DEF RunnerTyped
  <1>6. ASSUME NEW h \in Handlers, AlarmRings(h) PROVE Walking'
    <2>1. /\ UNCHANGED <<runs, registered, walk, overlapped, agents, stopped, enabled, lapsed,
                         quiet>>
          /\ alarm' \in [Handlers -> 0..Off]
      BY <1>6, Constants DEF AlarmRings, Request, RunnerTyped, Off
    <2> QED
      BY <2>1, SameWalks DEF RunnerTyped
  <1>7. ASSUME NEW h \in Handlers, UpdateConfig(h) PROVE Walking'
    <2>1. UNCHANGED <<runs, registered>>
      BY <1>7, UpdateResult DEF wakeVars
    <2>2. WalksOK'
      <3>1. ASSUME NEW r \in Runs PROVE WalkOK(r)'
        <4>1. walk[r].at = "idle" => walk[r].by # h
          BY NewWalks DEF WalksOK, WalkOK
        <4> QED
          BY <1>7, <2>1, <4>1, UpdateResult DEF WalksOK, WalkOK, Active
      <3> QED
        BY <3>1 DEF WalksOK
    <2>3. CallsFollow'
      BY <1>7, UpdateResult DEF CallsFollow
    <2>4. ScheduleNext(h, agents')
      BY <1>7 DEF UpdateConfig
    <2>5. alarm' \in [Handlers -> 0..Off] /\ lapsed' \subseteq lapsed
      BY <1>7, <2>4, UpdateResult, ScheduleNextResult DEF RunnerTyped
    <2> QED
      BY <1>7, <2>1, <2>2, <2>3, <2>5, UpdateResult DEF RunnerTyped
  <1>8. ASSUME NEW t \in Targets, NEW p \in Priorities, OthersRequest(t, p) PROVE Walking'
    <2>1. UNCHANGED <<runs, registered, walk, overlapped, agents, alarm, stopped, enabled, lapsed,
                      quiet>>
      BY <1>8 DEF OthersRequest, Request, runnerVars
    <2> QED
      BY <2>1, SameWalks DEF RunnerTyped
  <1>9. ASSUME NEW r \in Runs, CallStep(r) PROVE Walking'
    BY <1>9, CallWalks
  <1> QED
    BY <1>1, <1>2, <1>3, <1>4, <1>5, <1>6, <1>7, <1>8, <1>9 DEF Next

-----------------------------------------------------------------------------
(* Interval heartbeats keep their distance.                                *)

Quiet == DueIsQuiet /\ AdvanceIsQuiet

\* A step of call r that begins no heartbeat.
LEMMA CallIsQuiet ==
    ASSUME Walking, registered \subseteq Handlers, Quiet,
           NEW r \in Runs, NEW a \in Agents, walk[r].at # "idle",
           agents' \in {agents, Advanced(r, a)},
           walk[r].at = "agent" => Head(walk[r].todo) = a /\ agents' = Advanced(r, a),
           NEW w, walk' = [walk EXCEPT ![r] = w], w.at # "agent",
           w.at # "idle" => w.by = walk[r].by,
           \/ w.age = 0
           \/ w.age = walk[r].age /\ w.stale = walk[r].stale,
           UNCHANGED <<quiet, stopped>>, overlapped \subseteq overlapped'
    PROVE  Quiet'
  <1> USE DEF Walking, Quiet
  <1>1. walk \in [Runs -> Walk] /\ walk[r].by \in Handlers
    BY DEF RunnerTyped, WalksOK, WalkOK
  <1>2. walk'[r] = w /\ \A q \in Runs \ {r} : walk'[q] = walk[q]
    BY <1>1
  <1>3. \A h \in Handlers, b \in Agents :
            /\ quiet[h][b] \in 0..Interval /\ agents[h][b].left \in 0..Interval
            /\ quiet'[h][b] = quiet[h][b]
    BY DEF RunnerTyped, AgentState
  <1>4. ASSUME NEW h \in Handlers \ overlapped, NEW b \in Agents
        PROVE  quiet[h][b] <= agents'[h][b].left \/ \E q \in Runs : AtWorkFor(q, h, b)'
    <2>1. CASE agents' = Advanced(r, a) /\ Fresh(r) /\ h = walk[r].by /\ b = a
      <3>1. agents'[h][b].left = Interval - walk[r].age
        BY <1>1, <2>1, AdvancedResult
      <3> QED
        BY <2>1, <3>1 DEF AdvanceIsQuiet
    <2>2. CASE ~(agents' = Advanced(r, a) /\ Fresh(r) /\ h = walk[r].by /\ b = a)
      <3>1. agents'[h][b].left = agents[h][b].left
        BY <1>1, <2>2, AdvancedResult
      <3>2. ASSUME NEW q \in Runs, AtWorkFor(q, h, b) PROVE AtWorkFor(q, h, b)'
        <4>1. q # r
          BY <2>2, <3>2 DEF AtWorkFor
        <4> QED
          BY <1>2, <3>2, <4>1 DEF AtWorkFor, Fresh
      <3> QED
        BY <3>1, <3>2 DEF DueIsQuiet
    <2> QED
      BY <2>1, <2>2
  <1>5. ASSUME NEW q \in Runs, NEW b \in Agents,
               walk'[q].at # "idle", Fresh(q)', walk'[q].by \notin overlapped
        PROVE  quiet[walk'[q].by][b] <= Interval - walk'[q].age
    <2>1. CASE q # r
      BY <1>2, <1>5, <2>1 DEF AdvanceIsQuiet, Fresh
    <2>2. CASE q = r /\ w.age = 0
      BY <1>1, <1>2, <1>3, <1>5, <2>2, Constants
    <2>3. CASE q = r /\ w.age = walk[r].age /\ w.stale = walk[r].stale
      BY <1>1, <1>2, <1>5, <2>3 DEF AdvanceIsQuiet, Fresh
    <2> QED
      BY <2>1, <2>2, <2>3
  <1>6. DueIsQuiet'
    BY <1>3, <1>4 DEF DueIsQuiet
  <1>7. AdvanceIsQuiet'
    <2> SUFFICES ASSUME NEW q \in Runs, NEW b \in Agents,
                        walk'[q].at # "idle", Fresh(q)', walk'[q].by \notin overlapped'
                 PROVE  quiet'[walk'[q].by][b] <= Interval - walk'[q].age
      BY DEF AdvanceIsQuiet
    <2>1. quiet[walk'[q].by][b] <= Interval - walk'[q].age
      BY <1>5
    <2> QED
      BY <2>1
  <1> QED
    BY <1>6, <1>7

LEMMA CallStepIsQuiet ==
    ASSUME Typed, WakesTyped, Walking, Quiet, NEW r \in Runs, CallStep(r)
    PROVE  Quiet'
  <1>0. registered \subseteq Handlers /\ walk \in [Runs -> Walk] /\ walk[r] \in Walk
    BY DEF Typed, RegisteredTyped, Walking, RunnerTyped
  <1>1. PICK x \in Agents : TRUE
    BY HeartbeatRunnerAssumption
  <1>2. ASSUME HandlerDone(r) \/ HandlerBusy(r), WalksFollow, UNCHANGED <<quiet, stopped>>,
               walk[r].at # "agent", NEW a \in Agents, agents' \in {agents, Advanced(r, a)}
        PROVE  Quiet'
    <2>1. /\ walk[r].at # "idle" /\ overlapped \subseteq overlapped'
          /\ \/ walk' = [walk EXCEPT ![r] = NoWalk]
             \/ walk' = [walk EXCEPT ![r] = Begun(walk[r].by)]
      BY <1>2, AnswerWalk DEF Walking
    <2>2. walk[r].by \in Handlers
      BY <1>0, <2>1 DEF Walking, WalksOK, WalkOK
    <2>3. CASE walk' = [walk EXCEPT ![r] = NoWalk]
      <3>1. NoWalk.at = "idle" /\ NoWalk.age = 0
        BY DEF NoWalk
      <3> QED
        BY <1>0, <1>2, <2>1, <2>3, <3>1, CallIsQuiet
    <2>4. CASE walk' = [walk EXCEPT ![r] = Begun(walk[r].by)]
      BY <1>0, <1>2, <2>1, <2>2, <2>4, NewWalks, CallIsQuiet
    <2> QED
      BY <2>1, <2>3, <2>4
  <1>3. CASE SkipCall(r) \/ EndCall(r)
    BY <1>1, <1>2, <1>3 DEF SkipCall, EndCall
  <1>4. ASSUME NEW a \in Agents, HeartbeatBusy(r, a) PROVE Quiet'
    <2>1. agents' \in {agents, Advanced(r, a)} /\ walk[r].at # "agent"
      BY <1>4 DEF HeartbeatBusy, AtAgent
    <2> QED
      BY <1>2, <1>4, <2>1 DEF HeartbeatBusy
  <1>5. CASE BeginCall(r)
    <2>1. PICK todo, due : walk' = [walk EXCEPT ![r].at = "next", ![r].todo = todo, ![r].due = due]
      BY <1>5 DEF BeginCall
    <2> DEFINE w == [walk[r] EXCEPT !.at = "next", !.todo = todo, !.due = due]
    <2>2. /\ walk' = [walk EXCEPT ![r] = w]
          /\ w.at = "next" /\ w.by = walk[r].by /\ w.age = walk[r].age /\ w.stale = walk[r].stale
      BY <1>0, <2>1 DEF Walk
    <2>3. /\ walk[r].at = "begin"
          /\ UNCHANGED <<agents, quiet, stopped, overlapped>>
      BY <1>5 DEF BeginCall
    <2> HIDE DEF w
    <2> QED
      BY <1>0, <1>1, <2>2, <2>3, CallIsQuiet
  <1>6. ASSUME NEW a \in Agents, PassOver(r, a) \/ HeartbeatSkipped(r, a) \/ HeartbeatEnds(r, a)
        PROVE  Quiet'
    <2>1. /\ walk[r].at # "idle" /\ walk[r].todo # <<>> /\ NextAgent(r)
          /\ UNCHANGED <<quiet, stopped, overlapped>>
          /\ agents' \in {agents, Advanced(r, a)}
          /\ walk[r].at = "agent" => Head(walk[r].todo) = a /\ agents' = Advanced(r, a)
      BY <1>6 DEF PassOver, HeartbeatSkipped, HeartbeatEnds, AtAgent, Walking, WalksOK, WalkOK
    <2>2. PICK w \in Walk : /\ w.at = "next" /\ w.by = walk[r].by
                            /\ w.age = walk[r].age /\ w.stale = walk[r].stale
                            /\ walk' = [walk EXCEPT ![r] = w]
      BY <2>1, NextAgentResult DEF Walking
    <2> QED
      BY <1>0, <2>1, <2>2, CallIsQuiet
  <1>7. ASSUME NEW a \in Agents, HeartbeatBegins(r, a) PROVE Quiet'
    <2>1. /\ AtAgent(r, a) /\ walk' = [walk EXCEPT ![r].at = "agent"]
          /\ quiet' = IF IsInterval(r) /\ Fresh(r)
                      THEN [quiet EXCEPT ![walk[r].by][a] = Interval - walk[r].age] ELSE quiet
          /\ UNCHANGED <<agents, stopped, overlapped>>
      BY <1>7 DEF HeartbeatBegins
    <2>2. /\ walk'[r].at = "agent" /\ \A q \in Runs \ {r} : walk'[q].at = walk[q].at
          /\ \A q \in Runs : /\ walk'[q].by = walk[q].by /\ walk'[q].todo = walk[q].todo
                             /\ walk'[q].age = walk[q].age /\ walk'[q].stale = walk[q].stale
      BY <1>0, <2>1 DEF Walk
    <2>3. walk[r].at = "next" /\ Head(walk[r].todo) = a /\ walk[r].by \in Handlers
      BY <1>0, <2>1 DEF AtAgent, Walking, WalksOK, WalkOK
    <2>4. \A q \in Runs, h \in Handlers, b \in Agents : AtWorkFor(q, h, b) => AtWorkFor(q, h, b)'
      BY <2>1, <2>2, <2>3 DEF AtWorkFor, Fresh
    <2>5. CASE IsInterval(r) /\ Fresh(r)
      <3>1. \A h \in Handlers, b \in Agents :
              quiet'[h][b] = IF h = walk[r].by /\ b = a THEN Interval - walk[r].age
                             ELSE quiet[h][b]
        BY <2>1, <2>3, <2>5 DEF Walking, RunnerTyped
      <3>2. AtWorkFor(r, walk[r].by, a)'
        BY <2>1, <2>2, <2>3, <2>5 DEF AtWorkFor, Fresh
      <3>3. DueIsQuiet'
        BY <2>1, <2>4, <3>1, <3>2 DEF Quiet, DueIsQuiet
      <3>4. AdvanceIsQuiet'
        <4> SUFFICES ASSUME NEW q \in Runs, NEW b \in Agents,
                            walk'[q].at # "idle", Fresh(q)', walk'[q].by \notin overlapped'
                     PROVE  quiet'[walk'[q].by][b] <= Interval - walk'[q].age
          BY DEF AdvanceIsQuiet
        <4>1. walk[q].at # "idle" /\ Fresh(q) /\ walk[q].by \notin overlapped
          BY <2>1, <2>2, <2>3 DEF Fresh
        <4>2. walk[q].by \in Handlers
          BY <1>0, <4>1 DEF Walking, WalksOK, WalkOK
        <4>3. walk[q].by = walk[r].by => q = r
          BY <2>3, <4>1 DEF Walking, CallsFollow
        <4>4. quiet[walk[q].by][b] <= Interval - walk[q].age
          BY <4>1 DEF Quiet, AdvanceIsQuiet
        <4>5. Interval - walk[r].age <= Interval - walk[r].age
          BY <1>0, Constants DEF Walk
        <4> QED
          BY <2>2, <3>1, <4>2, <4>3, <4>4, <4>5
      <3> QED
        BY <3>3, <3>4 DEF Quiet
    <2>6. CASE ~(IsInterval(r) /\ Fresh(r))
      <3>1. quiet' = quiet
        BY <2>1, <2>6
      <3>2. DueIsQuiet'
        BY <2>1, <2>4, <3>1 DEF Quiet, DueIsQuiet
      <3>3. AdvanceIsQuiet'
        BY <2>1, <2>2, <2>3, <3>1 DEF Quiet, AdvanceIsQuiet, Fresh
      <3> QED
        BY <3>2, <3>3 DEF Quiet
    <2> QED
      BY <2>5, <2>6
  <1> QED
    BY <1>3, <1>4, <1>5, <1>6, <1>7 DEF CallStep

LEMMA QuietStep == Typed /\ WakesTyped /\ Walking /\ Quiet /\ [Next]_vars => Quiet'
  <1> SUFFICES ASSUME Typed, WakesTyped, Walking, Quiet, [Next]_vars PROVE Quiet'
    OBVIOUS
  <1>0. /\ registered \subseteq Handlers /\ walk \in [Runs -> Walk]
        /\ \A r \in Runs : walk[r].at # "idle" => walk[r].by \in Handlers
        /\ \A h \in Handlers, a \in Agents :
              quiet[h][a] \in 0..Interval /\ agents[h][a].left \in 0..Interval
    BY DEF Typed, RegisteredTyped, Walking, RunnerTyped, WalksOK, WalkOK, AgentState
  <1>1. ASSUME UNCHANGED <<walk, agents, quiet, stopped, overlapped>> PROVE Quiet'
    BY <1>1 DEF Quiet, DueIsQuiet, AdvanceIsQuiet, AtWorkFor, Fresh
  <1>2. CASE Tick
    <2> USE TickResult DEF Walking
    <2>1. \A r \in Runs : /\ walk'[r].at = walk[r].at /\ walk'[r].by = walk[r].by
                          /\ walk'[r].todo = walk[r].todo /\ walk'[r].stale = walk[r].stale
      BY <1>2
    <2>2. UNCHANGED <<stopped, overlapped>>
      BY <1>2
    <2>3. DueIsQuiet'
      <3> SUFFICES ASSUME NEW h \in Handlers \ overlapped, NEW a \in Agents
                   PROVE  quiet'[h][a] <= agents'[h][a].left \/ \E r \in Runs : AtWorkFor(r, h, a)'
        BY <2>2 DEF DueIsQuiet
      <3>1. CASE quiet[h][a] <= agents[h][a].left
        <4>1. /\ quiet'[h][a] = Monus(quiet[h][a])
              /\ agents'[h][a].left \in {agents[h][a].left, Monus(agents[h][a].left)}
          BY <1>2
        <4> QED
          BY <1>0, <3>1, <4>1, Constants DEF Monus
      <3>2. ASSUME NEW r \in Runs, AtWorkFor(r, h, a) PROVE AtWorkFor(r, h, a)'
        BY <2>1, <2>2, <3>2 DEF AtWorkFor, Fresh
      <3> QED
        BY <3>1, <3>2 DEF Quiet, DueIsQuiet
    <2>4. AdvanceIsQuiet'
      <3> SUFFICES ASSUME NEW r \in Runs, NEW a \in Agents,
                          walk'[r].at # "idle", Fresh(r)', walk'[r].by \notin overlapped
                   PROVE  quiet'[walk'[r].by][a] <= Interval - walk'[r].age
        BY <2>2 DEF AdvanceIsQuiet
      <3>1. walk[r].at = "agent"
        BY <1>2, <2>1 DEF Tick, Settled
      <3>2. quiet[walk[r].by][a] <= Interval - walk[r].age
        BY <2>1, <2>2, <3>1 DEF Quiet, AdvanceIsQuiet, Fresh
      <3>3. walk'[r].age = IF walk[r].age < Interval THEN walk[r].age + 1 ELSE Interval
        BY <1>2, <3>1
      <3>4. walk[r].by \in Handlers /\ walk[r].age \in 0..Interval
        BY <1>0, <3>1 DEF Walk
      <3>5. quiet'[walk[r].by][a] = Monus(quiet[walk[r].by][a])
        BY <1>2, <3>4
      <3>6. quiet[walk[r].by][a] \in 0..Interval
        BY <1>0, <3>4
      <3>7. Monus(quiet[walk[r].by][a]) <= Interval - walk'[r].age
        BY <3>2, <3>3, <3>4, <3>6, Constants DEF Monus
      <3> QED
        BY <2>1, <3>5, <3>7
    <2> QED
      BY <2>3, <2>4 DEF Quiet
  <1>3. CASE WakeTimerFires
    <2>1. /\ UNCHANGED <<agents, quiet, stopped>> /\ overlapped \subseteq overlapped'
          /\ \/ walk' = walk
             \/ \E r \in Runs : /\ walk[r].at = "idle" /\ handler \in registered
                                /\ walk' = [walk EXCEPT ![r] = Begun(handler)]
      BY <1>3, FiresWalk DEF Walking, WakeTimerFires
    <2>2. CASE walk' = walk
      BY <2>1, <2>2 DEF Quiet, DueIsQuiet, AdvanceIsQuiet, AtWorkFor, Fresh
    <2>3. ASSUME NEW r \in Runs, walk[r].at = "idle", handler \in registered,
                 walk' = [walk EXCEPT ![r] = Begun(handler)]
          PROVE  Quiet'
      <3>1. /\ walk'[r] = Begun(handler) /\ \A q \in Runs \ {r} : walk'[q] = walk[q]
            /\ Begun(handler).age = 0 /\ Begun(handler).by \in Handlers
        BY <1>0, <2>3, NewWalks
      <3>2. \A q \in Runs, h \in Handlers, a \in Agents : AtWorkFor(q, h, a) => AtWorkFor(q, h, a)'
        BY <2>1, <2>3, <3>1 DEF AtWorkFor, Fresh
      <3>3. DueIsQuiet'
        BY <2>1, <3>2 DEF Quiet, DueIsQuiet
      <3>4. AdvanceIsQuiet'
        <4> SUFFICES ASSUME NEW q \in Runs, NEW a \in Agents,
                            walk'[q].at # "idle", Fresh(q)', walk'[q].by \notin overlapped'
                     PROVE  quiet[walk'[q].by][a] <= Interval - walk'[q].age
          BY <2>1 DEF AdvanceIsQuiet
        <4>1. CASE q = r
          BY <1>0, <3>1, <4>1, Constants
        <4>2. CASE q # r
          BY <2>1, <3>1, <4>2 DEF Quiet, AdvanceIsQuiet, Fresh
        <4> QED
          BY <4>1, <4>2
      <3> QED
        BY <3>3, <3>4 DEF Quiet
    <2> QED
      BY <2>1, <2>2, <2>3
  <1>4. CASE SetHeartbeatsEnabled \/ UNCHANGED vars
    BY <1>1, <1>4 DEF SetHeartbeatsEnabled, vars, runnerVars
  <1>5. ASSUME NEW h \in Handlers, StartRunner(h) \/ AlarmRings(h) PROVE Quiet'
    BY <1>1, <1>5 DEF StartRunner, AlarmRings
  <1>6. ASSUME NEW h \in Handlers, StopRunner(h) PROVE Quiet'
    <2>1. /\ stopped' = stopped \cup {h} /\ UNCHANGED <<walk, overlapped>>
          /\ agents' = [agents EXCEPT ![h] = [a \in Agents |-> [left |-> Interval, ran |-> FALSE]]]
          /\ quiet' = [quiet EXCEPT ![h] = [a \in Agents |-> 0]]
      BY <1>6 DEF StopRunner
    <2>2. \A k \in Handlers, a \in Agents :
              IF k = h THEN quiet'[k][a] = 0 /\ agents'[k][a].left = Interval
              ELSE quiet'[k][a] = quiet[k][a] /\ agents'[k][a].left = agents[k][a].left
      BY <2>1 DEF Walking, RunnerTyped
    <2>3. \A r \in Runs : Fresh(r)' <=> Fresh(r) /\ walk[r].by # h
      BY <2>1 DEF Fresh
    <2>4. DueIsQuiet'
      <3> SUFFICES ASSUME NEW k \in Handlers \ overlapped, NEW a \in Agents
                   PROVE  quiet'[k][a] <= agents'[k][a].left \/ \E r \in Runs : AtWorkFor(r, k, a)'
        BY <2>1 DEF DueIsQuiet
      <3>1. CASE k = h
        BY <2>2, <3>1, Constants
      <3>2. CASE k # h
        BY <2>1, <2>2, <2>3, <3>2 DEF Quiet, DueIsQuiet, AtWorkFor
      <3> QED
        BY <3>1, <3>2
    <2>5. AdvanceIsQuiet'
      <3> SUFFICES ASSUME NEW r \in Runs, NEW a \in Agents,
                          walk[r].at # "idle", Fresh(r)', walk[r].by \notin overlapped
                   PROVE  quiet'[walk[r].by][a] <= Interval - walk[r].age
        BY <2>1 DEF AdvanceIsQuiet
      <3>1. walk[r].by # h /\ Fresh(r) /\ walk[r].by \in Handlers
        BY <1>0, <2>3
      <3> QED
        BY <2>2, <3>1 DEF Quiet, AdvanceIsQuiet
    <2> QED
      BY <2>4, <2>5 DEF Quiet
  <1>7. ASSUME NEW h \in Handlers, UpdateConfig(h) PROVE Quiet'
    <2>1. /\ \A r \in Runs : /\ walk'[r].at = walk[r].at /\ walk'[r].by = walk[r].by
                             /\ walk[r].by = h => walk'[r].stale
                             /\ walk[r].by # h => walk'[r] = walk[r]
          /\ \A k \in Handlers, a \in Agents : agents'[k][a].left >= agents[k][a].left
          /\ agents' \in [Handlers -> [Agents -> AgentState]]
      BY <1>7, UpdateResult DEF Walking
    <2>2. /\ \A k \in Handlers, a \in Agents : quiet'[k][a] \in {0, quiet[k][a]}
          /\ \A k \in Handlers \ {h} : quiet'[k] = quiet[k]
          /\ walk' = walk \/ \A a \in Agents : quiet'[h][a] = 0
          /\ UNCHANGED <<stopped, overlapped>>
      BY <1>7, UpdateResult DEF Walking
    <2>3. \A k \in Handlers, a \in Agents : agents'[k][a].left \in 0..Interval
      BY <2>1 DEF AgentState
    <2>4. DueIsQuiet'
      <3> SUFFICES ASSUME NEW k \in Handlers \ overlapped, NEW a \in Agents
                   PROVE  quiet'[k][a] <= agents'[k][a].left \/ \E r \in Runs : AtWorkFor(r, k, a)'
        BY <2>2 DEF DueIsQuiet
      <3>1. CASE quiet[k][a] <= agents[k][a].left \/ quiet'[k][a] = 0
        <4>1. quiet'[k][a] <= quiet[k][a] /\ agents'[k][a].left >= agents[k][a].left
          BY <1>0, <2>1, <2>2, Constants
        <4>2. /\ quiet'[k][a] \in Nat /\ quiet[k][a] \in Nat
              /\ agents'[k][a].left \in Nat /\ agents[k][a].left \in Nat
          BY <1>0, <2>2, <2>3, Constants
        <4> QED
          BY <3>1, <4>1, <4>2
      <3>2. ASSUME NEW r \in Runs, AtWorkFor(r, k, a), quiet'[k][a] # 0 PROVE AtWorkFor(r, k, a)'
        <4>1. k # h
          BY <2>1, <2>2, <3>2 DEF AtWorkFor, Fresh
        <4> QED
          BY <2>1, <2>2, <3>2, <4>1 DEF AtWorkFor, Fresh
      <3> QED
        BY <3>1, <3>2 DEF Quiet, DueIsQuiet
    <2>5. AdvanceIsQuiet'
      <3> SUFFICES ASSUME NEW r \in Runs, NEW a \in Agents,
                          walk'[r].at # "idle", Fresh(r)', walk'[r].by \notin overlapped
                   PROVE  quiet'[walk'[r].by][a] <= Interval - walk'[r].age
        BY <2>2 DEF AdvanceIsQuiet
      <3>1. walk[r].by # h
        BY <2>1 DEF Fresh
      <3>2. walk'[r] = walk[r] /\ walk[r].by \in Handlers
        BY <1>0, <2>1, <3>1
      <3> QED
        BY <2>2, <3>1, <3>2 DEF Quiet, AdvanceIsQuiet, Fresh
    <2> QED
      BY <2>4, <2>5 DEF Quiet
  <1>8. ASSUME NEW t \in Targets, NEW p \in Priorities, OthersRequest(t, p) PROVE Quiet'
    BY <1>1, <1>8 DEF OthersRequest, runnerVars
  <1>9. ASSUME NEW r \in Runs, CallStep(r) PROVE Quiet'
    BY <1>9, CallStepIsQuiet
  <1> QED
    BY <1>2, <1>3, <1>4, <1>5, <1>6, <1>7, <1>8, <1>9 DEF Next

-----------------------------------------------------------------------------
(* A working runner has its next heartbeats ahead.                         *)

\* Whatever takes an alarm, a wake or a call away leaves another of them.
LEMMA ScheduleStep ==
    Typed /\ WakesTyped /\ Walking /\ StaysScheduled /\ [Next]_vars => StaysScheduled'
  <1> SUFFICES ASSUME Typed, WakesTyped, Walking, StaysScheduled, [Next]_vars,
                      NEW h \in Handlers, h \notin lapsed', Working(h)'
               PROVE  Ahead(h)'
    BY DEF StaysScheduled
  <1>0. /\ registered \subseteq Handlers /\ walk \in [Runs -> Walk]
        /\ \A r \in Runs : walk[r].at # "idle" => walk[r].by \in Handlers
        /\ pending \in [Targets -> Priorities \cup {0}] /\ Everyone \in Targets
        /\ pending[Everyone] \in Nat
    <2>1. pending \in [Targets -> Priorities \cup {0}] /\ Everyone \in Targets
      BY Constants DEF WakesTyped
    <2>2. pending[Everyone] \in 0..4
      BY <2>1, PriorityTypes
    <2>3. /\ registered \subseteq Handlers /\ walk \in [Runs -> Walk]
          /\ \A r \in Runs : walk[r].at # "idle" => walk[r].by \in Handlers
      BY DEF Typed, RegisteredTyped, Walking, RunnerTyped, WalksOK, WalkOK
    <2> QED
      BY <2>1, <2>2, <2>3
  <1>1. ASSUME Working(h), h \notin lapsed, alarm[h] # Off => alarm'[h] # Off,
               pending[Everyone] > 0 => pending'[Everyone] > 0,
               \A r \in Runs : walk[r].by = h => walk'[r].by = h
        PROVE  Ahead(h)'
    BY <1>1 DEF StaysScheduled, Ahead
  <1>2. ASSUME NEW k \in Handlers, NEW as \in [Handlers -> [Agents -> AgentState]],
               ScheduleNext(k, as), UNCHANGED <<stopped, handler>>,
               pending[Everyone] > 0 => pending'[Everyone] > 0,
               \A r \in Runs : walk[r].by = h => walk'[r].by = h \/ k = h
        PROVE  Ahead(h)'
    <2>1. CASE k = h
      <3>1. alarm'[h] # Off
        BY <1>2, <2>1, ScheduleNextResult DEF Walking, Working
      <3> QED
        BY <3>1 DEF Ahead
    <2>2. CASE k # h
      <3>1. alarm'[h] = alarm[h]
        BY <1>2, <2>2, ScheduleNextResult DEF Walking
      <3>2. lapsed' = lapsed \/ lapsed' = lapsed \ {k}
        BY <1>2 DEF ScheduleNext
      <3>3. Working(h) /\ h \notin lapsed
        BY <1>2, <2>2, <3>2 DEF Working
      <3> QED
        BY <1>1, <1>2, <2>2, <3>1, <3>3
    <2> QED
      BY <2>1, <2>2
  <1>3. ASSUME UNCHANGED <<alarm, pending, walk, handler, stopped, lapsed>> PROVE Ahead(h)'
    BY <1>1, <1>3 DEF Working
  <1>4. CASE Tick
    <2>1. UNCHANGED <<handler, pending, stopped, lapsed>>
      BY <1>4 DEF Tick
    <2>2. /\ alarm[h] # Off => alarm'[h] # Off
          /\ \A r \in Runs : walk'[r].by = walk[r].by
      BY <1>4, TickResult DEF Walking
    <2> QED
      BY <1>1, <2>1, <2>2 DEF Working
  <1>5. CASE WakeTimerFires
    <2>1. UNCHANGED <<alarm, stopped, lapsed, handler>>
      BY <1>5 DEF WakeTimerFires, TimerFires, TimerFiresIdle, TimerFiresWhileRunning
    <2>2. Working(h) /\ h \notin lapsed
      BY <2>1 DEF Working
    <2>3. \/ walk' = walk
          \/ \E r \in Runs : /\ walk[r].at = "idle" /\ handler \in registered
                             /\ walk' = [walk EXCEPT ![r] = Begun(handler)]
      BY <1>5, FiresWalk DEF Walking
    <2>4. \A r \in Runs : walk[r].by = h => walk'[r].by = h
      <3>1. \A r \in Runs : walk[r].by = h => walk[r].at # "idle"
        BY NewWalks DEF Walking, WalksOK, WalkOK
      <3> QED
        BY <1>0, <2>3, <3>1
    <2>5. CASE TimerFires
      <3>1. PICK r \in Runs : \E batch : Begins(r, batch)
        BY <2>5, FiresResult
      <3>2. /\ ~Active(r) /\ Active(r)'
        BY <3>1 DEF Begins, Active, Typed, RunsTyped, RunsIn
      <3>3. walk[r].at = "idle" /\ walk'[r].at # "idle"
        <4>1. WalksOK'
          BY <1>5, FiresWalk DEF Walking
        <4> QED
          BY <3>2, <4>1 DEF Walking, WalksOK, WalkOK
      <3>4. walk'[r].by = h
        <4>1. handler = h
          BY <2>2 DEF Working
        <4>2. PICK q \in Runs : walk' = [walk EXCEPT ![q] = Begun(handler)]
          BY <2>3, <3>3
        <4>3. q = r
          BY <1>0, <3>3, <4>2
        <4> QED
          BY <1>0, <4>1, <4>2, <4>3, NewWalks
      <3> QED
        BY <3>4 DEF Ahead
    <2>6. CASE ~TimerFires
      <3>1. pending' = pending
        BY <1>5, <2>6 DEF WakeTimerFires, TimerFiresIdle, TimerFiresWhileRunning
      <3> QED
        BY <1>1, <2>1, <2>2, <2>4, <3>1
    <2> QED
      BY <2>5, <2>6
  <1>6. CASE SetHeartbeatsEnabled \/ UNCHANGED vars
    BY <1>3, <1>6 DEF SetHeartbeatsEnabled, vars, wakeVars, runnerVars
  <1>7. ASSUME NEW k \in Handlers, StartRunner(k) PROVE Ahead(h)'
    <2>1. h = k /\ ScheduleNext(k, agents) /\ UNCHANGED stopped
      BY <1>7 DEF StartRunner, SetHandler, Working
    <2>2. alarm'[h] # Off
      BY <2>1, ScheduleNextResult DEF Walking, RunnerTyped, Working
    <2> QED
      BY <2>2 DEF Ahead
  <1>8. ASSUME NEW k \in Handlers, StopRunner(k) PROVE Ahead(h)'
    <2>1. /\ h # k /\ handler' = h /\ NoHandler # h
          /\ h \notin stopped
      BY <1>8, HeartbeatWakeAssumption DEF StopRunner, Working
    <2>2. handler = h
      BY <1>8, <2>1 DEF StopRunner, Dispose
    <2>3. /\ h \notin lapsed /\ alarm'[h] = alarm[h] /\ UNCHANGED <<pending, walk>>
      BY <1>8, <2>1 DEF StopRunner, Dispose, Walking, RunnerTyped
    <2> QED
      BY <1>1, <2>1, <2>2, <2>3 DEF Working
  <1>9. ASSUME NEW k \in Handlers, AlarmRings(k) PROVE Ahead(h)'
    <2>1. Request(Everyone, IntervalPriority, 0)
      BY <1>9 DEF AlarmRings
    <2> DEFINE wake == [target |-> Everyone, priority |-> IntervalPriority]
    <2>2. wake \in Wake /\ wake.target = Everyone /\ wake.priority = IntervalPriority
      BY Constants DEF Wake
    <2>3. pending' = Queued(pending, {wake})
      BY <2>1 DEF Request
    <2> HIDE DEF wake
    <2>4. pending'[Everyone] >= IntervalPriority
      BY <1>0, <2>2, <2>3, QueuedResult
    <2>5. pending'[Everyone] > 0
      BY <1>0, <2>2, <2>3, <2>4, PriorityTypes, QueuedResult DEF IntervalPriority
    <2> QED
      BY <2>5 DEF Ahead
  <1>10. ASSUME NEW k \in Handlers, UpdateConfig(k) PROVE Ahead(h)'
    <2>1. /\ agents' \in [Handlers -> [Agents -> AgentState]]
          /\ UNCHANGED <<handler, pending, stopped>>
          /\ \A r \in Runs : walk'[r].by = walk[r].by
      BY <1>10, UpdateResult DEF Walking, wakeVars
    <2>2. ScheduleNext(k, agents')
      BY <1>10 DEF UpdateConfig
    <2> QED
      BY <1>2, <2>1, <2>2
  <1>11. ASSUME NEW t \in Targets, NEW p \in Priorities, OthersRequest(t, p) PROVE Ahead(h)'
    <2> DEFINE wake == [target |-> t, priority |-> p]
    <2>1. /\ pending' = Queued(pending, {wake})
          /\ UNCHANGED <<alarm, walk, handler, stopped, lapsed>>
      BY <1>11 DEF OthersRequest, Request, runnerVars
    <2>2. wake \in Wake
      BY DEF Wake
    <2> HIDE DEF wake
    <2>3. pending'[Everyone] >= pending[Everyone] /\ pending'[Everyone] \in Nat
      BY <1>0, <2>1, <2>2, PriorityTypes, QueuedResult
    <2> QED
      BY <1>0, <1>1, <2>1, <2>3 DEF Working
  <1>12. ASSUME NEW r \in Runs, CallStep(r) PROVE Ahead(h)'
    <2>1. ASSUME HandlerDone(r) \/ HandlerBusy(r), WalksFollow
          PROVE  /\ walk[r].by \in Handlers
                 /\ UNCHANGED handler
                 /\ \A q \in Runs : walk[q].by = h => walk'[q].by = h \/ walk[r].by = h
      <3>1. /\ walk[r].at # "idle"
            /\ \/ walk' = [walk EXCEPT ![r] = NoWalk]
               \/ walk' = [walk EXCEPT ![r] = Begun(walk[r].by)]
        BY <2>1, AnswerWalk DEF Walking
      <3>2. UNCHANGED handler
        BY <2>1, AnswerResult DEF Ended, GoesOn
      <3> QED
        BY <1>0, <3>1, <3>2
    <2>2. CASE SkipCall(r)
      <3>1. HandlerDone(r) /\ WalksFollow /\ UNCHANGED <<alarm, stopped>>
            /\ lapsed' = lapsed \cup ({walk[r].by} \ stopped)
        BY <2>2 DEF SkipCall
      <3>2. Working(h) /\ walk[r].by # h /\ h \notin lapsed
        BY <2>1, <3>1 DEF Working
      <3>3. pending' = pending
        BY <3>1 DEF HandlerDone, RunGoesOn, RunEnds
      <3> QED
        BY <1>1, <2>1, <3>1, <3>2, <3>3
    <2>3. CASE EndCall(r)
      <3>1. HandlerDone(r) /\ WalksFollow /\ ScheduleNext(walk[r].by, agents)
            /\ UNCHANGED <<stopped, agents>>
        BY <2>3 DEF EndCall
      <3>2. pending' = pending
        BY <3>1 DEF HandlerDone, RunGoesOn, RunEnds
      <3>3. agents \in [Handlers -> [Agents -> AgentState]]
        BY DEF Walking, RunnerTyped
      <3> QED
        BY <1>2, <2>1, <3>1, <3>2, <3>3
    <2>4. ASSUME NEW a \in Agents, HeartbeatBusy(r, a) PROVE Ahead(h)'
      <3> DEFINE wake == Head(runs[r].batch)
      <3>1. HandlerBusy(r) /\ WalksFollow /\ UNCHANGED stopped
        BY <2>4 DEF HeartbeatBusy
      <3>2. pending' = Queued(pending, {wake})
        BY <3>1 DEF HandlerBusy, RunGoesOn, RunEnds
      <3>3. wake \in Wake /\ wake.priority \in Priorities
        BY <2>4, CalledFor DEF Walking, HeartbeatBusy, AtAgent
      <3>4. /\ pending' \in [Targets -> Priorities \cup {0}]
            /\ pending'[Everyone] >= pending[Everyone]
            /\ wake.target = Everyone => pending'[Everyone] >= wake.priority
        <4> HIDE DEF wake
        <4> QED
          BY <1>0, <3>2, <3>3, QueuedResult
      <3>5. CASE wake.target = Everyone
        <4>1. wake.priority \in 1..4 /\ pending'[Everyone] \in Nat
          <5> HIDE DEF wake
          <5>1. wake.priority \in 1..4
            BY <3>3, HeartbeatWakeAssumption
          <5>2. pending'[Everyone] \in 0..4
            BY <1>0, <3>4, PriorityTypes
          <5> QED
            BY <5>1, <5>2
        <4>2. pending'[Everyone] > 0
          BY <3>4, <3>5, <4>1
        <4> QED
          BY <4>2 DEF Ahead
      <3>6. CASE wake.target # Everyone
        <4>1. ScheduleNext(walk[r].by, Advanced(r, a))
          BY <2>4, <3>6 DEF HeartbeatBusy
        <4>2. Advanced(r, a) \in [Handlers -> [Agents -> AgentState]]
          BY <2>1, <3>1, AdvancedResult DEF Walking
        <4>3. pending[Everyone] > 0 => pending'[Everyone] > 0
          <5>1. pending'[Everyone] \in Nat
            BY <1>0, <3>4, PriorityTypes
          <5> QED
            BY <1>0, <3>4, <5>1
        <4> QED
          BY <1>2, <2>1, <3>1, <4>1, <4>2, <4>3
      <3> QED
        BY <3>5, <3>6
    <2>5. CASE BeginCall(r)
      <3>1. \A q \in Runs : walk'[q].by = walk[q].by
        BY <1>0, <2>5 DEF BeginCall, Walk
      <3> QED
        BY <1>1, <2>5, <3>1 DEF BeginCall, wakeVars, Working
    <2>6. ASSUME NEW a \in Agents,
                 \/ PassOver(r, a) \/ HeartbeatSkipped(r, a)
                 \/ HeartbeatBegins(r, a) \/ HeartbeatEnds(r, a)
          PROVE  Ahead(h)'
      <3>1. UNCHANGED <<handler, pending, alarm, stopped, lapsed>>
        BY <2>6 DEF PassOver, HeartbeatSkipped, HeartbeatBegins, HeartbeatEnds, wakeVars
      <3>2. \A q \in Runs : walk'[q].by = walk[q].by
        <4>1. CASE NextAgent(r)
          <5>1. walk' = [walk EXCEPT ![r].at = "next", ![r].todo = Tail(walk[r].todo)]
            BY <4>1 DEF NextAgent
          <5> QED
            BY <1>0, <5>1 DEF Walk
        <4>2. CASE walk' = [walk EXCEPT ![r].at = "agent"]
          BY <1>0, <4>2 DEF Walk
        <4> QED
          BY <2>6, <4>1, <4>2 DEF PassOver, HeartbeatSkipped, HeartbeatBegins, HeartbeatEnds
      <3> QED
        BY <1>1, <3>1, <3>2 DEF Working
    <2> QED
      BY <1>12, <2>2, <2>3, <2>4, <2>5, <2>6 DEF CallStep
  <1> QED
    BY <1>4, <1>5, <1>6, <1>7, <1>8, <1>9, <1>10, <1>11, <1>12 DEF Next

\* Only a step of its own call begins a heartbeat.
LEMMA BeginningIsACallStep ==
    ASSUME Typed, WakesTyped, Walking, [Next]_vars,
           NEW r \in Runs, walk[r].at = "next", walk'[r].at = "agent"
    PROVE  \E a \in Agents : HeartbeatBegins(r, a)
  <1>0. walk \in [Runs -> Walk] /\ \A q \in Runs : walk[q].at # "idle" => walk[q].by \in Handlers
    BY DEF Typed, RegisteredTyped, Walking, RunnerTyped, WalksOK, WalkOK
  <1>1. ~Settled
    BY DEF Settled
  <1>2. walk' # walk
    OBVIOUS
  <1>3. ASSUME NEW q \in Runs, CallStep(q) PROVE \E a \in Agents : HeartbeatBegins(r, a)
    <2>1. ASSUME HandlerDone(q) \/ HandlerBusy(q), WalksFollow PROVE FALSE
      <3>1. /\ walk[q].at # "idle"
            /\ \/ walk' = [walk EXCEPT ![q] = NoWalk]
               \/ walk' = [walk EXCEPT ![q] = Begun(walk[q].by)]
        BY <2>1, AnswerWalk DEF Walking
      <3> QED
        BY <1>0, <3>1, NewWalks
    <2>2. ASSUME NextAgent(q) PROVE FALSE
      <3>1. walk' = [walk EXCEPT ![q].at = "next", ![q].todo = Tail(walk[q].todo)]
        BY <2>2 DEF NextAgent
      <3> QED
        BY <1>0, <3>1 DEF Walk
    <2>3. ~BeginCall(q)
      BY <1>0 DEF BeginCall, Walk
    <2>4. PICK a \in Agents : HeartbeatBegins(q, a)
      BY <1>1, <1>3, <2>1, <2>2, <2>3
         DEF CallStep, SkipCall, EndCall, PassOver, HeartbeatSkipped, HeartbeatBusy, HeartbeatEnds
    <2>5. q = r
      BY <1>0, <2>4 DEF HeartbeatBegins, Walk
    <2> QED
      BY <2>4, <2>5
  <1> QED
    BY <1>1, <1>2, <1>3
       DEF Next, Tick, WakeTimerFires, SetHeartbeatsEnabled, StartRunner, StopRunner, AlarmRings,
           UpdateConfig, OthersRequest, vars, runnerVars

-----------------------------------------------------------------------------
(* The inductive invariant of the runner, and the theorems. *)

RunnerInv == IInv /\ Walking /\ Quiet /\ StaysScheduled

LEMMA RunnerInit == Init => RunnerInv
  <1> SUFFICES ASSUME Init PROVE RunnerInv
    OBVIOUS
  <1> USE Constants, NewWalks
  <1>1. IInv
    BY InitHolds DEF Init
  <1>2. RunnerTyped
    <2>1. [left |-> Interval, ran |-> FALSE] \in AgentState
      BY DEF AgentState
    <2> QED
      BY <2>1 DEF Init, RunnerTyped, Off
  <1>3. \A r \in Runs : walk[r] = NoWalk /\ ~Active(r)
    BY DEF Init, WakeInit, Active, NoRun
  <1>4. WalksOK /\ CallsFollow
    BY <1>3 DEF WalksOK, WalkOK, CallsFollow
  <1>5. Quiet
    BY <1>3 DEF Init, Quiet, DueIsQuiet, AdvanceIsQuiet
  <1>6. StaysScheduled
    BY DEF Init, WakeInit, StaysScheduled, Working
  <1> QED
    BY <1>1, <1>2, <1>4, <1>5, <1>6 DEF RunnerInv, Walking

LEMMA RunnerInvariance == Spec => []RunnerInv
  <1>1. RunnerInv /\ [Next]_vars => RunnerInv'
    <2> SUFFICES ASSUME RunnerInv, [Next]_vars PROVE RunnerInv'
      OBVIOUS
    <2>1. IInv /\ Typed /\ WakesTyped /\ TimerTyped
      BY DEF RunnerInv, IInv, Typed, Kept
    <2>2. [WakeNext]_wakeVars
      BY <2>1, RunnerUsesWakes
    <2>3. IInv'
      BY <2>1, <2>2, TypedStep, FlagsStep, OverlapStep, ScheduledStep, KeptStep DEF IInv
    <2>4. Walking'
      BY <2>1, WalkingStep DEF RunnerInv
    <2>5. Quiet'
      BY <2>1, QuietStep DEF RunnerInv
    <2>6. StaysScheduled'
      BY <2>1, ScheduleStep DEF RunnerInv
    <2> QED
      BY <2>3, <2>4, <2>5, <2>6 DEF RunnerInv
  <1> QED
    BY <1>1, RunnerInit, PTL DEF Spec

\* The runner's state has the type it should have, and a run of the wake layer awaits a
\* call of a runner from its start to its end.
THEOREM RunnerTypeCorrect == Spec => []RunnerTypeOK
  <1>1. RunnerInv => RunnerTypeOK
    BY DEF RunnerInv, Walking, WalksOK, WalkOK, RunnerTyped, RunnerTypeOK, AgentState
  <1> QED
    BY <1>1, RunnerInvariance, PTL

\* A working runner has an alarm, a wake for everyone that is pending, or a call under way:
\* heartbeats end only when they are disabled (scheduleNext, and what requestHeartbeatNow
\* and a busy lane leave pending).
THEOREM HeartbeatsStayScheduled == Spec => []StaysScheduled
  <1>1. RunnerInv => StaysScheduled
    BY DEF RunnerInv
  <1> QED
    BY <1>1, RunnerInvariance, PTL

\* No agent's interval heartbeat comes before its interval is over, whatever wakes come in
\* between, for a runner that never had two calls under way.
THEOREM HeartbeatsDoNotRepeat == Spec => NoRepetition
  <1>1. RunnerInv /\ [Next]_vars
           => [\A r \in Runs :
                 BeginsInterval(r) /\ walk[r].by \notin overlapped
                    => quiet[walk[r].by][Head(walk[r].todo)] = 0]_vars
    <2> SUFFICES ASSUME RunnerInv, [Next]_vars, NEW r \in Runs,
                        BeginsInterval(r), walk[r].by \notin overlapped
                 PROVE  quiet[walk[r].by][Head(walk[r].todo)] = 0
      OBVIOUS
    <2>1. Typed /\ WakesTyped /\ Walking /\ Quiet
      BY DEF RunnerInv, IInv, Kept
    <2>2. PICK a \in Agents : HeartbeatBegins(r, a)
      BY <2>1, BeginningIsACallStep DEF BeginsInterval
    <2>3. /\ walk[r].at = "next" /\ Head(walk[r].todo) = a
          /\ agents[walk[r].by][a].left = 0
      BY <2>2 DEF HeartbeatBegins, AtAgent, DueFor, BeginsInterval
    <2>4. walk[r].by \in Handlers
      BY <2>1, <2>3 DEF Typed, RegisteredTyped, Walking, WalksOK, WalkOK
    <2>5. ASSUME NEW q \in Runs, AtWorkFor(q, walk[r].by, a) PROVE FALSE
      BY <2>1, <2>3, <2>5 DEF AtWorkFor, Walking, CallsFollow
    <2>6. quiet[walk[r].by][a] <= 0
      BY <2>1, <2>3, <2>4, <2>5 DEF Quiet, DueIsQuiet
    <2>7. quiet[walk[r].by][a] \in 0..Interval
      BY <2>1, <2>4 DEF Walking, RunnerTyped
    <2> QED
      BY <2>3, <2>6, <2>7, Constants
  <1> QED
    BY <1>1, RunnerInvariance, PTL DEF Spec, NoRepetition
=============================================================================
