------------------------- MODULE DeliveryQueueProofs -------------------------
(* What the delivery queue promises (DeliveryQueueProperties), proved for any *)
(* deliveries, payloads, retries and faults: that its state has its types and *)
(* no retry count passes its bound, that nothing written ahead is lost, that  *)
(* entries are given up only for cause, and that what was acknowledged is not *)
(* sent again.                                                                *)
EXTENDS DeliveryQueueProperties, FiniteSetTheorems, TLAPS

IsJob(j) ==
    /\ DOMAIN j = {"at", "by", "entry", "part", "partial", "queued", "seen"}
    /\ j.part \in Nat \ {0}

FilesTyped ==
    /\ disk \in [Deliveries -> SUBSET {"json", "delivered", "failed"}]
    /\ retry \in [Deliveries -> Nat]
    /\ order \in Seq(Deliveries)
    /\ listed \subseteq Deliveries
    /\ todo \subseteq [id : Deliveries, seen : Nat]

JobsTyped ==
    /\ DOMAIN job = Senders
    /\ \A s \in Senders : IsJob(job[s])
    /\ \A d \in Deliveries : job[d].entry = d
    /\ \A d \in Deliveries : job[d].at \in {"idle", "enqueue"} => job[d].part = 1
    /\ \A s \in Senders : job[s].at = "write" /\ job[s].entry \in Deliveries => job[s].seen \in Nat

HistoryTyped ==
    /\ sent \in [Deliveries -> SUBSET Nat]
    /\ \A d \in Deliveries : sent[d] \subseteq 1..Payloads[d]
    /\ failures \in [Deliveries -> 0..MaxRetries]

Typed == FilesTyped /\ JobsTyped /\ HistoryTyped

-----------------------------------------------------------------------------
(* What the steps do to the jobs, and the types of all. *)

LEMMA UnemployedIsJob ==
    ASSUME NEW d
    PROVE  IsJob(Unemployed(d)) /\ Unemployed(d).entry = d /\ Unemployed(d).part = 1
  BY DEF Unemployed, IsJob

\* Sender s goes on, but not to the start of a delivery.
Moved(s) ==
    \/ \E at \in {"ack", "unlink", "move", "read", "done", "loop"} : Go(s, at)
    \/ s = Recovery /\ \E at \in {"idle", "scan", "load"} : Go(s, at)

LEMMA MovedResult ==
    ASSUME JobsTyped, NEW s \in Senders, Moved(s)
    PROVE  JobsTyped'
  BY DeliveryQueueAssumption DEF JobsTyped, Moved, Go, IsJob, Senders

LEMMA StepsMove ==
    ASSUME NEW s \in Senders,
           \/ SendingEnds(s) \/ AckRename(s) \/ AckThrows(s) \/ AckUnlink(s)
           \/ FailWrite(s) \/ FailThrows(s)
           \/ \E kind \in {"transient", "permanent", "abort"} : Throw(s, kind)
    PROVE  Moved(s)
  BY DEF Moved, SendingEnds, AckRename, AckThrows, AckUnlink, FailWrite, FailThrows, Throw,
         Settle, AfterError, Rest

LEMMA RecoveryMoves ==
    ASSUME StartGateway \/ ScanQueueDir \/ LoadingEnds \/ MoveToFailed \/ RecoveryEnds
    PROVE  Moved(Recovery)
  BY DEF Moved, StartGateway, ScanQueueDir, LoadingEnds, MoveToFailed, RecoveryEnds

LEMMA CountResult ==
    ASSUME HistoryTyped, NEW d, CountFailure(d)
    PROVE  /\ failures' \in [Deliveries -> 0..MaxRetries]
           /\ \A e \in Deliveries : e # d => failures'[e] = failures[e]
           /\ d \in Deliveries
              => failures'[d] = IF failures[d] < MaxRetries THEN failures[d] + 1 ELSE failures[d]
  <1>1. failures \in [Deliveries -> 0..MaxRetries] /\ MaxRetries \in Nat
    BY DeliveryQueueAssumption DEF HistoryTyped
  <1>2. CASE d \in Deliveries
    <2>1. (IF failures[d] < MaxRetries THEN failures[d] + 1 ELSE failures[d]) \in 0..MaxRetries
      BY <1>1, <1>2
    <2> QED
      BY <1>1, <1>2, <2>1 DEF CountFailure
  <1>3. CASE d \notin Deliveries
    BY <1>1, <1>3 DEF CountFailure
  <1> QED
    BY <1>2, <1>3

LEMMA KilledResult ==
    ASSUME JobsTyped, NEW s \in Senders
    PROVE  /\ IsJob(Killed(s))
           /\ s \in Deliveries => Killed(s).entry = s
           /\ s \in Deliveries /\ Killed(s).at \in {"idle", "enqueue"} => Killed(s).part = 1
           /\ Killed(s) = job[s] \/ Killed(s).at \in {"idle", "done"}
  BY DeliveryQueueAssumption DEF JobsTyped, Killed, Unemployed, IsJob, Senders

LEMMA ProcessesTyped ==
    ASSUME Typed,
           \/ StartGateway \/ GatewayDies
           \/ \E d \in Deliveries : CommandLineDies(d) \/ EnqueueDelivery(d)
           \/ \E d \in Deliveries, by \in {"gateway", "cli"} : Deliver(d, by)
    PROVE  Typed'
  <1>1. CASE StartGateway
    BY <1>1, RecoveryMoves, MovedResult
    DEF StartGateway, files, plan, history, Typed, FilesTyped, HistoryTyped, Senders
  <1>2. CASE GatewayDies
    <2>1. JobsTyped'
      BY <1>2, KilledResult DEF GatewayDies, Typed, JobsTyped, Senders
    <2> QED
      BY <1>2, <2>1 DEF GatewayDies, files, history, Typed, FilesTyped, HistoryTyped
  <1>3. ASSUME NEW d \in Deliveries, CommandLineDies(d) PROVE Typed'
    <2>1. JobsTyped'
      BY <1>3, KilledResult, DeliveryQueueAssumption
      DEF CommandLineDies, Typed, JobsTyped, Senders
    <2> QED
      BY <1>3, <2>1 DEF CommandLineDies, files, plan, history, Typed, FilesTyped, HistoryTyped
  <1>4. ASSUME NEW d \in Deliveries, EnqueueDelivery(d) PROVE Typed'
    <2>1. JobsTyped'
      <3>1. \/ job' = [job EXCEPT ![d].at = "send", ![d].queued = TRUE]
            \/ job' = [job EXCEPT ![d].at = "send"]
        BY <1>4 DEF EnqueueDelivery
      <3> QED
        BY <3>1, DeliveryQueueAssumption DEF Typed, JobsTyped, Senders, IsJob
    <2>2. disk' \in [Deliveries -> SUBSET {"json", "delivered", "failed"}]
      BY <1>4 DEF EnqueueDelivery, Typed, FilesTyped
    <2>3. order' \in Seq(Deliveries)
      <3>1. order' = Append(order, d) \/ order' = order
        BY <1>4 DEF EnqueueDelivery
      <3>2. Append(order, d) \in Seq(Deliveries)
        BY <1>4 DEF Typed, FilesTyped
      <3> QED
        BY <3>1, <3>2 DEF Typed, FilesTyped
    <2>4. UNCHANGED <<retry, listed, todo>>
      BY <1>4 DEF EnqueueDelivery, plan
    <2>5. FilesTyped'
      BY <2>2, <2>3, <2>4 DEF Typed, FilesTyped
    <2> QED
      BY <1>4, <2>1, <2>5 DEF EnqueueDelivery, history, Typed, HistoryTyped
  <1>5. ASSUME NEW d \in Deliveries, NEW by, Deliver(d, by) PROVE Typed'
    <2>1. JobsTyped'
      BY <1>5, DeliveryQueueAssumption DEF Deliver, Typed, JobsTyped, Senders, IsJob
    <2> QED
      BY <1>5, <2>1 DEF Deliver, files, plan, history, Typed, FilesTyped, HistoryTyped
  <1> QED
    BY <1>1, <1>2, <1>3, <1>4, <1>5

LEMMA SendingTyped ==
    ASSUME Typed, NEW s \in Senders,
           \/ SendPayload(s) \/ SendErrorIgnored(s) \/ SendingEnds(s) \/ MirrorThrows(s)
           \/ \E kind \in {"transient", "permanent", "abort"} : SendThrows(s, kind)
    PROVE  Typed'
  <1>1. FilesTyped'
    BY DEF SendPayload, SendErrorIgnored, SendingEnds, MirrorThrows, SendThrows, files, plan,
           Typed, FilesTyped
  <1>2. ASSUME NEW kind \in {"transient", "permanent", "abort"}, Throw(s, kind)
        PROVE  JobsTyped' /\ failures' \in [Deliveries -> 0..MaxRetries]
    <2>1. JobsTyped'
      BY <1>2, StepsMove, MovedResult DEF Typed
    <2>2. failures' = failures \/ CountFailure(job[s].entry)
      BY <1>2 DEF Throw
    <2> QED
      BY <2>1, <2>2, CountResult DEF Typed, HistoryTyped
  <1>3. CASE SendPayload(s)
    <2>1. JobsTyped'
      BY <1>3, DeliveryQueueAssumption DEF SendPayload, Unsent, Typed, JobsTyped, Senders, IsJob
    <2>2. HistoryTyped'
      <3>1. \/ job[s].part \in Nat /\ job[s].part \in 1..Payloads[job[s].entry]
            \/ job[s].entry \notin Deliveries
        BY <1>3, DeliveryQueueAssumption DEF SendPayload, Unsent, Typed, JobsTyped, IsJob
      <3>2. UNCHANGED failures
        BY <1>3 DEF SendPayload
      <3> QED
        BY <1>3, <3>1, <3>2 DEF SendPayload, Typed, HistoryTyped
    <2> QED
      BY <1>1, <2>1, <2>2 DEF Typed
  <1>4. CASE SendErrorIgnored(s)
    <2>1. JobsTyped'
      BY <1>4, DeliveryQueueAssumption
      DEF SendErrorIgnored, Unsent, Typed, JobsTyped, Senders, IsJob
    <2> QED
      BY <1>1, <1>4, <2>1 DEF SendErrorIgnored, history, Typed, HistoryTyped
  <1>5. CASE SendingEnds(s)
    <2>1. JobsTyped'
      BY <1>5, StepsMove, MovedResult DEF Typed
    <2>2. failures' = failures \/ CountFailure(job[s].entry)
      BY <1>5 DEF SendingEnds
    <2> QED
      BY <1>1, <1>5, <2>1, <2>2, CountResult DEF SendingEnds, Typed, HistoryTyped
  <1>6. CASE MirrorThrows(s)
    BY <1>1, <1>2, <1>6 DEF MirrorThrows, Typed, HistoryTyped
  <1>7. ASSUME NEW kind \in {"transient", "permanent", "abort"}, SendThrows(s, kind) PROVE Typed'
    <2>1. /\ sent' \in [Deliveries -> SUBSET Nat]
          /\ \A d \in Deliveries : sent'[d] \subseteq 1..Payloads[d]
      BY <1>7, DeliveryQueueAssumption
      DEF SendThrows, Unsent, Typed, JobsTyped, HistoryTyped, IsJob
    <2> QED
      BY <1>1, <1>2, <1>7, <2>1 DEF SendThrows, Typed, HistoryTyped
  <1> QED
    BY <1>3, <1>4, <1>5, <1>6, <1>7

LEMMA UpdatingTyped ==
    ASSUME Typed, NEW s \in Senders,
           \/ AckRename(s) \/ AckThrows(s) \/ AckUnlink(s)
           \/ FailRead(s) \/ FailWrite(s) \/ FailThrows(s)
    PROVE  Typed'
  <1>1. CASE AckRename(s)
    BY <1>1, StepsMove, MovedResult DEF AckRename, env, plan, Typed, FilesTyped, HistoryTyped
  <1>2. CASE AckThrows(s)
    <2>1. JobsTyped'
      BY <1>2, StepsMove, MovedResult DEF Typed
    <2>2. failures' = failures \/ CountFailure(job[s].entry)
      BY <1>2 DEF AckThrows
    <2> QED
      BY <1>2, <2>1, <2>2, CountResult DEF AckThrows, files, plan, Typed, FilesTyped, HistoryTyped
  <1>3. CASE AckUnlink(s)
    <2>1. JobsTyped'
      BY <1>3, StepsMove, MovedResult DEF Typed
    <2> QED
      BY <1>3, <2>1 DEF AckUnlink, plan, history, Typed, FilesTyped, HistoryTyped
  <1>4. CASE FailRead(s)
    <2>1. job[s].entry \in Deliveries => retry[job[s].entry] \in Nat
      BY DEF Typed, FilesTyped
    <2>2. JobsTyped'
      BY <1>4, <2>1, DeliveryQueueAssumption DEF FailRead, Typed, JobsTyped, IsJob, Senders
    <2> QED
      BY <1>4, <2>2 DEF FailRead, files, plan, history, Typed, FilesTyped, HistoryTyped
  <1>5. CASE FailWrite(s)
    <2>1. JobsTyped'
      BY <1>5, StepsMove, MovedResult DEF Typed
    <2>2. job[s].entry \in Deliveries => RetryCount(job[s].seen) \in Nat
      BY <1>5 DEF FailWrite, RetryCount, Typed, JobsTyped
    <2>3. FilesTyped'
      BY <1>5, <2>2 DEF FailWrite, plan, Typed, FilesTyped
    <2> QED
      BY <1>5, <2>1, <2>3 DEF FailWrite, history, Typed, HistoryTyped
  <1>6. CASE FailThrows(s)
    <2>1. JobsTyped'
      BY <1>6, StepsMove, MovedResult DEF Typed
    <2> QED
      BY <1>6, <2>1 DEF FailThrows, files, plan, history, Typed, FilesTyped, HistoryTyped
  <1> QED
    BY <1>1, <1>2, <1>3, <1>4, <1>5, <1>6

LEMMA TakeResult ==
    ASSUME Typed, NEW e \in todo, NEW at, Take(e, at), at \in {"move", "send", "loop"}
    PROVE  Typed'
  <1>1. JobsTyped'
    BY UnemployedIsJob, DeliveryQueueAssumption
    DEF Take, Typed, JobsTyped, IsJob, Unemployed, Senders
  <1> QED
    BY <1>1 DEF Take, files, history, Typed, FilesTyped, HistoryTyped

LEMMA RecoveryTyped == ASSUME Typed, RecoveryStep PROVE Typed'
  <1>1. CASE ScanQueueDir
    <2>1. JobsTyped'
      BY <1>1, RecoveryMoves, MovedResult DEF Typed, Senders
    <2>2. disk' \in [Deliveries -> SUBSET {"json", "delivered", "failed"}]
      BY <1>1 DEF ScanQueueDir, Swept, Typed, FilesTyped
    <2>3. UNCHANGED <<retry, order, todo, sent, failures>> /\ listed' \subseteq Deliveries
      BY <1>1 DEF ScanQueueDir
    <2> QED
      BY <2>1, <2>2, <2>3 DEF Typed, FilesTyped, HistoryTyped
  <1>2. CASE LoadEntry
    <2>1. UNCHANGED <<disk, retry, order, job, sent, failures>>
      BY <1>2 DEF LoadEntry, files, history
    <2>2. listed' \subseteq Deliveries /\ todo' \subseteq [id : Deliveries, seen : Nat]
      BY <1>2 DEF LoadEntry, Typed, FilesTyped
    <2> QED
      BY <2>1, <2>2 DEF Typed, FilesTyped, JobsTyped, HistoryTyped
  <1>3. CASE LoadingEnds
    <2>1. JobsTyped'
      BY <1>3, RecoveryMoves, MovedResult DEF Typed, Senders
    <2> QED
      BY <1>3, <2>1 DEF LoadingEnds, files, plan, history, Typed, FilesTyped, HistoryTyped
  <1>4. CASE GiveUp \/ Defer \/ \E d \in Deliveries : RetryEntry(d)
    BY <1>4, TakeResult DEF GiveUp, Defer, RetryEntry
  <1>5. CASE MoveToFailed
    <2>1. JobsTyped'
      BY <1>5, RecoveryMoves, MovedResult DEF Typed, Senders
    <2>2. disk' \in [Deliveries -> SUBSET {"json", "delivered", "failed"}]
      BY <1>5 DEF MoveToFailed, Typed, FilesTyped
    <2> QED
      BY <1>5, <2>1, <2>2 DEF MoveToFailed, plan, history, Typed, FilesTyped, HistoryTyped
  <1>6. CASE RecoveryEnds
    <2>1. JobsTyped'
      BY <1>6, RecoveryMoves, MovedResult DEF Typed, Senders
    <2> QED
      BY <1>6, <2>1 DEF RecoveryEnds, files, history, Typed, FilesTyped, HistoryTyped
  <1> QED
    BY <1>1, <1>2, <1>3, <1>4, <1>5, <1>6 DEF RecoveryStep

LEMMA TypedStep == Typed /\ [Next]_vars => Typed'
  <1> SUFFICES ASSUME Typed, [Next]_vars PROVE Typed'
    OBVIOUS
  <1>1. CASE UNCHANGED vars
    BY <1>1 DEF vars, files, plan, history, Typed, FilesTyped, JobsTyped, HistoryTyped
  <1>2. CASE \E s \in Senders : Step(s)
    BY <1>2, SendingTyped, UpdatingTyped DEF Step
  <1> QED
    BY <1>1, <1>2, ProcessesTyped, RecoveryTyped DEF Next

-----------------------------------------------------------------------------
(* Nothing is lost, as long as no delivery is one of best effort: a sender   *)
(* has sent what is ahead of its place, and acknowledges nothing else.       *)

Went(s) ==
    job[s].entry \in Deliveries
    => /\ job[s].at = "send" => \A p \in 1..Payloads[job[s].entry] :
                                   p < job[s].part => p \in sent[job[s].entry]
       /\ job[s].at = "ack" => Sent(job[s].entry) \/ job[s].entry \in aborted

Ahead == \A s \in Senders : Went(s)

\* What was sent stays sent, and what was aborted stays aborted.
Grows ==
    /\ \A d \in Deliveries : sent[d] \subseteq sent'[d]
    /\ aborted \subseteq aborted'

LEMMA HistoryGrows == ASSUME Typed, [Next]_vars PROVE Grows
  <1>1. ASSUME NEW s \in Senders, SendPayload(s) PROVE Grows
    BY <1>1 DEF SendPayload, Grows, Typed, HistoryTyped
  <1>2. ASSUME NEW s \in Senders, NEW kind, SendThrows(s, kind) PROVE Grows
    BY <1>2 DEF SendThrows, Throw, Grows, Typed, HistoryTyped
  <1>3. ASSUME NEW s \in Senders, MirrorThrows(s) PROVE Grows
    BY <1>3 DEF MirrorThrows, Throw, Grows
  <1>4. ASSUME UNCHANGED <<sent, aborted>> PROVE Grows
    BY <1>4 DEF Grows
  <1>5. ASSUME NEW s \in Senders, Step(s) PROVE Grows
    BY <1>1, <1>2, <1>3, <1>4, <1>5
    DEF Step, SendErrorIgnored, SendingEnds, AckRename, AckThrows, AckUnlink, FailRead, FailWrite,
        FailThrows, history
  <1>6. ASSUME RecoveryStep PROVE Grows
    BY <1>4, <1>6
    DEF RecoveryStep, ScanQueueDir, LoadEntry, LoadingEnds, GiveUp, Defer, RetryEntry, Take,
        MoveToFailed, RecoveryEnds, history
  <1>7. CASE UNCHANGED vars
    BY <1>4, <1>7 DEF vars, history
  <1> QED
    BY <1>4, <1>5, <1>6, <1>7
    DEF Next, StartGateway, GatewayDies, CommandLineDies, EnqueueDelivery, Deliver, history

LEMMA WentAsBefore ==
    ASSUME Typed, Typed', Grows, NEW s \in Senders, Went(s), job'[s] = job[s]
    PROVE  Went(s)'
  BY DEF Went, Grows, Sent, Typed, HistoryTyped

LEMMA WentByOthers ==
    ASSUME Typed, Typed', Grows, Ahead, NEW s \in Senders,
           \A t \in Senders \ {s} : job'[t] = job[t], Went(s)'
    PROVE  Ahead'
  BY WentAsBefore DEF Ahead

\* Whoever is neither sending nor about to acknowledge has nothing to account for.
LEMMA WentElsewhere ==
    ASSUME Typed, Typed', Grows, Ahead, NEW s \in Senders,
           \E at \in {"unlink", "move", "read", "done", "loop", "idle", "scan", "load"} : Go(s, at)
    PROVE  Ahead'
  <1>1. \A t \in Senders \ {s} : job'[t] = job[t]
    BY DEF Go, Typed, JobsTyped
  <1>2. job'[s].at \notin {"send", "ack"}
    BY DEF Go, Typed, JobsTyped, IsJob
  <1> QED
    BY <1>1, <1>2, WentByOthers DEF Went

LEMMA AheadStep ==
    ASSUME BestEffort = {}, Typed, Ahead, [Next]_vars
    PROVE  Ahead'
  <1>t. Typed' /\ Grows
    BY TypedStep, HistoryGrows
  <1>1. ASSUME UNCHANGED job PROVE Ahead'
    BY <1>1, <1>t, WentAsBefore DEF Ahead
  <1>2. CASE GatewayDies
    <2>1. ASSUME NEW s \in Senders PROVE Went(s)'
      <3>1. job'[s] = job[s] \/ job'[s].at \in {"idle", "done"}
        BY <1>2, <2>1, KilledResult DEF GatewayDies, Typed
      <3> QED
        BY <1>t, <2>1, <3>1, WentAsBefore DEF Ahead, Went
    <2> QED
      BY <2>1 DEF Ahead
  <1>3. ASSUME NEW d \in Deliveries, CommandLineDies(d) PROVE Ahead'
    <2>1. \A t \in Senders \ {d} : job'[t] = job[t]
      BY <1>3 DEF CommandLineDies, Typed, JobsTyped
    <2>2. job'[d] = job[d] \/ job'[d].at \in {"idle", "done"}
      BY <1>3, KilledResult DEF CommandLineDies, Typed, JobsTyped, Senders
    <2> QED
      BY <1>3, <1>t, <2>1, <2>2, WentByOthers, WentAsBefore DEF Ahead, Went, Senders
  <1>4. ASSUME NEW d \in Deliveries, EnqueueDelivery(d) PROVE Ahead'
    <2>1. job[d].at = "enqueue" /\ job[d].part = 1
      BY <1>4 DEF EnqueueDelivery, Typed, JobsTyped
    <2>2. \/ job' = [job EXCEPT ![d].at = "send", ![d].queued = TRUE]
          \/ job' = [job EXCEPT ![d].at = "send"]
      BY <1>4 DEF EnqueueDelivery
    <2>3. \A t \in Senders \ {d} : job'[t] = job[t]
      BY <2>2 DEF Typed, JobsTyped
    <2>4. job'[d].at = "send" /\ job'[d].part = 1
      BY <1>4, <2>1, <2>2 DEF Typed, JobsTyped, IsJob, Senders
    <2>5. Went(d)'
      BY <2>4, DeliveryQueueAssumption DEF Went
    <2> QED
      BY <1>4, <1>t, <2>3, <2>5, WentByOthers DEF Senders
  <1>5. ASSUME NEW d \in Deliveries, NEW by, Deliver(d, by) PROVE Ahead'
    <2>1. \A t \in Senders \ {d} : job'[t] = job[t]
      BY <1>5 DEF Deliver, Typed, JobsTyped
    <2>2. job'[d].at = "enqueue"
      BY <1>5 DEF Deliver, Typed, JobsTyped, IsJob, Senders
    <2> QED
      BY <1>5, <1>t, <2>1, <2>2, WentByOthers DEF Went, Senders
  <1>6. ASSUME NEW s \in Senders, SendPayload(s) PROVE Ahead'
    <2>1. job' = [job EXCEPT ![s].part = @ + 1] /\ job[s].at = "send"
      BY <1>6 DEF SendPayload, Unsent
    <2>2. \A t \in Senders \ {s} : job'[t] = job[t]
      BY <2>1 DEF Typed, JobsTyped
    <2>3. /\ job'[s].at = "send" /\ job'[s].entry = job[s].entry /\ job[s].part \in Nat
          /\ job'[s].part = job[s].part + 1
      BY <1>6, <2>1 DEF Typed, JobsTyped, IsJob
    <2>4. job[s].entry \in Deliveries => job[s].part \in sent'[job[s].entry]
      BY <1>6 DEF SendPayload, Typed, HistoryTyped
    <2>5. ASSUME job[s].entry \in Deliveries, NEW p \in 1..Payloads[job[s].entry],
                 p < job[s].part + 1
          PROVE  p \in sent'[job[s].entry]
      <3>1. p < job[s].part \/ p = job[s].part
        BY <2>3, <2>5, DeliveryQueueAssumption
      <3> QED
        BY <1>6, <1>t, <2>1, <2>4, <2>5, <3>1 DEF Ahead, Went, Grows
    <2>6. Went(s)'
      BY <2>3, <2>5 DEF Went
    <2> QED
      BY <1>6, <1>t, <2>2, <2>6, WentByOthers
  <1>7. ASSUME NEW s \in Senders, Throw(s, "transient") \/ Throw(s, "permanent") PROVE Ahead'
    <2>1. Go(s, "move") \/ Go(s, "read") \/ Go(s, "done")
      BY <1>7 DEF Throw, Settle, AfterError
    <2> QED
      BY <1>7, <1>t, <2>1, WentElsewhere
  <1>8. ASSUME NEW s \in Senders, Throw(s, "abort") PROVE Ahead'
    <2>1. Go(s, "ack") \/ Go(s, "done")
      BY <1>8 DEF Throw, Settle, AfterError
    <2>2. ASSUME Go(s, "ack") PROVE Ahead'
      <3>1. \A t \in Senders \ {s} : job'[t] = job[t]
        BY <2>2 DEF Go, Typed, JobsTyped
      <3>2. job'[s].at = "ack" /\ job'[s].entry = job[s].entry
        BY <1>8, <2>2 DEF Go, Typed, JobsTyped, IsJob
      <3>3. job[s].entry \in aborted'
        BY <1>8 DEF Throw
      <3> QED
        BY <1>8, <1>t, <3>1, <3>2, <3>3, WentByOthers DEF Went
    <2> QED
      BY <1>8, <1>t, <2>1, <2>2, WentElsewhere
  <1>9. ASSUME NEW s \in Senders, SendingEnds(s) PROVE Ahead'
    <2>1. Go(s, "ack") \/ Go(s, "done") \/ Go(s, "read")
      BY <1>9 DEF SendingEnds, Settle
    <2>2. ASSUME Go(s, "ack") PROVE Ahead'
      <3>1. \A t \in Senders \ {s} : job'[t] = job[t]
        BY <2>2 DEF Go, Typed, JobsTyped
      <3>2. job'[s].at = "ack" /\ job'[s].entry = job[s].entry
        BY <1>9, <2>2 DEF Go, Typed, JobsTyped, IsJob
      <3>3. ASSUME job[s].entry \in Deliveries PROVE Sent(job[s].entry)
        <4>1. job[s].at = "send" /\ job[s].part > Payloads[job[s].entry]
          BY <1>9, <3>3, DeliveryQueueAssumption
          DEF SendingEnds, Unsent, Typed, JobsTyped, IsJob
        <4>2. \A p \in 1..Payloads[job[s].entry] : p \in sent[job[s].entry]
          BY <1>9, <3>3, <4>1, DeliveryQueueAssumption
          DEF Ahead, Went, Typed, JobsTyped, IsJob
        <4> QED
          BY <3>3, <4>2 DEF Sent, Typed, HistoryTyped
      <3>4. UNCHANGED sent
        BY <1>9 DEF SendingEnds
      <3> QED
        BY <1>9, <1>t, <3>1, <3>2, <3>3, <3>4, WentByOthers DEF Went, Sent
    <2> QED
      BY <1>9, <1>t, <2>1, <2>2, WentElsewhere
  <1>10. ASSUME NEW s \in Senders,
                \/ AckRename(s) \/ AckThrows(s) \/ AckUnlink(s) \/ FailWrite(s) \/ FailThrows(s)
         PROVE  Ahead'
    <2>1. Go(s, "unlink") \/ Go(s, "read") \/ Go(s, "done") \/ Go(s, "loop")
      BY <1>10 DEF AckRename, AckThrows, AckUnlink, FailWrite, FailThrows, Rest
    <2> QED
      BY <1>10, <1>t, <2>1, WentElsewhere
  <1>11. ASSUME NEW s \in Senders, FailRead(s) PROVE Ahead'
    <2>1. \A t \in Senders \ {s} : job'[t] = job[t]
      BY <1>11 DEF FailRead, Typed, JobsTyped
    <2>2. job'[s].at = "write"
      BY <1>11 DEF FailRead, Typed, JobsTyped, IsJob
    <2> QED
      BY <1>11, <1>t, <2>1, <2>2, WentByOthers DEF Went
  <1>12. CASE StartGateway \/ ScanQueueDir \/ LoadingEnds \/ MoveToFailed \/ RecoveryEnds
    <2>1. \E at \in {"scan", "load", "loop", "idle"} : Go(Recovery, at)
      BY <1>12 DEF StartGateway, ScanQueueDir, LoadingEnds, MoveToFailed, RecoveryEnds
    <2> QED
      BY <1>t, <2>1, WentElsewhere DEF Senders
  <1>13. ASSUME NEW e \in todo, NEW at, Take(e, at), at \in {"move", "send", "loop"} PROVE Ahead'
    <2>1. \A t \in Senders \ {Recovery} : job'[t] = job[t]
      BY <1>13 DEF Take, Typed, JobsTyped
    <2>2. job'[Recovery].at # "ack" /\ job'[Recovery].part = 1
      BY <1>13 DEF Take, Typed, JobsTyped, Unemployed, Senders
    <2>3. Went(Recovery)'
      BY <2>2, DeliveryQueueAssumption DEF Went
    <2> QED
      BY <1>t, <2>1, <2>3, WentByOthers DEF Senders
  <1>14. ASSUME RecoveryStep PROVE Ahead'
    BY <1>1, <1>12, <1>13, <1>14 DEF RecoveryStep, LoadEntry, GiveUp, Defer, RetryEntry
  <1>15. ASSUME NEW s \in Senders, Step(s) PROVE Ahead'
    BY <1>6, <1>7, <1>8, <1>9, <1>10, <1>11, <1>15
    DEF Step, SendErrorIgnored, MirrorThrows, SendThrows
  <1>16. CASE UNCHANGED vars
    BY <1>1, <1>16 DEF vars
  <1> QED
    BY <1>2, <1>3, <1>4, <1>5, <1>12, <1>14, <1>15, <1>16 DEF Next

LEMMA LostStep ==
    ASSUME Typed, Ahead, NothingLost, [Next]_vars
    PROVE  NothingLost'
  <1>t. Typed' /\ Grows
    BY TypedStep, HistoryGrows
  <1> DEFINE Kept(d) == disk'[d] \cap {"json", "failed"} # {} \/ Sent(d)' \/ d \in aborted'
  <1>1. ASSUME NEW d \in Deliveries, Sent(d) \/ d \in aborted PROVE Kept(d)
    BY <1>1, <1>t DEF Sent, Grows, Typed, HistoryTyped
  <1>2. ASSUME NEW d \in Deliveries, disk[d] \cap {"json", "failed"} # {} PROVE Kept(d)
    <2>1. ASSUME NEW s \in Senders, AckRename(s) PROVE Kept(d)
      <3>1. CASE d = job[s].entry
        BY <1>1, <2>1, <3>1 DEF AckRename, Ahead, Went
      <3>2. CASE d # job[s].entry
        BY <1>2, <2>1, <3>2 DEF AckRename, Typed, FilesTyped
      <3> QED
        BY <3>1, <3>2
    <2>2. CASE MoveToFailed
      BY <1>2, <2>2 DEF MoveToFailed, Typed, FilesTyped
    <2>3. CASE ScanQueueDir
      BY <1>2, <2>3 DEF ScanQueueDir, Swept, Typed, FilesTyped
    <2>4. ASSUME NEW s \in Senders, AckUnlink(s) \/ FailWrite(s) PROVE Kept(d)
      BY <1>2, <2>4 DEF AckUnlink, FailWrite, Typed, FilesTyped
    <2>5. ASSUME NEW e \in Deliveries, EnqueueDelivery(e) PROVE Kept(d)
      BY <1>2, <2>5 DEF EnqueueDelivery, Typed, FilesTyped
    <2>6. ASSUME UNCHANGED disk PROVE Kept(d)
      BY <1>2, <2>6
    <2>7. ASSUME NEW s \in Senders, Step(s) PROVE Kept(d)
      BY <2>1, <2>4, <2>6, <2>7
      DEF Step, SendPayload, SendErrorIgnored, SendingEnds, MirrorThrows, SendThrows, AckThrows,
          FailRead, FailThrows, files
    <2>8. ASSUME RecoveryStep PROVE Kept(d)
      BY <2>2, <2>3, <2>6, <2>8
      DEF RecoveryStep, LoadEntry, LoadingEnds, GiveUp, Defer, RetryEntry, Take, RecoveryEnds,
          files
    <2>9. CASE UNCHANGED vars
      BY <2>6, <2>9 DEF vars, files
    <2> QED
      BY <2>5, <2>6, <2>7, <2>8, <2>9
      DEF Next, StartGateway, GatewayDies, CommandLineDies, Deliver, files
  <1>3. ASSUME UNCHANGED order PROVE NothingLost'
    <2> SUFFICES ASSUME NEW d \in Range(order) PROVE Kept(d)
      BY <1>3 DEF NothingLost
    <2>1. d \in Deliveries
      BY DEF Range, Typed, FilesTyped
    <2> QED
      BY <1>1, <1>2, <2>1 DEF NothingLost
  <1>4. ASSUME NEW e \in Deliveries, EnqueueDelivery(e), ~UNCHANGED order PROVE NothingLost'
    <2>1. disk' = [disk EXCEPT ![e] = @ \cup {"json"}] /\ order' = Append(order, e)
      BY <1>4 DEF EnqueueDelivery
    <2>2. \A d \in Range(order') : d \in Range(order) \/ d = e
      <3>1. /\ order \in Seq(Deliveries) /\ Len(order') = Len(order) + 1
            /\ DOMAIN order = 1..Len(order) /\ DOMAIN order' = 1..Len(order')
            /\ \A i \in 1..Len(order) : order'[i] = order[i]
            /\ order'[Len(order) + 1] = e
        BY <1>4, <2>1 DEF Typed, FilesTyped
      <3> QED
        BY <3>1 DEF Range
    <2>3. ASSUME NEW d \in Range(order) PROVE Kept(d)
      <3>1. d \in Deliveries
        BY DEF Range, Typed, FilesTyped
      <3> QED
        BY <1>1, <1>2, <3>1 DEF NothingLost
    <2>4. Kept(e)
      BY <1>4, <2>1 DEF Typed, FilesTyped
    <2> QED
      BY <2>2, <2>3, <2>4 DEF NothingLost
  <1> QED
    BY <1>3, <1>4
    DEF Next, vars, files, history, StartGateway, GatewayDies, CommandLineDies, Deliver, Step,
        SendPayload, SendErrorIgnored, SendingEnds, MirrorThrows, SendThrows, AckRename, AckThrows,
        AckUnlink, FailRead, FailWrite, FailThrows, RecoveryStep, ScanQueueDir, LoadEntry,
        LoadingEnds, GiveUp, Defer, RetryEntry, Take, MoveToFailed, RecoveryEnds

-----------------------------------------------------------------------------
(* Entries are given up only for cause: the retries that the file of an      *)
(* entry counts, and those that are still to be counted in it, have failed.  *)

\* Sender s is counting a failure of delivery d.
Counts(s, d) == IF job[s].at \in {"read", "write"} /\ job[s].entry = d THEN 1 ELSE 0

Outstanding(d) == Counts(d, d) + Counts(Recovery, d)

CountedFor(d) ==
    \/ failures[d] = MaxRetries
    \/ /\ retry[d] + Outstanding(d) <= failures[d]
       /\ \A s \in {d, Recovery} :
             job[s].at = "write" /\ job[s].entry = d => job[s].seen + Outstanding(d) <= failures[d]

\* What recovery has read of an entry, and will do with it.
ReadFor(d) ==
    \/ failures[d] = MaxRetries
    \/ \A e \in todo : e.id = d => e.seen <= failures[d]

MovedForCause ==
    job[Recovery].at = "move" /\ job[Recovery].entry \in Deliveries
    => job[Recovery].entry \in permanent \/ failures[job[Recovery].entry] = MaxRetries

Accounted ==
    /\ \A d \in Deliveries : CountedFor(d) /\ ReadFor(d)
    /\ MovedForCause
    /\ GivenUpForCause

\* Failures are counted one by one, and only by those who go on to count them.
LEMMA FailuresGrow ==
    ASSUME Typed, [Next]_vars, NEW d \in Deliveries
    PROVE  failures[d] \in 0..MaxRetries /\ failures'[d] \in 0..MaxRetries
           /\ failures[d] <= failures'[d]
  <1>1. failures[d] \in 0..MaxRetries /\ failures'[d] \in 0..MaxRetries
    BY TypedStep DEF Typed, HistoryTyped
  <1>2. ASSUME NEW e, CountFailure(e) PROVE failures[d] <= failures'[d]
    BY <1>1, <1>2, CountResult, DeliveryQueueAssumption DEF Typed
  <1>3. ASSUME UNCHANGED failures PROVE failures[d] <= failures'[d]
    BY <1>1, <1>3, DeliveryQueueAssumption
  <1>4. ASSUME NEW s \in Senders, Step(s) PROVE failures[d] <= failures'[d]
    BY <1>2, <1>3, <1>4
    DEF Step, SendPayload, SendErrorIgnored, SendingEnds, MirrorThrows, SendThrows, Throw,
        AckRename,
        AckThrows, AckUnlink, FailRead, FailWrite, FailThrows, history
  <1>5. ASSUME RecoveryStep PROVE failures[d] <= failures'[d]
    BY <1>3, <1>5
    DEF RecoveryStep, ScanQueueDir, LoadEntry, LoadingEnds, GiveUp, Defer, RetryEntry, Take,
        MoveToFailed, RecoveryEnds, history
  <1>6. failures[d] <= failures'[d]
    BY <1>3, <1>4, <1>5
    DEF Next, vars, StartGateway, GatewayDies, CommandLineDies, EnqueueDelivery, Deliver, history
  <1> QED
    BY <1>1, <1>6

\* Sender s takes up no counting for d.
Calm(s, d) ==
    /\ Counts(s, d)' <= Counts(s, d)
    /\ job'[s].at = "write" /\ job'[s].entry = d
       => job[s].at = "write" /\ job[s].entry = d /\ job'[s].seen = job[s].seen

LEMMA CalmIfAsBefore == ASSUME NEW s, NEW d, job'[s] = job[s] PROVE Calm(s, d)
  BY DEF Calm, Counts

LEMMA CalmElsewhere ==
    ASSUME NEW s, NEW d, job'[s].at \notin {"read", "write"}
    PROVE  Calm(s, d)
  BY DEF Calm, Counts

LEMMA CountedAsBefore ==
    ASSUME Typed, Typed', NEW d \in Deliveries, CountedFor(d), retry'[d] = retry[d],
           failures[d] <= failures'[d], Calm(d, d), Calm(Recovery, d)
    PROVE  CountedFor(d)'
  <1>1. /\ failures[d] \in Nat /\ failures'[d] \in Nat /\ failures'[d] <= MaxRetries
        /\ retry[d] \in Nat /\ MaxRetries \in Nat
    BY DeliveryQueueAssumption DEF Typed, FilesTyped, HistoryTyped
  <1>2. Counts(d, d) \in Nat /\ Counts(d, d)' \in Nat
        /\ Counts(Recovery, d) \in Nat /\ Counts(Recovery, d)' \in Nat
    BY DEF Counts
  <1>3. /\ Outstanding(d) \in Nat /\ Outstanding(d)' \in Nat
        /\ Outstanding(d)' <= Outstanding(d)
    BY <1>2 DEF Calm, Outstanding
  <1>4. CASE failures[d] = MaxRetries
    BY <1>1, <1>4 DEF CountedFor
  <1>5. CASE failures[d] # MaxRetries
    <2>1. retry'[d] + Outstanding(d)' <= failures'[d]
      BY <1>1, <1>3, <1>5 DEF CountedFor
    <2>2. ASSUME NEW s \in {d, Recovery}, job'[s].at = "write", job'[s].entry = d
          PROVE  job'[s].seen + Outstanding(d)' <= failures'[d]
      <3>1. job[s].at = "write" /\ job[s].entry = d /\ job'[s].seen = job[s].seen
        BY <2>2 DEF Calm
      <3>2. job[s].seen \in Nat
        BY <2>2, <3>1 DEF Typed, JobsTyped, Senders
      <3>3. job[s].seen + Outstanding(d) <= failures[d]
        BY <1>5, <2>2, <3>1 DEF CountedFor
      <3> QED
        BY <1>1, <1>3, <3>1, <3>2, <3>3
    <2> QED
      BY <2>1, <2>2 DEF CountedFor
  <1> QED
    BY <1>4, <1>5

\* An attempt of s has failed, which s goes on to count.
LEMMA CountedWhenFailed ==
    ASSUME Typed, Typed', NEW d \in Deliveries, CountedFor(d), UNCHANGED retry,
           NEW s \in Senders, job[s].at \in {"send", "ack"}, Go(s, "read"),
           CountFailure(job[s].entry)
    PROVE  CountedFor(d)'
  <1>1. /\ \A t \in Senders \ {s} : job'[t] = job[t]
        /\ job'[s].at = "read" /\ job'[s].entry = job[s].entry
    BY DEF Go, Typed, JobsTyped, IsJob
  <1>2. /\ failures[d] \in Nat /\ failures[d] <= MaxRetries
        /\ retry[d] \in Nat /\ MaxRetries \in Nat
    BY DeliveryQueueAssumption DEF Typed, FilesTyped, HistoryTyped
  <1>3. d \in Senders /\ Recovery \in Senders /\ d # Recovery
    BY DeliveryQueueAssumption DEF Senders
  <1>4. CASE job[s].entry # d
    <2>1. failures'[d] = failures[d]
      BY <1>4, CountResult DEF Typed
    <2>2. ASSUME NEW t \in {d, Recovery} PROVE Calm(t, d)
      BY <1>1, <1>3, <1>4, <2>2, CalmIfAsBefore DEF Calm, Counts
    <2> QED
      BY <1>2, <2>1, <2>2, CountedAsBefore
  <1>5. CASE job[s].entry = d
    <2>1. s = d \/ s = Recovery
      BY <1>5 DEF Senders, Typed, JobsTyped
    <2>2. failures'[d] = IF failures[d] < MaxRetries THEN failures[d] + 1 ELSE failures[d]
      BY <1>5, CountResult DEF Typed
    <2>3. /\ Outstanding(d) \in Nat
          /\ Outstanding(d)' = Outstanding(d) + 1
      BY <1>1, <1>3, <1>5, <2>1 DEF Outstanding, Counts
    <2>4. CASE failures[d] = MaxRetries
      BY <1>2, <2>2, <2>4 DEF CountedFor
    <2>5. CASE failures[d] # MaxRetries
      <3>1. failures'[d] = failures[d] + 1
        BY <1>2, <2>2, <2>5
      <3>2. retry'[d] + Outstanding(d)' <= failures'[d]
        BY <1>2, <2>3, <2>5, <3>1 DEF CountedFor
      <3>3. ASSUME NEW t \in {d, Recovery}, job'[t].at = "write", job'[t].entry = d
            PROVE  job'[t].seen + Outstanding(d)' <= failures'[d]
        <4>1. t \in Senders /\ job'[t] = job[t]
          BY <1>1, <1>3, <3>3
        <4>2. job[t].seen \in Nat
          BY <3>3, <4>1 DEF Typed, JobsTyped
        <4>3. job[t].seen + Outstanding(d) <= failures[d]
          BY <2>5, <3>3, <4>1 DEF CountedFor
        <4> QED
          BY <1>2, <2>3, <3>1, <4>1, <4>2, <4>3
      <3> QED
        BY <3>2, <3>3 DEF CountedFor
    <2> QED
      BY <2>4, <2>5
  <1> QED
    BY <1>4, <1>5

LEMMA CountedWhenRead ==
    ASSUME Typed, Typed', NEW d \in Deliveries, CountedFor(d), NEW s \in Senders, FailRead(s)
    PROVE  CountedFor(d)'
  <1>1. /\ UNCHANGED <<retry, failures>> /\ job[s].at = "read"
        /\ \A t \in Senders \ {s} : job'[t] = job[t]
        /\ job'[s].at = "write" /\ job'[s].entry = job[s].entry
        /\ job'[s].seen = retry[job[s].entry]
    BY DEF FailRead, files, history, Typed, JobsTyped, IsJob
  <1>2. d \in Senders /\ Recovery \in Senders
    BY DEF Senders
  <1>3. Counts(d, d)' = Counts(d, d) /\ Counts(Recovery, d)' = Counts(Recovery, d)
    BY <1>1, <1>2 DEF Counts
  <1>4. Outstanding(d)' = Outstanding(d)
    BY <1>3 DEF Outstanding
  <1>5. CASE failures[d] # MaxRetries
    <2>1. ASSUME NEW t \in {d, Recovery}, job'[t].at = "write", job'[t].entry = d
          PROVE  job'[t].seen + Outstanding(d)' <= failures'[d]
      <3>1. CASE t = s
        BY <1>1, <1>4, <1>5, <2>1, <3>1 DEF CountedFor
      <3>2. CASE t # s
        BY <1>1, <1>2, <1>4, <1>5, <2>1, <3>2 DEF CountedFor
      <3> QED
        BY <3>1, <3>2
    <2> QED
      BY <1>1, <1>4, <1>5, <2>1 DEF CountedFor
  <1> QED
    BY <1>1, <1>5 DEF CountedFor

LEMMA CountedWhenWritten ==
    ASSUME Typed, Typed', NEW d \in Deliveries, CountedFor(d), NEW s \in Senders, FailWrite(s)
    PROVE  CountedFor(d)'
  <1>1. /\ UNCHANGED failures /\ job[s].at = "write"
        /\ retry' = [retry EXCEPT ![job[s].entry] = job[s].seen + 1]
        /\ \A t \in Senders \ {s} : job'[t] = job[t]
        /\ job'[s].at \notin {"read", "write"}
    BY DEF FailWrite, Go, Rest, RetryCount, history, Typed, JobsTyped, IsJob
  <1>2. d \in Senders /\ Recovery \in Senders /\ d # Recovery
    BY DeliveryQueueAssumption DEF Senders
  <1>3. ASSUME NEW t \in {d, Recovery} PROVE Calm(t, d)
    BY <1>1, <1>2, <1>3, CalmIfAsBefore, CalmElsewhere
  <1>4. CASE job[s].entry # d
    <2>1. retry'[d] = retry[d] /\ failures[d] <= failures'[d]
      BY <1>1, <1>4, DeliveryQueueAssumption DEF Typed, FilesTyped, HistoryTyped
    <2> QED
      BY <1>3, <2>1, CountedAsBefore
  <1>5. CASE job[s].entry = d /\ failures[d] # MaxRetries
    <2>1. s \in {d, Recovery}
      BY <1>5 DEF Senders, Typed, JobsTyped
    <2>2. /\ job[s].seen \in Nat /\ job[s].seen + Outstanding(d) <= failures[d]
          /\ retry'[d] = job[s].seen + 1 /\ failures[d] \in Nat
      BY <1>1, <1>5, <2>1, DeliveryQueueAssumption
      DEF CountedFor, Typed, JobsTyped, FilesTyped, HistoryTyped
    <2>3. Outstanding(d) \in Nat /\ Outstanding(d)' \in Nat
          /\ Outstanding(d) = Outstanding(d)' + 1
      BY <1>1, <1>2, <1>5, <2>1 DEF Outstanding, Counts
    <2>4. ASSUME NEW t \in {d, Recovery}, job'[t].at = "write", job'[t].entry = d
          PROVE  job'[t].seen + Outstanding(d)' <= failures'[d]
      <3>1. job'[t] = job[t]
        BY <1>1, <1>2, <2>4
      <3>2. job[t].seen \in Nat /\ job[t].seen + Outstanding(d) <= failures[d]
        BY <1>2, <1>5, <2>4, <3>1 DEF CountedFor, Typed, JobsTyped
      <3> QED
        BY <1>1, <2>2, <2>3, <3>1, <3>2
    <2>5. retry'[d] + Outstanding(d)' <= failures'[d]
      BY <1>1, <2>2, <2>3
    <2> QED
      BY <2>4, <2>5 DEF CountedFor
  <1> QED
    BY <1>1, <1>4, <1>5 DEF CountedFor

LEMMA CountedStep ==
    ASSUME Typed, [Next]_vars, NEW d \in Deliveries, CountedFor(d)
    PROVE  CountedFor(d)'
  <1>t. /\ Typed' /\ failures[d] <= failures'[d]
        /\ d \in Senders /\ Recovery \in Senders
    BY TypedStep, FailuresGrow DEF Senders
  <1>1. ASSUME UNCHANGED retry,
               \A t \in Senders : job'[t] = job[t] \/ job'[t].at \notin {"read", "write"}
        PROVE  CountedFor(d)'
    BY <1>t, <1>1, CountedAsBefore, CalmIfAsBefore, CalmElsewhere
  <1>2. ASSUME UNCHANGED retry, NEW s \in Senders,
               \A t \in Senders \ {s} : job'[t] = job[t], job'[s].at \notin {"read", "write"}
        PROVE  CountedFor(d)'
    BY <1>1, <1>2
  <1>3. ASSUME UNCHANGED retry, NEW s \in Senders,
               \E at \in {"ack", "unlink", "move", "done", "loop", "idle", "scan", "load"} :
                  Go(s, at)
        PROVE  CountedFor(d)'
    <2>1. \A t \in Senders \ {s} : job'[t] = job[t]
      BY <1>3 DEF Go, Typed, JobsTyped
    <2>2. job'[s].at \notin {"read", "write"}
      BY <1>3 DEF Go, Typed, JobsTyped, IsJob
    <2> QED
      BY <1>2, <1>3, <2>1, <2>2
  <1>4. CASE GatewayDies
    <2>1. ASSUME NEW t \in Senders PROVE job'[t] = job[t] \/ job'[t].at \notin {"read", "write"}
      BY <1>4, <2>1, KilledResult DEF GatewayDies, Typed
    <2> QED
      BY <1>1, <1>4, <2>1 DEF GatewayDies, files
  <1>5. ASSUME NEW e \in Deliveries, CommandLineDies(e) PROVE CountedFor(d)'
    <2>1. ASSUME NEW t \in Senders PROVE job'[t] = job[t] \/ job'[t].at \notin {"read", "write"}
      BY <1>5, <2>1, KilledResult DEF CommandLineDies, Typed, JobsTyped
    <2> QED
      BY <1>1, <1>5, <2>1 DEF CommandLineDies, files
  <1>6. ASSUME NEW e \in Deliveries, EnqueueDelivery(e) PROVE CountedFor(d)'
    <2>1. \/ job' = [job EXCEPT ![e].at = "send", ![e].queued = TRUE]
          \/ job' = [job EXCEPT ![e].at = "send"]
      BY <1>6 DEF EnqueueDelivery
    <2>2. /\ \A t \in Senders \ {e} : job'[t] = job[t]
          /\ job'[e].at = "send" /\ e \in Senders
      BY <1>6, <2>1 DEF Typed, JobsTyped, IsJob, Senders
    <2> QED
      BY <1>2, <1>6, <2>2 DEF EnqueueDelivery
  <1>7. ASSUME NEW e \in Deliveries, NEW by, Deliver(e, by) PROVE CountedFor(d)'
    <2>1. /\ \A t \in Senders \ {e} : job'[t] = job[t]
          /\ job'[e].at = "enqueue" /\ e \in Senders
      BY <1>7 DEF Deliver, Typed, JobsTyped, IsJob, Senders
    <2> QED
      BY <1>2, <1>7, <2>1 DEF Deliver, files
  <1>8. ASSUME NEW s \in Senders, SendPayload(s) \/ SendErrorIgnored(s) PROVE CountedFor(d)'
    <2>1. /\ \A t \in Senders \ {s} : job'[t] = job[t]
          /\ job'[s].at = "send"
      <3>1. CASE SendPayload(s)
        BY <1>8, <3>1 DEF SendPayload, Unsent, Typed, JobsTyped, IsJob
      <3>2. CASE SendErrorIgnored(s)
        BY <1>8, <3>2 DEF SendErrorIgnored, Unsent, Typed, JobsTyped, IsJob
      <3> QED
        BY <1>8, <3>1, <3>2
    <2> QED
      BY <1>2, <1>8, <2>1 DEF SendPayload, SendErrorIgnored, files
  <1>9. ASSUME NEW s \in Senders, job[s].at \in {"send", "ack"}, UNCHANGED retry,
               \/ \E at \in {"ack", "move", "done"} : Go(s, at)
               \/ Go(s, "read") /\ CountFailure(job[s].entry)
        PROVE  CountedFor(d)'
    BY <1>3, <1>9, <1>t, CountedWhenFailed
  <1>10. ASSUME NEW s \in Senders,
                \/ SendingEnds(s) \/ MirrorThrows(s) \/ AckThrows(s)
                \/ \E kind \in {"transient", "permanent", "abort"} : SendThrows(s, kind)
         PROVE  CountedFor(d)'
    <2>1. job[s].at \in {"send", "ack"} /\ UNCHANGED retry
      BY <1>10 DEF SendingEnds, MirrorThrows, AckThrows, SendThrows, Unsent, files
    <2>2. \/ \E at \in {"ack", "move", "done"} : Go(s, at)
          \/ Go(s, "read") /\ CountFailure(job[s].entry)
      BY <1>10 DEF SendingEnds, MirrorThrows, AckThrows, SendThrows, Throw, Settle, AfterError
    <2> QED
      BY <1>9, <1>10, <2>1, <2>2
  <1>11. ASSUME NEW s \in Senders, AckRename(s) \/ AckUnlink(s) \/ FailThrows(s)
         PROVE  CountedFor(d)'
    BY <1>3, <1>11 DEF AckRename, AckUnlink, FailThrows, Rest, files
  <1>12. ASSUME NEW s \in Senders, Step(s) PROVE CountedFor(d)'
    BY <1>8, <1>10, <1>11, <1>12, <1>t, CountedWhenRead, CountedWhenWritten DEF Step
  <1>13. ASSUME NEW e \in todo, NEW at, Take(e, at), at \in {"move", "send", "loop"}
         PROVE  CountedFor(d)'
    <2>1. /\ \A t \in Senders \ {Recovery} : job'[t] = job[t]
          /\ job'[Recovery].at \notin {"read", "write"}
      BY <1>13 DEF Take, Typed, JobsTyped, Unemployed, Senders
    <2> QED
      BY <1>2, <1>13, <1>t, <2>1 DEF Take, files
  <1>14. CASE StartGateway \/ ScanQueueDir \/ LoadingEnds \/ MoveToFailed \/ RecoveryEnds
    BY <1>3, <1>14, <1>t
    DEF StartGateway, ScanQueueDir, LoadingEnds, MoveToFailed, RecoveryEnds, files
  <1>15. ASSUME RecoveryStep PROVE CountedFor(d)'
    BY <1>1, <1>13, <1>14, <1>15 DEF RecoveryStep, LoadEntry, GiveUp, Defer, RetryEntry, files
  <1>16. CASE UNCHANGED vars
    BY <1>1, <1>16 DEF vars, files
  <1> QED
    BY <1>4, <1>5, <1>6, <1>7, <1>12, <1>14, <1>15, <1>16 DEF Next

LEMMA TodoResult ==
    ASSUME [Next]_vars
    PROVE  \/ todo' \subseteq todo
           \/ /\ UNCHANGED retry
              /\ \E d \in listed : todo' = todo \cup {[id |-> d, seen |-> retry[d]]}
  <1>1. ASSUME NEW s \in Senders, Step(s) PROVE UNCHANGED todo
    BY <1>1
    DEF Step, SendPayload, SendErrorIgnored, SendingEnds, MirrorThrows, SendThrows, AckRename,
        AckThrows, AckUnlink, FailRead, FailWrite, FailThrows, plan
  <1>2. CASE LoadEntry
    BY <1>2 DEF LoadEntry, files
  <1> QED
    BY <1>1, <1>2
    DEF Next, vars, plan, StartGateway, GatewayDies, CommandLineDies, EnqueueDelivery, Deliver,
        RecoveryStep, ScanQueueDir, LoadingEnds, GiveUp, Defer, RetryEntry, Take, MoveToFailed,
        RecoveryEnds

LEMMA ReadStep ==
    ASSUME Typed, [Next]_vars, NEW d \in Deliveries, CountedFor(d), ReadFor(d)
    PROVE  ReadFor(d)'
  <1>1. /\ failures[d] \in Nat /\ failures'[d] \in Nat /\ MaxRetries \in Nat
        /\ failures[d] <= failures'[d] /\ failures'[d] <= MaxRetries
        /\ retry[d] \in Nat
    BY FailuresGrow, DeliveryQueueAssumption DEF Typed, FilesTyped
  <1> SUFFICES ASSUME failures[d] # MaxRetries, NEW e \in todo', e.id = d
               PROVE  e.seen <= failures'[d]
    BY <1>1 DEF ReadFor
  <1>2. CASE e \in todo
    <2>1. e.seen \in Nat /\ e.seen <= failures[d]
      BY <1>2 DEF ReadFor, Typed, FilesTyped
    <2> QED
      BY <1>1, <2>1
  <1>3. CASE e \notin todo
    <2>1. e.seen = retry[d]
      BY <1>3, TodoResult
    <2>2. Outstanding(d) \in Nat
      BY DEF Outstanding, Counts
    <2> QED
      BY <1>1, <2>1, <2>2 DEF CountedFor
  <1> QED
    BY <1>2, <1>3

LEMMA PermanentGrows == ASSUME [Next]_vars PROVE permanent \subseteq permanent'
  <1>1. ASSUME NEW s \in Senders, Step(s) PROVE permanent \subseteq permanent'
    BY <1>1
    DEF Step, SendPayload, SendErrorIgnored, SendingEnds, MirrorThrows, SendThrows, Throw,
        AckRename, AckThrows, AckUnlink, FailRead, FailWrite, FailThrows, history
  <1> QED
    BY <1>1
    DEF Next, vars, history, StartGateway, GatewayDies, CommandLineDies, EnqueueDelivery, Deliver,
        RecoveryStep, ScanQueueDir, LoadEntry, LoadingEnds, GiveUp, Defer, RetryEntry, Take,
        MoveToFailed, RecoveryEnds

LEMMA MovedStep ==
    ASSUME Typed, [Next]_vars, MovedForCause, \A d \in Deliveries : ReadFor(d)
    PROVE  MovedForCause'
  <1>1. permanent \subseteq permanent'
    BY PermanentGrows
  <1>2. Recovery \in Senders /\ Recovery \notin Deliveries
    BY DeliveryQueueAssumption DEF Senders
  <1>3. ASSUME job'[Recovery] = job[Recovery] PROVE MovedForCause'
    <2>1. \A d \in Deliveries : failures[d] = MaxRetries => failures'[d] = MaxRetries
      BY FailuresGrow, DeliveryQueueAssumption
    <2> QED
      BY <1>1, <1>3, <2>1 DEF MovedForCause
  <1>4. ASSUME job'[Recovery].at # "move" PROVE MovedForCause'
    BY <1>4 DEF MovedForCause
  <1>5. ASSUME \E at \in {"ack", "unlink", "read", "done", "loop", "idle", "scan", "load"} :
                  Go(Recovery, at)
        PROVE  MovedForCause'
    <2>1. job'[Recovery].at # "move"
      BY <1>2, <1>5 DEF Go, Typed, JobsTyped, IsJob
    <2> QED
      BY <1>4, <2>1
  <1>6. ASSUME NEW kind, Throw(Recovery, kind) PROVE MovedForCause'
    <2>1. CASE kind = "permanent"
      <3>1. job[Recovery].entry \in permanent' /\ \E at : Go(Recovery, at)
        BY <1>6, <2>1 DEF Throw
      <3>2. job'[Recovery].entry = job[Recovery].entry
        BY <1>2, <3>1 DEF Go, Typed, JobsTyped, IsJob
      <3> QED
        BY <3>1, <3>2 DEF MovedForCause
    <2>2. CASE kind # "permanent"
      <3>1. Go(Recovery, "ack") \/ Go(Recovery, "read") \/ Go(Recovery, "done")
        BY <1>6, <2>2 DEF Throw, Settle, AfterError
      <3> QED
        BY <1>5, <3>1
    <2> QED
      BY <2>1, <2>2
  <1>7. ASSUME NEW s \in Senders, Step(s) PROVE MovedForCause'
    <2>1. CASE s # Recovery
      <3>1. job'[Recovery] = job[Recovery]
        <4>1. \E r : job' = [job EXCEPT ![s] = r]
          BY <1>7
          DEF Step, SendPayload, SendErrorIgnored, SendingEnds, MirrorThrows, SendThrows, Throw,
              AckRename, AckThrows, AckUnlink, FailRead, FailWrite, FailThrows, Go
        <4> QED
          BY <1>2, <2>1, <4>1 DEF Typed, JobsTyped
      <3> QED
        BY <1>3, <3>1
    <2>2. CASE s = Recovery
      <3>1. CASE SendPayload(s) \/ SendErrorIgnored(s)
        <4>1. job'[Recovery].at = "send"
          <5>1. CASE SendPayload(s)
            BY <1>2, <2>2, <5>1 DEF SendPayload, Unsent, Typed, JobsTyped, IsJob
          <5>2. CASE SendErrorIgnored(s)
            BY <1>2, <2>2, <5>2 DEF SendErrorIgnored, Unsent, Typed, JobsTyped, IsJob
          <5> QED
            BY <3>1, <5>1, <5>2
        <4> QED
          BY <1>4, <4>1
      <3>2. CASE \/ MirrorThrows(s)
                 \/ \E kind \in {"transient", "permanent", "abort"} : SendThrows(s, kind)
        BY <1>6, <2>2, <3>2 DEF MirrorThrows, SendThrows
      <3>3. CASE FailRead(s)
        <4>1. job'[Recovery].at = "write"
          BY <1>2, <2>2, <3>3 DEF FailRead, Typed, JobsTyped, IsJob
        <4> QED
          BY <1>4, <4>1
      <3>4. CASE \/ SendingEnds(s) \/ AckRename(s) \/ AckThrows(s) \/ AckUnlink(s)
                 \/ FailWrite(s) \/ FailThrows(s)
        BY <1>5, <2>2, <3>4
        DEF SendingEnds, AckRename, AckThrows, AckUnlink, FailWrite, FailThrows, Settle, Rest
      <3> QED
        BY <1>7, <3>1, <3>2, <3>3, <3>4 DEF Step
    <2> QED
      BY <2>1, <2>2
  <1>8. CASE GatewayDies
    <2>1. job'[Recovery] = job[Recovery] \/ job'[Recovery].at \in {"idle", "done"}
      BY <1>2, <1>8, KilledResult DEF GatewayDies, Typed
    <2> QED
      BY <1>3, <1>4, <2>1
  <1>9. CASE StartGateway \/ ScanQueueDir \/ LoadingEnds \/ MoveToFailed \/ RecoveryEnds
    BY <1>5, <1>9 DEF StartGateway, ScanQueueDir, LoadingEnds, MoveToFailed, RecoveryEnds
  <1>10. CASE \E d \in Deliveries : RetryEntry(d)
    <2>1. job'[Recovery].at # "move"
      BY <1>2, <1>10 DEF RetryEntry, Take, Typed, JobsTyped, Unemployed
    <2> QED
      BY <1>4, <2>1
  <1>11. CASE Defer
    <2>1. job'[Recovery].at # "move"
      BY <1>2, <1>11 DEF Defer, Take, Typed, JobsTyped, Unemployed
    <2> QED
      BY <1>4, <2>1
  <1>12. CASE GiveUp
    <2>1. PICK e \in todo : /\ UNCHANGED failures /\ e.seen >= MaxRetries
                            /\ job'[Recovery].entry = e.id
      BY <1>2, <1>12 DEF GiveUp, Exhausted, Take, history, Typed, JobsTyped, Unemployed
    <2>2. e.id \in Deliveries /\ e.seen \in Nat
      BY DEF Typed, FilesTyped
    <2>3. failures[e.id] = MaxRetries
      BY <2>1, <2>2, FailuresGrow, DeliveryQueueAssumption DEF ReadFor
    <2> QED
      BY <2>1, <2>3 DEF MovedForCause
  <1>13. ASSUME NEW d \in Deliveries,
                \/ CommandLineDies(d) \/ EnqueueDelivery(d)
                \/ \E by \in {"gateway", "cli"} : Deliver(d, by)
         PROVE  MovedForCause'
    <2>1. \E r : job' = [job EXCEPT ![d] = r]
      BY <1>13 DEF CommandLineDies, EnqueueDelivery, Deliver
    <2>2. job'[Recovery] = job[Recovery]
      BY <1>2, <2>1 DEF Typed, JobsTyped
    <2> QED
      BY <1>3, <2>2
  <1>14. CASE LoadEntry \/ UNCHANGED vars
    BY <1>3, <1>14 DEF LoadEntry, vars
  <1> QED
    BY <1>7, <1>8, <1>9, <1>10, <1>11, <1>12, <1>13, <1>14 DEF Next, RecoveryStep

LEMMA GivenUpStep ==
    ASSUME Typed, [Next]_vars, MovedForCause, GivenUpForCause
    PROVE  GivenUpForCause'
  <1> DEFINE Cause(d) == d \in permanent \/ failures[d] = MaxRetries
  <1> SUFFICES ASSUME NEW d \in Deliveries, "failed" \in disk'[d] PROVE Cause(d)'
    BY DEF GivenUpForCause
  <1>1. Cause(d) => Cause(d)'
    BY FailuresGrow, PermanentGrows, DeliveryQueueAssumption
  <1>2. CASE "failed" \in disk[d]
    BY <1>1, <1>2 DEF GivenUpForCause
  <1>3. CASE "failed" \notin disk[d]
    <2>1. CASE MoveToFailed
      <3>1. job[Recovery].at = "move" /\ job[Recovery].entry = d
        BY <1>3, <2>1 DEF MoveToFailed, Typed, FilesTyped
      <3> QED
        BY <1>1, <3>1 DEF MovedForCause
    <2>2. ASSUME NEW s \in Senders, Step(s) PROVE FALSE
      <3>1. ASSUME UNCHANGED disk PROVE FALSE
        BY <1>3, <3>1
      <3>2. CASE AckRename(s) \/ AckUnlink(s) \/ FailWrite(s)
        BY <1>3, <3>2 DEF AckRename, AckUnlink, FailWrite, Typed, FilesTyped
      <3> QED
        BY <2>2, <3>1, <3>2
        DEF Step, SendPayload, SendErrorIgnored, SendingEnds, MirrorThrows, SendThrows, AckThrows,
            FailRead, FailThrows, files
    <2>3. ASSUME NEW e \in Deliveries, EnqueueDelivery(e) PROVE FALSE
      <3>1. disk' = [disk EXCEPT ![e] = @ \cup {"json"}] \/ disk' = disk
        BY <2>3 DEF EnqueueDelivery
      <3> QED
        BY <1>3, <3>1 DEF Typed, FilesTyped
    <2>4. CASE ScanQueueDir
      BY <1>3, <2>4 DEF ScanQueueDir, Swept, Typed, FilesTyped
    <2>5. ASSUME UNCHANGED disk PROVE FALSE
      BY <1>3, <2>5
    <2>6. CASE RecoveryStep
      BY <2>1, <2>4, <2>5, <2>6
      DEF RecoveryStep, LoadEntry, LoadingEnds, GiveUp, Defer, RetryEntry, Take, RecoveryEnds,
          files
    <2> QED
      BY <2>2, <2>3, <2>5, <2>6
      DEF Next, vars, files, StartGateway, GatewayDies, CommandLineDies, Deliver
  <1> QED
    BY <1>2, <1>3

-----------------------------------------------------------------------------
(* Where recovery stands with the entries: it has each of them in hand once, *)
(* from listing to updating, and only while it runs.                         *)

AtWork == {"send", "ack", "unlink", "read", "write", "move"}

\* Recovery works on d, at one of these steps.
Works(d, steps) == job[Recovery].entry = d /\ job[Recovery].at \in steps

RecoveryUp ==
    /\ job[Recovery].by = "gateway"
    /\ ~up => job[Recovery].at = "idle"
    /\ job[Recovery].at \in AtWork => job[Recovery].entry \in Deliveries

HeldOnce ==
    /\ job[Recovery].at \in {"idle", "scan"} => todo = {}
    /\ job[Recovery].at # "load" => listed = {}
    /\ \A e \in todo : e.id \notin listed /\ ~Works(e.id, AtWork)
    /\ \A e, other \in todo : e.id = other.id => e = other

Orderly == RecoveryUp /\ HeldOnce

LEMMA RecoveryApart ==
    Recovery \in Senders /\ Recovery \notin Deliveries /\ Deliveries \subseteq Senders
  BY DeliveryQueueAssumption DEF Senders

\* The other jobs are as before.
Only(s) == \A t \in Senders \ {s} : job'[t] = job[t]

LEMMA GoResult ==
    ASSUME JobsTyped, NEW s \in Senders, NEW at, Go(s, at)
    PROVE  /\ Only(s)
           /\ job'[s].at = at /\ job'[s].entry = job[s].entry
           /\ job'[s].by = job[s].by /\ job'[s].seen = job[s].seen
  BY DEF JobsTyped, IsJob, Go, Only

LEMMA TakeSets ==
    ASSUME JobsTyped, NEW e, NEW at, Take(e, at)
    PROVE  /\ Only(Recovery)
           /\ job'[Recovery].at = at /\ job'[Recovery].entry = e.id
           /\ job'[Recovery].by = "gateway"
  BY RecoveryApart DEF JobsTyped, Take, Unemployed, Only

\* A sender goes on with its entry, but takes up neither a new attempt nor a
\* count of its failure; no file is put back.
Onward(s) ==
    /\ Only(s) /\ job'[s].entry = job[s].entry /\ job'[s].by = job[s].by
    /\ job[s].at \in AtWork
    /\ job'[s].at \in {"send", "ack", "read"} => job[s].at \in {"send", "ack"}
    /\ job'[s].at # "write"
    /\ job'[s].at \in IF s = Recovery THEN AtWork \cup {"loop"}
                      ELSE {"send", "ack", "read", "unlink", "done"}
    /\ \A d \in Deliveries : "json" \in disk'[d] => "json" \in disk[d]
    /\ UNCHANGED <<retry, listed, todo, overlapped, up>>

LEMMA GoesOnward ==
    ASSUME Typed, NEW s \in Senders,
           \/ SendPayload(s) \/ SendErrorIgnored(s) \/ SendingEnds(s) \/ MirrorThrows(s)
           \/ \E kind \in {"transient", "permanent", "abort"} : SendThrows(s, kind)
           \/ AckRename(s) \/ AckThrows(s) \/ AckUnlink(s) \/ FailThrows(s)
           \/ s = Recovery /\ MoveToFailed
    PROVE  Onward(s) /\ (AckRename(s) \/ UNCHANGED acked)
  <1>j. JobsTyped
    BY DEF Typed
  <1> DEFINE Before(ats) == job[s].at \in ats
             Files == /\ \A d \in Deliveries : "json" \in disk'[d] => "json" \in disk[d]
                      /\ UNCHANGED <<retry, listed, todo, overlapped, up>>
                      /\ AckRename(s) \/ UNCHANGED acked
             Ats(from, to) == job[s].at \in from /\ \E at \in to : Go(s, at)
  <1>1. ASSUME SendPayload(s) \/ SendErrorIgnored(s) PROVE Onward(s) /\ UNCHANGED acked
    <2>1. /\ Only(s) /\ job'[s].entry = job[s].entry /\ job'[s].by = job[s].by
          /\ job[s].at = "send" /\ job'[s].at = "send"
      <3>1. CASE SendPayload(s)
        BY <1>j, <3>1 DEF SendPayload, Unsent, JobsTyped, IsJob, Only
      <3>2. CASE SendErrorIgnored(s)
        BY <1>j, <3>2 DEF SendErrorIgnored, Unsent, JobsTyped, IsJob, Only
      <3> QED
        BY <1>1, <3>1, <3>2
    <2>2. UNCHANGED <<disk, retry, listed, todo, overlapped, up, acked>>
      BY <1>1 DEF SendPayload, SendErrorIgnored, files, env, plan, history
    <2> QED
      BY <2>1, <2>2 DEF Onward, AtWork
  <1>2. ASSUME Files, Ats({"send", "ack"}, {"ack", "read", "move"}) /\ s = Recovery PROVE Onward(s)
    BY <1>2, <1>j, GoResult DEF Onward, AtWork
  <1>3. ASSUME Files, Ats({"send", "ack"}, {"ack", "read", "done"}) /\ s # Recovery PROVE Onward(s)
    BY <1>3, <1>j, GoResult DEF Onward, AtWork
  <1>4. ASSUME Files, Ats(AtWork, {"loop", "unlink"}) /\ s = Recovery PROVE Onward(s)
    BY <1>4, <1>j, GoResult DEF Onward, AtWork
  <1>5. ASSUME Files, Ats(AtWork, {"done", "unlink"}) /\ s # Recovery PROVE Onward(s)
    BY <1>5, <1>j, GoResult DEF Onward, AtWork
  <1>6. ASSUME UNCHANGED <<disk, retry, listed, todo, overlapped, up, acked>> PROVE Files
    BY <1>6
  <1>7. CASE SendingEnds(s) \/ MirrorThrows(s)
             \/ \E kind \in {"transient", "permanent", "abort"} : SendThrows(s, kind)
    <2>1. Files
      BY <1>6, <1>7 DEF SendingEnds, MirrorThrows, SendThrows, Throw, files, env, plan
    <2>2. job[s].at = "send"
      BY <1>7 DEF SendingEnds, MirrorThrows, SendThrows, Unsent
    <2>3. s = Recovery => \E at \in {"ack", "read", "move"} : Go(s, at)
      BY <1>7 DEF SendingEnds, MirrorThrows, SendThrows, Throw, Settle, AfterError
    <2>4. s # Recovery => \E at \in {"ack", "read", "done"} : Go(s, at)
      BY <1>7 DEF SendingEnds, MirrorThrows, SendThrows, Throw, Settle, AfterError
    <2> QED
      BY <1>2, <1>3, <2>1, <2>2, <2>3, <2>4
  <1>8. CASE AckThrows(s)
    <2>1. Files
      BY <1>6, <1>8 DEF AckThrows, files, plan
    <2> QED
      BY <1>2, <1>3, <1>8, <2>1 DEF AckThrows
  <1>9. CASE AckRename(s)
    <2>1. Files
      BY <1>9 DEF AckRename, env, plan, Typed, FilesTyped
    <2> QED
      BY <1>4, <1>5, <1>9, <2>1 DEF AckRename, AtWork
  <1>10. CASE AckUnlink(s) \/ FailThrows(s)
    <2>1. Files
      BY <1>10 DEF AckUnlink, FailThrows, files, plan, history, Typed, FilesTyped
    <2>2. job[s].at \in AtWork /\ Go(s, IF s = Recovery THEN "loop" ELSE "done")
      BY <1>10 DEF AckUnlink, FailThrows, Rest, AtWork
    <2> QED
      BY <1>4, <1>5, <2>1, <2>2
  <1>11. CASE s = Recovery /\ MoveToFailed
    <2>1. Files
      BY <1>11 DEF MoveToFailed, plan, history, Typed, FilesTyped
    <2> QED
      BY <1>4, <1>11, <2>1 DEF MoveToFailed, AtWork
  <1> QED
    BY <1>1, <1>7, <1>8, <1>9, <1>10, <1>11

\* A step of a sender that has recovery go on with the entry it works on.
LEMMA OrderlyOnward ==
    ASSUME Orderly, UNCHANGED <<listed, todo, up>>,
           \/ job'[Recovery] = job[Recovery]
           \/ /\ job[Recovery].at \in AtWork
              /\ job'[Recovery].entry = job[Recovery].entry
              /\ job'[Recovery].by = job[Recovery].by
              /\ job'[Recovery].at \in AtWork \cup {"loop"}
    PROVE  Orderly'
  BY DEF Orderly, RecoveryUp, HeldOnce, Works, AtWork

LEMMA UpdateGoesOn ==
    ASSUME Typed, NEW s \in Senders, FailRead(s) \/ FailWrite(s)
    PROVE  /\ Only(s) /\ job'[s].entry = job[s].entry /\ job'[s].by = job[s].by
           /\ UNCHANGED <<listed, todo, overlapped, acked, up>>
           /\ FailRead(s) => /\ job[s].at = "read" /\ job'[s].at = "write"
                             /\ job'[s].seen = retry[job[s].entry]
           /\ FailWrite(s) => /\ job[s].at = "write"
                              /\ job'[s].at = IF s = Recovery THEN "loop" ELSE "done"
  <1>1. JobsTyped
    BY DEF Typed
  <1>2. CASE FailRead(s)
    BY <1>1, <1>2 DEF FailRead, FailWrite, JobsTyped, IsJob, Only, files, env, plan, history
  <1>3. CASE FailWrite(s)
    BY <1>1, <1>3, GoResult DEF FailRead, FailWrite, Rest, env, plan, history
  <1> QED
    BY <1>2, <1>3

LEMMA StepResult ==
    ASSUME Typed, NEW s \in Senders, Step(s)
    PROVE  /\ Only(s) /\ job'[s].entry = job[s].entry /\ job'[s].by = job[s].by
           /\ job[s].at \in AtWork
           /\ job'[s].at \in IF s = Recovery THEN AtWork \cup {"loop"}
                             ELSE {"send", "ack", "read", "write", "unlink", "done"}
           /\ UNCHANGED <<listed, todo, overlapped, up>>
  <1>1. CASE FailRead(s) \/ FailWrite(s)
    BY <1>1, UpdateGoesOn DEF AtWork
  <1>2. CASE ~(FailRead(s) \/ FailWrite(s))
    BY <1>2, GoesOnward DEF Step, Onward
  <1> QED
    BY <1>1, <1>2

LEMMA SenderResult ==
    ASSUME Typed, NEW d \in Deliveries,
           \/ CommandLineDies(d) \/ EnqueueDelivery(d)
           \/ \E by \in {"gateway", "cli"} : Deliver(d, by)
    PROVE  /\ Only(d) /\ job'[Recovery] = job[Recovery]
           /\ UNCHANGED <<retry, listed, todo, overlapped, acked, up>>
           /\ \/ /\ job[d].at = "enqueue" /\ job'[d].at = "send"
                 /\ \A e \in Deliveries \ {d} : disk'[e] = disk[e]
              \/ job[d].at = "idle" /\ job'[d].at = "enqueue" /\ UNCHANGED disk
              \/ job[d].at \notin {"idle", "done"} /\ job'[d].at = "done" /\ UNCHANGED disk
  <1>1. JobsTyped
    BY DEF Typed
  <1>2. CASE CommandLineDies(d)
    <2>1. /\ Only(d) /\ job[d].at \notin {"idle", "done"} /\ job'[d].at = "done"
      BY <1>1, <1>2, RecoveryApart DEF CommandLineDies, Killed, Unemployed, JobsTyped, Only
    <2>2. UNCHANGED <<disk, retry, listed, todo, overlapped, acked, up>>
      BY <1>2 DEF CommandLineDies, files, plan, history
    <2> QED
      BY <2>1, <2>2, RecoveryApart DEF Only
  <1>3. CASE EnqueueDelivery(d)
    <2>1. \/ job' = [job EXCEPT ![d].at = "send", ![d].queued = TRUE]
          \/ job' = [job EXCEPT ![d].at = "send"]
      BY <1>3 DEF EnqueueDelivery
    <2>2. Only(d) /\ job'[d].at = "send"
      BY <1>1, <2>1, RecoveryApart DEF JobsTyped, IsJob, Only
    <2>3. job[d].at = "enqueue" /\ \A e \in Deliveries \ {d} : disk'[e] = disk[e]
      BY <1>3 DEF EnqueueDelivery, Typed, FilesTyped
    <2>4. UNCHANGED <<retry, listed, todo, overlapped, acked, up>>
      BY <1>3 DEF EnqueueDelivery, plan, history
    <2> QED
      BY <2>2, <2>3, <2>4, RecoveryApart DEF Only
  <1>4. CASE \E by \in {"gateway", "cli"} : Deliver(d, by)
    <2>1. Only(d) /\ job'[d].at = "enqueue" /\ job[d].at = "idle"
      BY <1>1, <1>4, RecoveryApart DEF Deliver, JobsTyped, IsJob, Only
    <2>2. UNCHANGED <<disk, retry, listed, todo, overlapped, acked, up>>
      BY <1>4 DEF Deliver, files, env, plan, history
    <2> QED
      BY <2>1, <2>2, RecoveryApart DEF Only
  <1> QED
    BY <1>2, <1>3, <1>4

LEMMA DeathResult ==
    ASSUME Typed, GatewayDies
    PROVE  /\ \A s \in Senders : \/ job'[s] = job[s]
                                 \/ /\ job[s].at # "idle"
                                    /\ job'[s].at = IF s = Recovery THEN "idle" ELSE "done"
                                    /\ job'[s].by = job[s].by
           /\ job[Recovery].by = "gateway" => job'[Recovery].at = "idle"
           /\ listed' = {} /\ todo' = {}
           /\ UNCHANGED <<disk, retry, overlapped, acked>>
  BY RecoveryApart DEF GatewayDies, Killed, Unemployed, Typed, JobsTyped, files, history

LEMMA OrderlyStep == ASSUME Typed, Orderly, [Next]_vars PROVE Orderly'
  <1>j. JobsTyped
    BY DEF Typed
  <1>1. ASSUME NEW s \in Senders, Step(s) PROVE Orderly'
    <2>1. s = Recovery \/ job'[Recovery] = job[Recovery]
      BY <1>1, StepResult, RecoveryApart DEF Only
    <2> QED
      BY <1>1, <2>1, StepResult, OrderlyOnward
  <1>2. CASE MoveToFailed
    BY <1>2, GoesOnward, RecoveryApart, OrderlyOnward DEF Onward
  <1>3. ASSUME NEW d \in Deliveries,
               \/ CommandLineDies(d) \/ EnqueueDelivery(d)
               \/ \E by \in {"gateway", "cli"} : Deliver(d, by)
        PROVE  Orderly'
    BY <1>3, SenderResult, OrderlyOnward
  <1>4. CASE GatewayDies
    <2>1. /\ job'[Recovery].at = "idle" /\ job'[Recovery].by = "gateway"
          /\ listed' = {} /\ todo' = {}
      BY <1>4, DeathResult, RecoveryApart DEF Orderly, RecoveryUp
    <2> QED
      BY <2>1 DEF Orderly, RecoveryUp, HeldOnce, AtWork
  <1>5. CASE StartGateway
    <2>1. /\ job'[Recovery].at = "scan" /\ job'[Recovery].by = "gateway" /\ up'
          /\ listed = {} /\ todo = {} /\ UNCHANGED <<listed, todo>>
      BY <1>5, <1>j, GoResult, RecoveryApart DEF StartGateway, plan, Orderly, RecoveryUp, HeldOnce
    <2> QED
      BY <2>1 DEF Orderly, RecoveryUp, HeldOnce, AtWork
  <1>6. CASE ScanQueueDir
    <2>1. /\ job'[Recovery].at = "load" /\ job'[Recovery].by = "gateway" /\ up' = up /\ up
          /\ todo' = {}
      BY <1>6, <1>j, GoResult, RecoveryApart DEF ScanQueueDir, env, Orderly, RecoveryUp, HeldOnce
    <2> QED
      BY <2>1 DEF Orderly, RecoveryUp, HeldOnce, AtWork
  <1>7. CASE LoadEntry
    <2>1. PICK d \in listed : /\ listed' = listed \ {d}
                              /\ todo' = IF Pending(disk[d])
                                         THEN todo \cup {[id |-> d, seen |-> retry[d]]} ELSE todo
      BY <1>7 DEF LoadEntry
    <2>2. job[Recovery].at = "load" /\ UNCHANGED <<job, up>>
      BY <1>7 DEF LoadEntry, env
    <2>3. ASSUME NEW e \in todo', NEW other \in todo'
          PROVE  e.id \notin listed' /\ (e.id = other.id => e = other)
      BY <2>1 DEF Orderly, HeldOnce
    <2> QED
      BY <2>2, <2>3 DEF Orderly, RecoveryUp, HeldOnce, Works, AtWork
  <1>8. CASE LoadingEnds
    <2>1. /\ job'[Recovery].at = "loop" /\ job'[Recovery].by = "gateway" /\ up' = up /\ up
          /\ listed = {} /\ UNCHANGED <<listed, todo>>
      BY <1>8, <1>j, GoResult, RecoveryApart DEF LoadingEnds, env, plan, Orderly, RecoveryUp
    <2> QED
      BY <2>1 DEF Orderly, HeldOnce, RecoveryUp, Works, AtWork
  <1>9. ASSUME NEW e \in todo, NEW at, Take(e, at), at \in {"move", "send", "loop"} PROVE Orderly'
    <2>1. /\ job'[Recovery].at = at /\ job'[Recovery].by = "gateway"
          /\ job'[Recovery].entry = e.id
      BY <1>9, <1>j, TakeSets
    <2>2. /\ listed = {} /\ UNCHANGED <<listed, up>> /\ up /\ todo' = todo \ {e}
      BY <1>9 DEF Take, env, Orderly, RecoveryUp, HeldOnce
    <2>3. e.id \in Deliveries
      BY DEF Typed, FilesTyped
    <2>4. \A other \in todo' : other \in todo /\ other.id # e.id
      BY <2>2 DEF Orderly, HeldOnce
    <2> QED
      BY <1>9, <2>1, <2>2, <2>3, <2>4 DEF Orderly, HeldOnce, RecoveryUp, Works, AtWork
  <1>10. CASE RecoveryEnds
    <2>1. /\ job'[Recovery].at = "idle" /\ job'[Recovery].by = "gateway"
          /\ listed' = {} /\ todo' = {}
      BY <1>10, <1>j, GoResult, RecoveryApart DEF RecoveryEnds, Orderly, RecoveryUp, HeldOnce
    <2> QED
      BY <2>1 DEF Orderly, RecoveryUp, HeldOnce, AtWork
  <1>11. CASE UNCHANGED vars
    BY <1>11, OrderlyOnward DEF vars, plan, env
  <1>12. CASE RecoveryStep
    BY <1>2, <1>6, <1>7, <1>8, <1>9, <1>10, <1>12 DEF RecoveryStep, GiveUp, Defer, RetryEntry
  <1> QED
    BY <1>1, <1>3, <1>4, <1>5, <1>11, <1>12 DEF Next

-----------------------------------------------------------------------------
(* What was acknowledged is over: for an entry whose sender recovery did not *)
(* catch at work, there is one sender at a time, and nobody is left who      *)
(* could put its file back.                                                  *)

InHand(d) == d \in listed \/ (\E e \in todo : e.id = d) \/ Works(d, AtWork)

Orphaned == \A d \in Deliveries \ overlapped : InHand(d) => job[d].at = "done"

Over(d) ==
    /\ "json" \notin disk[d]
    /\ job[d].at \in {"unlink", "done"}
    /\ \A e \in todo : e.id # d
    /\ ~Works(d, {"send", "ack", "read", "write"})

AckedIsOver == \A d \in acked \ overlapped : Over(d)

Settled == acked \subseteq Deliveries /\ Orphaned /\ AckedIsOver

\* A sender that is done stays so.
LEMMA DoneStays ==
    ASSUME Typed, [Next]_vars, NEW d \in Deliveries, job[d].at = "done"
    PROVE  job'[d].at = "done"
  <1>1. ASSUME NEW s \in Senders, Only(s), job[s].at # "done" \/ s = Recovery
        PROVE  job'[d].at = "done"
    BY <1>1, RecoveryApart DEF Only
  <1>2. ASSUME NEW at, Go(Recovery, at) PROVE job'[d].at = "done"
    BY <1>1, <1>2, GoResult, RecoveryApart DEF Typed
  <1>3. ASSUME NEW s \in Senders, Step(s) PROVE job'[d].at = "done"
    BY <1>1, <1>3, StepResult DEF AtWork
  <1>4. ASSUME NEW e \in Deliveries,
               \/ CommandLineDies(e) \/ EnqueueDelivery(e)
               \/ \E by \in {"gateway", "cli"} : Deliver(e, by)
        PROVE  job'[d].at = "done"
    BY <1>1, <1>4, SenderResult, RecoveryApart
  <1>5. CASE GatewayDies
    BY <1>5, DeathResult, RecoveryApart
  <1>6. CASE UNCHANGED vars \/ LoadEntry
    BY <1>6 DEF vars, LoadEntry
  <1>7. ASSUME NEW e \in todo, NEW at, Take(e, at) PROVE job'[d].at = "done"
    BY <1>1, <1>7, TakeSets, RecoveryApart DEF Typed
  <1> QED
    BY <1>2, <1>3, <1>4, <1>5, <1>6, <1>7
    DEF Next, StartGateway, RecoveryStep, ScanQueueDir, LoadingEnds, MoveToFailed, GiveUp, Defer,
        RetryEntry, RecoveryEnds

\* Recovery takes an entry in hand only by listing it.
LEMMA HandStep ==
    ASSUME Typed, Orderly, [Next]_vars, NEW d \in Deliveries, InHand(d)'
    PROVE  (InHand(d) /\ UNCHANGED overlapped) \/ ScanQueueDir
  <1>1. ASSUME UNCHANGED <<listed, todo>>, Works(d, AtWork)' => Works(d, AtWork) PROVE InHand(d)
    BY <1>1 DEF InHand
  <1>2. ASSUME NEW s \in Senders, Step(s) \/ (s = Recovery /\ MoveToFailed)
        PROVE  InHand(d) /\ UNCHANGED overlapped
    <2>1. /\ Only(s) /\ job'[s].entry = job[s].entry /\ job[s].at \in AtWork
          /\ UNCHANGED <<listed, todo, overlapped>>
      BY <1>2, StepResult, GoesOnward DEF Onward
    <2> QED
      BY <1>1, <2>1, RecoveryApart DEF Only, Works
  <1>3. ASSUME NEW e \in Deliveries,
               \/ CommandLineDies(e) \/ EnqueueDelivery(e)
               \/ \E by \in {"gateway", "cli"} : Deliver(e, by)
        PROVE  InHand(d) /\ UNCHANGED overlapped
    BY <1>1, <1>3, SenderResult DEF Works
  <1>4. CASE GatewayDies
    <2>1. /\ job'[Recovery].at = "idle" /\ listed' = {} /\ todo' = {}
      BY <1>4, DeathResult DEF Orderly, RecoveryUp
    <2> QED
      BY <2>1 DEF InHand, Works, AtWork
  <1>5. ASSUME NEW at, Go(Recovery, at), at \notin AtWork, UNCHANGED <<listed, todo>>
        PROVE  InHand(d)
    BY <1>1, <1>5, GoResult, RecoveryApart DEF Works, Typed
  <1>6. CASE StartGateway \/ LoadingEnds
    BY <1>5, <1>6 DEF StartGateway, LoadingEnds, AtWork, plan, history
  <1>7. CASE RecoveryEnds
    <2>1. job'[Recovery].at = "idle" /\ todo' = {} /\ UNCHANGED <<listed, overlapped>>
      BY <1>7, GoResult, RecoveryApart DEF RecoveryEnds, history, Typed
    <2> QED
      BY <2>1 DEF InHand, Works, AtWork
  <1>8. CASE LoadEntry
    BY <1>8 DEF LoadEntry, history, InHand, Works
  <1>9. ASSUME NEW e \in todo, NEW at, Take(e, at) PROVE InHand(d) /\ UNCHANGED overlapped
    <2>1. /\ job'[Recovery].entry = e.id
          /\ todo' = todo \ {e} /\ UNCHANGED <<listed, overlapped>>
      BY <1>9, TakeSets DEF Take, history, Typed
    <2> QED
      BY <2>1 DEF InHand, Works
  <1>10. CASE UNCHANGED vars
    BY <1>1, <1>10 DEF vars, plan, history, Works
  <1>11. CASE RecoveryStep
    BY <1>2, <1>6, <1>7, <1>8, <1>9, <1>11, RecoveryApart
    DEF RecoveryStep, GiveUp, Defer, RetryEntry
  <1> QED
    BY <1>2, <1>3, <1>4, <1>6, <1>10, <1>11 DEF Next

LEMMA OrphanedStep == ASSUME Typed, Orderly, Orphaned, [Next]_vars PROVE Orphaned'
  <1> SUFFICES ASSUME NEW d \in Deliveries, d \notin overlapped', InHand(d)'
               PROVE  job'[d].at = "done"
    BY DEF Orphaned
  <1>1. CASE InHand(d) /\ UNCHANGED overlapped
    BY <1>1, DoneStays DEF Orphaned
  <1>2. CASE ScanQueueDir
    <2>1. job'[Recovery].at = "load" /\ todo = {} /\ UNCHANGED todo
      BY <1>2, GoResult, RecoveryApart DEF ScanQueueDir, Orderly, HeldOnce, Typed
    <2>2. d \in listed'
      BY <2>1 DEF InHand, Works, AtWork
    <2>3. job[d].at = "done"
      BY <1>2, <2>2 DEF ScanQueueDir
    <2> QED
      BY <2>3, DoneStays
  <1> QED
    BY <1>1, <1>2, HandStep

LEMMA OverOnward ==
    ASSUME NEW d \in Deliveries, Over(d), NEW s \in Senders, Onward(s)
    PROVE  Over(d)'
  <1>1. "json" \notin disk'[d] /\ \A e \in todo' : e.id # d
    BY DEF Over, Onward
  <1>2. job'[d].at \in {"unlink", "done"}
    BY RecoveryApart DEF Over, Onward, Only, AtWork
  <1>3. ~Works(d, {"send", "ack", "read", "write"})'
    BY RecoveryApart DEF Over, Onward, Only, Works
  <1> QED
    BY <1>1, <1>2, <1>3 DEF Over

LEMMA OverStep ==
    ASSUME Typed, Orderly, [Next]_vars, NEW d \in Deliveries, Over(d)
    PROVE  Over(d)'
  <1> DEFINE Apart == {"send", "ack", "read", "write"}
  <1>1. ASSUME NEW s \in Senders, FailRead(s) \/ FailWrite(s) PROVE Over(d)'
    <2>1. s # d /\ job[s].entry # d
      BY <1>1, RecoveryApart
      DEF FailRead, FailWrite, Over, Works, Typed, JobsTyped, Senders
    <2>2. job'[d] = job[d] /\ ~Works(d, Apart)' /\ UNCHANGED todo
      BY <1>1, <2>1, UpdateGoesOn, RecoveryApart DEF Only, Works, Over
    <2>3. disk'[d] = disk[d]
      BY <1>1, <2>1 DEF FailRead, FailWrite, files, Typed, FilesTyped
    <2> QED
      BY <2>2, <2>3 DEF Over
  <1>2. ASSUME NEW s \in Senders, Step(s) PROVE Over(d)'
    BY <1>1, <1>2, GoesOnward, OverOnward DEF Step
  <1>3. ASSUME NEW e \in Deliveries,
               \/ CommandLineDies(e) \/ EnqueueDelivery(e)
               \/ \E by \in {"gateway", "cli"} : Deliver(e, by)
        PROVE  Over(d)'
    <2>1. ASSUME e = d PROVE job'[d].at = "done" /\ UNCHANGED disk
      <3>1. job[e].at \in {"unlink", "done"}
        BY <2>1 DEF Over
      <3> QED
        BY <1>3, <2>1, <3>1, SenderResult
    <2>2. disk'[d] = disk[d]
      BY <1>3, <2>1, SenderResult
    <2>3. job'[d].at \in {"unlink", "done"}
      BY <1>3, <2>1, SenderResult, RecoveryApart DEF Over, Only
    <2> QED
      BY <1>3, <2>2, <2>3, SenderResult DEF Over, Works
  <1>4. CASE GatewayDies
    <2>1. job'[Recovery].at = "idle"
      BY <1>4, DeathResult DEF Orderly, RecoveryUp
    <2> QED
      BY <1>4, <2>1, DeathResult, RecoveryApart DEF Over, Works
  <1>5. ASSUME NEW at, Go(Recovery, at), at \notin Apart, todo' \subseteq todo,
               "json" \in disk'[d] => "json" \in disk[d]
        PROVE  Over(d)'
    <2>1. job'[d] = job[d] /\ job'[Recovery].at \notin Apart
      BY <1>5, GoResult, RecoveryApart DEF Only, Typed
    <2> QED
      BY <1>5, <2>1 DEF Over, Works
  <1>6. CASE StartGateway \/ LoadingEnds \/ RecoveryEnds
    <2>1. UNCHANGED disk /\ todo' \subseteq todo
      BY <1>6 DEF StartGateway, LoadingEnds, RecoveryEnds, files, plan
    <2>2. Go(Recovery, "scan") \/ Go(Recovery, "loop") \/ Go(Recovery, "idle")
      BY <1>6 DEF StartGateway, LoadingEnds, RecoveryEnds
    <2> QED
      BY <1>5, <2>1, <2>2
  <1>7. CASE ScanQueueDir
    <2>1. UNCHANGED todo /\ Go(Recovery, "load") /\ ("json" \in disk'[d] => "json" \in disk[d])
      BY <1>7 DEF ScanQueueDir, Swept
    <2> QED
      BY <1>5, <2>1
  <1>8. CASE MoveToFailed
    BY <1>8, GoesOnward, OverOnward, RecoveryApart
  <1>9. CASE LoadEntry
    <2>1. \A e \in todo' : e \in todo \/ "json" \in disk[e.id]
      BY <1>9 DEF LoadEntry, Pending
    <2>2. UNCHANGED <<disk, job>>
      BY <1>9 DEF LoadEntry, files
    <2> QED
      BY <2>1, <2>2 DEF Over, Works
  <1>10. ASSUME NEW e \in todo, NEW at, Take(e, at) PROVE Over(d)'
    <2>1. job'[d] = job[d] /\ job'[Recovery].entry # d
      BY <1>10, TakeSets, RecoveryApart DEF Over, Only, Typed
    <2>2. UNCHANGED disk /\ todo' \subseteq todo
      BY <1>10 DEF Take, files
    <2> QED
      BY <2>1, <2>2 DEF Over, Works
  <1>11. CASE UNCHANGED vars
    BY <1>11 DEF vars, files, plan, Over, Works
  <1> QED
    BY <1>2, <1>3, <1>4, <1>6, <1>7, <1>8, <1>9, <1>10, <1>11
    DEF Next, RecoveryStep, GiveUp, Defer, RetryEntry

\* The acknowledgement itself: only one of the sender and recovery is at work.
LEMMA OverAtOnce ==
    ASSUME Typed, Orderly, Orphaned, NEW s \in Senders, AckRename(s),
           NEW d \in Deliveries \ overlapped, job[s].entry = d
    PROVE  Over(d)'
  <1>1. Only(s) /\ job'[s].at = "unlink" /\ job'[s].entry = d /\ job[s].at = "ack"
    BY GoResult DEF AckRename, Typed
  <1>2. UNCHANGED todo
    BY DEF AckRename, plan
  <1>3. "json" \notin disk'[d]
    BY DEF AckRename, Typed, FilesTyped
  <1>4. CASE s = Recovery
    <2>1. InHand(d) /\ \A e \in todo : e.id # d
      BY <1>1, <1>4 DEF InHand, Works, AtWork, Orderly, HeldOnce
    <2>2. job[d].at = "done"
      BY <2>1 DEF Orphaned
    <2> QED
      BY <1>1, <1>2, <1>3, <1>4, <2>1, <2>2, RecoveryApart DEF Over, Only, Works
  <1>5. CASE s # Recovery
    <2>1. s = d
      BY <1>5 DEF Typed, JobsTyped, Senders
    <2>2. ~InHand(d)
      BY <1>1, <2>1 DEF Orphaned
    <2>3. (\A e \in todo : e.id # d) /\ ~Works(d, {"send", "ack", "read", "write"})
      BY <2>2 DEF InHand, Works, AtWork
    <2>4. job'[Recovery] = job[Recovery]
      BY <1>1, <1>5, RecoveryApart DEF Only
    <2> QED
      BY <1>1, <1>2, <1>3, <2>1, <2>3, <2>4 DEF Over, Works
  <1> QED
    BY <1>4, <1>5

LEMMA AckedResult ==
    ASSUME Typed, [Next]_vars
    PROVE  /\ overlapped \subseteq overlapped'
           /\ \/ acked' = acked
              \/ \E s \in Senders : AckRename(s) /\ acked' = acked \cup {job[s].entry}
  <1>1. ASSUME NEW s \in Senders, Step(s)
        PROVE  /\ UNCHANGED overlapped
               /\ acked' = acked \/ (AckRename(s) /\ acked' = acked \cup {job[s].entry})
    <2>1. CASE AckRename(s)
      BY <1>1, <2>1, StepResult DEF AckRename
    <2>2. CASE FailRead(s) \/ FailWrite(s)
      BY <2>2, UpdateGoesOn
    <2>3. CASE ~AckRename(s) /\ ~FailRead(s) /\ ~FailWrite(s)
      <3>1. Onward(s) /\ (AckRename(s) \/ UNCHANGED acked)
        BY <1>1, <2>3, GoesOnward DEF Step
      <3> QED
        BY <2>3, <3>1 DEF Onward
    <2> QED
      BY <2>1, <2>2, <2>3
  <1> QED
    BY <1>1
    DEF Next, vars, history, StartGateway, GatewayDies, CommandLineDies, EnqueueDelivery, Deliver,
        RecoveryStep, ScanQueueDir, LoadEntry, LoadingEnds, GiveUp, Defer, RetryEntry, Take,
        MoveToFailed, RecoveryEnds

LEMMA SettledStep == ASSUME Typed, Orderly, Settled, [Next]_vars PROVE Settled'
  <1>1. Orphaned'
    BY OrphanedStep DEF Settled
  <1>2. CASE acked' = acked
    <2>1. ASSUME NEW d \in acked' \ overlapped' PROVE Over(d)'
      <3>1. d \in Deliveries /\ Over(d)
        BY <1>2, AckedResult DEF Settled, AckedIsOver
      <3> QED
        BY <3>1, OverStep
    <2> QED
      BY <1>1, <1>2, <2>1 DEF Settled, AckedIsOver
  <1>3. ASSUME NEW s \in Senders, AckRename(s), acked' = acked \cup {job[s].entry} PROVE Settled'
    <2>1. job[s].entry \in Deliveries
      BY <1>3, RecoveryApart DEF AckRename, AtWork, Orderly, RecoveryUp, Typed, JobsTyped, Senders
    <2>2. ASSUME NEW d \in acked' \ overlapped' PROVE Over(d)'
      <3>1. CASE d \in acked
        <4>1. d \in Deliveries /\ Over(d)
          BY <3>1, AckedResult DEF Settled, AckedIsOver
        <4> QED
          BY <4>1, OverStep
      <3>2. CASE d = job[s].entry
        <4>1. d \in Deliveries \ overlapped
          BY <2>1, <3>2, AckedResult
        <4> QED
          BY <1>3, <3>2, <4>1, OverAtOnce DEF Settled
      <3> QED
        BY <1>3, <3>1, <3>2
    <2> QED
      BY <1>1, <1>3, <2>1, <2>2 DEF Settled, AckedIsOver
  <1> QED
    BY <1>2, <1>3, AckedResult

LEMMA SettledMeans == ASSUME Typed, Settled PROVE NeverReplayed
  <1> SUFFICES ASSUME NEW d \in acked \ overlapped
               PROVE  /\ "json" \notin disk[d]
                      /\ \A s \in Senders : job[s].at = "send" => job[s].entry # d
    BY DEF NeverReplayed
  <1>1. Over(d)
    BY DEF Settled, AckedIsOver
  <1> QED
    BY <1>1, RecoveryApart DEF Over, Works, Typed, JobsTyped, Senders

-----------------------------------------------------------------------------
(* How far a count can get: recovery takes an entry up only below            *)
(* MAX_RETRIES, and a live sender can add no more than one failure to what   *)
(* recovery counts.                                                          *)

\* The failure that the sender of d may still count.
Live(d) == IF job[d].at = "done" THEN 0 ELSE 1

\* Recovery may come to count a failure of d.
Retried(d) ==
    \/ Works(d, {"send", "ack", "read", "write"})
    \/ \E e \in todo : e.id = d /\ ~Exhausted(e.seen)

Bounded(d) ==
    /\ retry[d] + Live(d) <= MaxRetries + 1
    /\ Retried(d) => retry[d] + Live(d) <= MaxRetries
    /\ job[d].at = "write" => job[d].seen <= retry[d]
    /\ Works(d, {"write"}) => /\ job[Recovery].seen + Live(d) <= MaxRetries
                              /\ job[d].at # "done" => job[Recovery].seen = retry[d]

AllBounded == \A d \in Deliveries : Bounded(d)

\* What a step must not do to leave the counts of d as they are.
LEMMA BoundedKept ==
    ASSUME Typed, NEW d \in Deliveries, Bounded(d),
           retry'[d] = retry[d],
           job[d].at = "done" => job'[d].at = "done",
           Retried(d)' => Retried(d),
           job'[d].at = "write" => job[d].at = "write" /\ job'[d].seen = job[d].seen,
           Works(d, {"write"})'
           => Works(d, {"write"}) /\ job'[Recovery].seen = job[Recovery].seen
    PROVE  Bounded(d)'
  <1>1. retry[d] \in Nat /\ MaxRetries \in Nat
    BY DeliveryQueueAssumption DEF Typed, FilesTyped
  <1>2. /\ Live(d) \in {0, 1} /\ Live(d)' \in {0, 1} /\ Live(d)' <= Live(d)
        /\ job'[d].at # "done" => job[d].at # "done"
    BY DEF Live
  <1>3. Works(d, {"write"}) => job[Recovery].seen \in Nat
    BY RecoveryApart DEF Works, Typed, JobsTyped
  <1>4. retry'[d] + Live(d)' <= MaxRetries + 1
    BY <1>1, <1>2 DEF Bounded
  <1>5. Retried(d)' => retry'[d] + Live(d)' <= MaxRetries
    BY <1>1, <1>2 DEF Bounded
  <1>6. job'[d].at = "write" => job'[d].seen <= retry'[d]
    BY DEF Bounded
  <1>7. ASSUME Works(d, {"write"})'
        PROVE  /\ job'[Recovery].seen + Live(d)' <= MaxRetries
               /\ job'[d].at # "done" => job'[Recovery].seen = retry'[d]
    BY <1>1, <1>2, <1>3, <1>7 DEF Bounded
  <1> HIDE DEF Live
  <1> QED
    BY <1>4, <1>5, <1>6, <1>7 DEF Bounded

LEMMA BoundedOnward ==
    ASSUME Typed, NEW d \in Deliveries, Bounded(d), NEW s \in Senders, Onward(s)
    PROVE  Bounded(d)'
  <1>1. retry'[d] = retry[d] /\ (job[d].at = "done" => job'[d].at = "done")
    BY RecoveryApart DEF Onward, Only, AtWork
  <1>2. Retried(d)' => Retried(d)
    BY RecoveryApart DEF Onward, Only, Retried, Works
  <1>3. job'[d].at = "write" => job[d].at = "write" /\ job'[d].seen = job[d].seen
    BY RecoveryApart DEF Onward, Only
  <1>4. Works(d, {"write"})' => Works(d, {"write"}) /\ job'[Recovery].seen = job[Recovery].seen
    BY RecoveryApart DEF Onward, Only, Works
  <1> QED
    BY <1>1, <1>2, <1>3, <1>4, BoundedKept

LEMMA BoundedWhenRead ==
    ASSUME Typed, NEW d \in Deliveries, Bounded(d), NEW s \in Senders, FailRead(s)
    PROVE  Bounded(d)'
  <1>r. UNCHANGED <<retry, todo>>
    BY DEF FailRead, files, plan
  <1>1. /\ Only(s) /\ job'[s].entry = job[s].entry
        /\ job[s].at = "read" /\ job'[s].at = "write" /\ job'[s].seen = retry[job[s].entry]
    BY UpdateGoesOn
  <1>2. retry[d] \in Nat /\ MaxRetries \in Nat /\ Live(d) \in {0, 1}
    BY DeliveryQueueAssumption DEF Live, Typed, FilesTyped
  <1>3. job[d].at = "done" => job'[d].at = "done"
    BY <1>1, RecoveryApart DEF Only
  <1>4. Retried(d)' => Retried(d)
    BY <1>r, <1>1, RecoveryApart DEF Only, Retried, Works
  <1>5. CASE job[s].entry # d
    <2>1. s # d
      BY <1>5 DEF Typed, JobsTyped
    <2> QED
      BY <1>r, <1>1, <1>3, <1>4, <1>5, <2>1, BoundedKept, RecoveryApart DEF Only, Works
  <1>6. CASE job[s].entry = d
    <2>1. Live(d)' = Live(d)
      BY <1>1, RecoveryApart DEF Only, Live
    <2>2. retry'[d] + Live(d)' <= MaxRetries + 1
      BY <1>r, <2>1 DEF Bounded
    <2>3. Retried(d)' => retry'[d] + Live(d)' <= MaxRetries
      BY <1>r, <1>4, <2>1 DEF Bounded
    <2>4. job'[d].at = "write" => job'[d].seen <= retry'[d]
      BY <1>r, <1>1, <1>2, <1>6, RecoveryApart DEF Only, Bounded
    <2>5. ASSUME Works(d, {"write"})'
          PROVE  /\ job'[Recovery].seen + Live(d)' <= MaxRetries
                 /\ job'[d].at # "done" => job'[Recovery].seen = retry'[d]
      <3>1. CASE s = Recovery
        <4>1. Retried(d)
          BY <1>1, <1>6, <3>1 DEF Retried, Works
        <4> QED
          BY <1>r, <1>1, <1>6, <2>1, <3>1, <4>1 DEF Bounded
      <3>2. CASE s # Recovery
        <4>1. job'[Recovery] = job[Recovery] /\ s = d
          BY <1>1, <1>6, <3>2, RecoveryApart DEF Only, Typed, JobsTyped, Senders
        <4>2. job[d].at # "done" /\ Works(d, {"write"})
          BY <1>1, <2>5, <4>1 DEF Works
        <4> QED
          BY <1>r, <2>1, <4>1, <4>2 DEF Bounded
      <3> QED
        BY <3>1, <3>2
    <2> HIDE DEF Live
    <2> QED
      BY <2>2, <2>3, <2>4, <2>5 DEF Bounded
  <1> QED
    BY <1>5, <1>6

LEMMA BoundedWhenWritten ==
    ASSUME Typed, Orderly, NEW d \in Deliveries, Bounded(d), NEW s \in Senders, FailWrite(s)
    PROVE  Bounded(d)'
  <1>1. /\ Only(s) /\ job'[s].entry = job[s].entry /\ UNCHANGED todo
        /\ job[s].at = "write" /\ job'[s].at = IF s = Recovery THEN "loop" ELSE "done"
    BY UpdateGoesOn
  <1>2. retry[d] \in Nat /\ MaxRetries \in Nat /\ Live(d) \in {0, 1} /\ Live(d)' \in {0, 1}
    BY DeliveryQueueAssumption DEF Live, Typed, FilesTyped
  <1>3. job[s].entry = d => retry'[d] = job[s].seen + 1 /\ job[s].seen \in Nat
    BY <1>1 DEF FailWrite, RetryCount, Typed, FilesTyped, JobsTyped
  <1>4. CASE job[s].entry # d
    <2>1. s # d /\ retry'[d] = retry[d]
      BY <1>4 DEF FailWrite, Typed, FilesTyped, JobsTyped
    <2>2. Retried(d)' => Retried(d)
      BY <1>1, <1>4, RecoveryApart DEF Only, Retried, Works
    <2> QED
      BY <1>1, <1>4, <2>1, <2>2, BoundedKept, RecoveryApart DEF Only, Works
  <1>5. CASE job[s].entry = d /\ s = Recovery
    <2>1. job'[d] = job[d] /\ Live(d)' = Live(d)
      BY <1>1, <1>5, RecoveryApart DEF Only, Live
    <2>2. Works(d, {"write"}) /\ \A e \in todo : e.id # d
      BY <1>1, <1>5 DEF Works, Orderly, HeldOnce, AtWork
    <2>3. ~Retried(d)' /\ ~Works(d, {"write"})'
      BY <1>1, <1>5, <2>2 DEF Retried, Works
    <2>4. retry'[d] = job[Recovery].seen + 1 /\ job[Recovery].seen \in Nat
      BY <1>3, <1>5
    <2>5. /\ job[Recovery].seen + Live(d) <= MaxRetries
          /\ job[d].at = "write" => job[Recovery].seen = retry[d] /\ job[d].seen <= retry[d]
      BY <2>2 DEF Bounded
    <2>6. retry'[d] + Live(d)' <= MaxRetries + 1
      BY <1>2, <2>1, <2>4, <2>5
    <2>7. job'[d].at = "write" => job'[d].seen <= retry'[d]
      <3>1. job[d].at = "write" => job[d].seen \in Nat
        BY RecoveryApart DEF Typed, JobsTyped
      <3> QED
        BY <1>2, <2>1, <2>4, <2>5, <3>1
    <2> QED
      BY <2>3, <2>6, <2>7 DEF Bounded
  <1>6. CASE job[s].entry = d /\ s # Recovery
    <2>1. s = d /\ job'[Recovery] = job[Recovery]
      BY <1>1, <1>6, RecoveryApart DEF Only, Typed, JobsTyped, Senders
    <2>2. Live(d) = 1 /\ Live(d)' = 0 /\ job'[d].at = "done"
      BY <1>1, <2>1, RecoveryApart DEF Live
    <2>3. retry'[d] \in Nat /\ retry'[d] <= retry[d] + 1
      BY <1>1, <1>2, <1>3, <1>6, <2>1 DEF Bounded
    <2>4. retry'[d] + Live(d)' <= MaxRetries + 1
      BY <1>2, <2>2, <2>3 DEF Bounded
    <2>5. Retried(d)' => Retried(d)
      BY <1>1, <2>1 DEF Retried, Works
    <2>6. Retried(d)' => retry'[d] + Live(d)' <= MaxRetries
      BY <1>2, <2>2, <2>3, <2>5 DEF Bounded
    <2>7. Works(d, {"write"})' => Works(d, {"write"}) /\ job[Recovery].seen \in Nat
      BY <2>1, RecoveryApart DEF Works, Typed, JobsTyped
    <2>8. Works(d, {"write"})' => job'[Recovery].seen + Live(d)' <= MaxRetries
      BY <1>2, <2>1, <2>2, <2>7 DEF Bounded
    <2> HIDE DEF Live
    <2> QED
      BY <2>2, <2>4, <2>6, <2>8 DEF Bounded
  <1> QED
    BY <1>4, <1>5, <1>6

LEMMA BoundedStep ==
    ASSUME Typed, Orderly, [Next]_vars, NEW d \in Deliveries, Bounded(d)
    PROVE  Bounded(d)'
  <1>1. job[d].at = "done" => job'[d].at = "done"
    BY DoneStays
  <1>2. ASSUME NEW s \in Senders, Step(s) PROVE Bounded(d)'
    BY <1>2, GoesOnward, BoundedOnward, BoundedWhenRead, BoundedWhenWritten DEF Step
  <1>3. ASSUME NEW e \in Deliveries,
               \/ CommandLineDies(e) \/ EnqueueDelivery(e)
               \/ \E by \in {"gateway", "cli"} : Deliver(e, by)
        PROVE  Bounded(d)'
    <2>1. job'[d] = job[d] \/ job'[d].at # "write"
      BY <1>3, SenderResult, RecoveryApart DEF Only
    <2> QED
      BY <1>1, <1>3, <2>1, SenderResult, BoundedKept DEF Retried, Works
  <1>4. CASE GatewayDies
    <2>1. job'[Recovery].at = "idle" /\ todo' = {} /\ UNCHANGED retry
      BY <1>4, DeathResult DEF Orderly, RecoveryUp
    <2>2. job'[d] = job[d] \/ job'[d].at # "write"
      BY <1>4, DeathResult, RecoveryApart
    <2> QED
      BY <1>1, <2>1, <2>2, BoundedKept DEF Retried, Works
  <1>5. ASSUME NEW at, Go(Recovery, at), at \notin {"send", "ack", "read", "write"},
               todo' \subseteq todo, UNCHANGED retry
        PROVE  Bounded(d)'
    <2>1. job'[d] = job[d] /\ job'[Recovery].at = at
      BY <1>5, GoResult, RecoveryApart DEF Only, Typed
    <2> QED
      BY <1>1, <1>5, <2>1, BoundedKept DEF Retried, Works
  <1>6. CASE StartGateway \/ ScanQueueDir \/ LoadingEnds \/ RecoveryEnds
    <2>1. UNCHANGED retry /\ todo' \subseteq todo
      BY <1>6 DEF StartGateway, ScanQueueDir, LoadingEnds, RecoveryEnds, files, plan
    <2>2. \E at \in {"scan", "load", "loop", "idle"} : Go(Recovery, at)
      BY <1>6 DEF StartGateway, ScanQueueDir, LoadingEnds, RecoveryEnds
    <2> QED
      BY <1>5, <2>1, <2>2
  <1>7. CASE MoveToFailed
    BY <1>7, GoesOnward, BoundedOnward, RecoveryApart
  <1>8. CASE LoadEntry
    <2>1. UNCHANGED <<job, retry>> /\ job[Recovery].at = "load"
      BY <1>8 DEF LoadEntry, files
    <2>2. \A e \in todo' : e \in todo \/ e.seen = retry[e.id]
      BY <1>8 DEF LoadEntry
    <2>3. retry[d] \in Nat /\ MaxRetries \in Nat /\ Live(d) \in {0, 1} /\ Live(d)' = Live(d)
      BY <2>1, DeliveryQueueAssumption DEF Live, Typed, FilesTyped
    <2>4. ASSUME Retried(d)' PROVE retry'[d] + Live(d)' <= MaxRetries
      <3>1. PICK e \in todo' : e.id = d /\ ~Exhausted(e.seen)
        BY <2>1, <2>4 DEF Retried, Works
      <3>2. CASE e \in todo
        BY <2>1, <2>3, <3>1, <3>2 DEF Bounded, Retried
      <3>3. CASE e.seen = retry[d]
        BY <2>1, <2>3, <3>1, <3>3 DEF Exhausted
      <3> QED
        BY <2>2, <3>1, <3>2, <3>3
    <2>5. ~Works(d, {"write"})'
      BY <2>1 DEF Works
    <2> HIDE DEF Live
    <2> QED
      BY <2>1, <2>3, <2>4, <2>5 DEF Bounded
  <1>9. ASSUME NEW e \in todo, NEW at, Take(e, at), at \in {"move", "send", "loop"},
               at = "send" => ~Exhausted(e.seen)
        PROVE  Bounded(d)'
    <2>1. /\ job'[d] = job[d] /\ job'[Recovery].at = at /\ job'[Recovery].entry = e.id
          /\ UNCHANGED retry /\ todo' \subseteq todo
      BY <1>9, TakeSets, RecoveryApart DEF Only, Take, files, Typed
    <2>2. Retried(d)' => Retried(d)
      BY <1>9, <2>1 DEF Retried, Works
    <2> QED
      BY <1>1, <1>9, <2>1, <2>2, BoundedKept DEF Works
  <1>10. CASE UNCHANGED vars
    BY <1>10, BoundedKept DEF vars, files, plan, Retried, Works
  <1>11. CASE RecoveryStep
    BY <1>6, <1>7, <1>8, <1>9, <1>11 DEF RecoveryStep, GiveUp, Defer, RetryEntry
  <1> QED
    BY <1>2, <1>3, <1>4, <1>6, <1>10, <1>11 DEF Next

-----------------------------------------------------------------------------
(* The types that the other proofs do without. *)

Places == {"idle", "enqueue", "send", "ack", "unlink", "read", "write", "done",
           "scan", "load", "loop", "move"}

WellFormed ==
    /\ job \in [Senders -> Job]
    /\ up \in BOOLEAN /\ faults \in 0..MaxFaults
    /\ acked \cup aborted \cup overlapped \cup permanent \subseteq Deliveries

LEMMA JobUpdated ==
    ASSUME NEW j \in Job
    PROVE  /\ \A at \in Places : [j EXCEPT !.at = at] \in Job
           /\ \A d \in Senders : [j EXCEPT !.entry = d] \in Job
           /\ \A n \in Nat : [j EXCEPT !.seen = n] \in Job
           /\ [j EXCEPT !.queued = TRUE] \in Job
  BY DEF Job, Places

LEMMA GoTyped ==
    ASSUME job \in [Senders -> Job], NEW s \in Senders, NEW at \in Places, Go(s, at)
    PROVE  job' \in [Senders -> Job]
  BY DEF Go, Job, Places

LEMMA WorksOnEntry ==
    ASSUME Typed, Orderly, NEW s \in Senders, job[s].at \in AtWork
    PROVE  job[s].entry \in Deliveries
  BY DEF Orderly, RecoveryUp, Typed, JobsTyped, Senders

LEMMA FaultTyped == ASSUME WellFormed, Fault PROVE faults' \in 0..MaxFaults
  BY DeliveryQueueAssumption DEF WellFormed, Fault

LEMMA JobStep ==
    ASSUME Typed, Orderly, WellFormed, [Next]_vars
    PROVE  job' \in [Senders -> Job]
  <1>j. job \in [Senders -> Job]
    BY DEF WellFormed
  <1>u. ASSUME NEW s \in Senders PROVE Unemployed(s) \in Job
    BY DEF Unemployed, Job
  <1>1. ASSUME NEW s \in Senders, SendPayload(s) \/ SendErrorIgnored(s)
        PROVE  job' \in [Senders -> Job]
    <2>1. \/ job' = [job EXCEPT ![s].part = @ + 1]
          \/ \E b \in BOOLEAN : job' = [job EXCEPT ![s].part = @ + 1, ![s].partial = b]
      <3>1. CASE SendPayload(s)
        BY <3>1 DEF SendPayload
      <3>2. CASE SendErrorIgnored(s)
        <4>1. (job[s].partial \/ (s # Recovery /\ s \in OnError)) \in BOOLEAN
          OBVIOUS
        <4> QED
          BY <3>2, <4>1 DEF SendErrorIgnored
      <3> QED
        BY <1>1, <3>1, <3>2
    <2> QED
      BY <1>j, <2>1 DEF Job
  <1>2. ASSUME NEW s \in Senders,
               \/ SendingEnds(s) \/ MirrorThrows(s) \/ AckRename(s) \/ AckThrows(s) \/ AckUnlink(s)
               \/ \E kind \in {"transient", "permanent", "abort"} : SendThrows(s, kind)
               \/ FailWrite(s) \/ FailThrows(s)
        PROVE  job' \in [Senders -> Job]
    <2>1. \E at \in {"ack", "read", "move", "done", "unlink", "loop"} : Go(s, at)
      BY <1>2
      DEF SendingEnds, MirrorThrows, AckRename, AckThrows, AckUnlink, SendThrows, Throw, FailWrite,
          FailThrows, Settle, AfterError, Rest
    <2> QED
      BY <1>j, <2>1, GoTyped DEF Places
  <1>3. ASSUME NEW s \in Senders, FailRead(s) PROVE job' \in [Senders -> Job]
    <2>1. retry[job[s].entry] \in Nat
      BY <1>3, WorksOnEntry DEF FailRead, AtWork, Typed, FilesTyped
    <2>2. PICK n \in Nat : job' = [job EXCEPT ![s].at = "write", ![s].seen = n]
      BY <1>3, <2>1 DEF FailRead
    <2>3. [job[s] EXCEPT !.at = "write"] \in Job
      BY <1>j, <1>3, JobUpdated DEF Places
    <2>4. [job[s] EXCEPT !.at = "write", !.seen = n] \in Job
      BY <2>3, JobUpdated
    <2> QED
      BY <1>j, <1>3, <2>2, <2>4
  <1>4. ASSUME NEW s \in Senders, Step(s) PROVE job' \in [Senders -> Job]
    BY <1>1, <1>2, <1>3, <1>4 DEF Step
  <1>5. CASE GatewayDies
    <2>1. \A s \in Senders : Killed(s) \in Job
      BY <1>j, <1>u DEF Killed, Unemployed, Job
    <2> QED
      BY <1>j, <1>5, <2>1 DEF GatewayDies
  <1>6. ASSUME NEW d \in Deliveries,
               \/ CommandLineDies(d) \/ EnqueueDelivery(d)
               \/ \E by \in {"gateway", "cli"} : Deliver(d, by)
        PROVE  job' \in [Senders -> Job]
    <2>1. Killed(d) \in Job
      BY <1>j, <1>u, RecoveryApart DEF Killed, Unemployed, Job
    <2>2. CASE CommandLineDies(d)
      BY <1>j, <2>1, <2>2 DEF CommandLineDies
    <2>3. CASE EnqueueDelivery(d)
      <3>1. \/ job' = [job EXCEPT ![d].at = "send", ![d].queued = TRUE]
            \/ job' = [job EXCEPT ![d].at = "send"]
        BY <2>3 DEF EnqueueDelivery
      <3> QED
        BY <1>j, <3>1, RecoveryApart DEF Job
    <2>4. CASE \E by \in {"gateway", "cli"} : Deliver(d, by)
      BY <1>j, <2>4, RecoveryApart DEF Deliver, Job
    <2> QED
      BY <1>6, <2>2, <2>3, <2>4
  <1>7. CASE StartGateway \/ ScanQueueDir \/ LoadingEnds \/ MoveToFailed \/ RecoveryEnds
    <2>1. \E at \in {"scan", "load", "loop", "idle"} : Go(Recovery, at)
      BY <1>7 DEF StartGateway, ScanQueueDir, LoadingEnds, MoveToFailed, RecoveryEnds
    <2> QED
      BY <1>j, <2>1, GoTyped, RecoveryApart DEF Places
  <1>8. ASSUME NEW e \in todo, NEW at \in {"move", "send", "loop"}, Take(e, at)
        PROVE  job' \in [Senders -> Job]
    <2>1. e.id \in Senders
      BY RecoveryApart DEF Typed, FilesTyped
    <2>2. [Unemployed(Recovery) EXCEPT !.at = at] \in Job
      BY <1>u, <1>8, RecoveryApart, JobUpdated DEF Places
    <2>3. [Unemployed(Recovery) EXCEPT !.at = at, !.entry = e.id] \in Job
      BY <2>1, <2>2, JobUpdated
    <2>4. [Unemployed(Recovery) EXCEPT !.at = at, !.entry = e.id, !.queued = TRUE] \in Job
      BY <2>3, JobUpdated
    <2> QED
      BY <1>j, <1>8, <2>4 DEF Take
  <1>9. CASE RecoveryStep
    BY <1>j, <1>7, <1>8, <1>9 DEF RecoveryStep, LoadEntry, GiveUp, Defer, RetryEntry
  <1>10. CASE UNCHANGED vars
    BY <1>j, <1>10 DEF vars
  <1> QED
    BY <1>4, <1>5, <1>6, <1>7, <1>9, <1>10 DEF Next

LEMMA WellFormedStep ==
    ASSUME Typed, Orderly, WellFormed, [Next]_vars
    PROVE  WellFormed'
  <1> DEFINE Past == acked \cup aborted \cup overlapped \cup permanent
  <1>1. job' \in [Senders -> Job]
    BY JobStep
  <1>2. ASSUME NEW s \in Senders, Step(s) PROVE Past' \subseteq Deliveries
    <2>1. job[s].entry \in Deliveries
      BY <1>2, StepResult, WorksOnEntry
    <2>2. UNCHANGED overlapped
      BY <1>2, StepResult
    <2>3. /\ acked' \subseteq acked \cup {job[s].entry}
          /\ aborted' \subseteq aborted \cup {job[s].entry}
          /\ permanent' \subseteq permanent \cup {job[s].entry}
      BY <1>2
      DEF Step, SendPayload, SendErrorIgnored, SendingEnds, MirrorThrows, SendThrows, Throw,
          AckRename, AckThrows, AckUnlink, FailRead, FailWrite, FailThrows, history
    <2> QED
      BY <2>1, <2>2, <2>3 DEF WellFormed
  <1>3. Past' \subseteq Deliveries
    BY <1>2
    DEF WellFormed, Next, vars, history, StartGateway, GatewayDies, CommandLineDies,
        EnqueueDelivery, Deliver, RecoveryStep, ScanQueueDir, LoadEntry, LoadingEnds, GiveUp,
        Defer, RetryEntry, Take, MoveToFailed, RecoveryEnds
  <1>4. ASSUME NEW s \in Senders, Step(s)
        PROVE  UNCHANGED up /\ (Fault \/ UNCHANGED faults)
    BY <1>4
    DEF Step, SendPayload, SendErrorIgnored, SendingEnds, MirrorThrows, SendThrows, AckRename,
        AckThrows, AckUnlink, FailRead, FailWrite, FailThrows, env
  <1>5. (UNCHANGED up \/ up' \in BOOLEAN) /\ (Fault \/ UNCHANGED faults)
    BY <1>4
    DEF Next, vars, env, StartGateway, GatewayDies, CommandLineDies, EnqueueDelivery, Deliver,
        RecoveryStep, ScanQueueDir, LoadEntry, LoadingEnds, GiveUp, Defer, RetryEntry, Take,
        MoveToFailed, RecoveryEnds
  <1>6. up' \in BOOLEAN /\ faults' \in 0..MaxFaults
    BY <1>5, FaultTyped DEF WellFormed
  <1> QED
    BY <1>1, <1>3, <1>6 DEF WellFormed

LEMMA TypesMean == ASSUME Typed, WellFormed, AllBounded PROVE TypeOK
  <1>1. ASSUME NEW d \in Deliveries PROVE retry[d] \in 0..MaxRetries + 1
    <2>1. retry[d] \in Nat /\ MaxRetries \in Nat /\ Live(d) \in {0, 1}
      BY DeliveryQueueAssumption DEF Live, Typed, FilesTyped
    <2>2. retry[d] + Live(d) <= MaxRetries + 1
      BY DEF AllBounded, Bounded
    <2> QED
      BY <2>1, <2>2
  <1>2. retry \in [Deliveries -> 0..MaxRetries + 1]
    BY <1>1 DEF Typed, FilesTyped
  <1> QED
    BY <1>2 DEF TypeOK, WellFormed, Typed, FilesTyped, HistoryTyped

-----------------------------------------------------------------------------
(* The theorems. *)

LEMMA EntriesLeft == SetToSeq(Left) \in Seq(Left)
  <1>1. ExistsBijection(1..Cardinality(Left), Left) /\ Cardinality(Left) \in Nat
    BY FS_CardinalityType, DeliveryQueueAssumption
  <1>2. PICK f \in [1..Cardinality(Left) -> Left] : IsInjective(f)
    BY <1>1 DEF ExistsBijection, Bijection, Injection, IsInjective
  <1>3. SetToSeq(Left) \in [1..Cardinality(Left) -> Left]
    BY <1>2 DEF SetToSeq
  <1> QED
    BY <1>1, <1>3

LEMMA TypedInit == Init => Typed
  <1> SUFFICES ASSUME Init PROVE Typed
    OBVIOUS
  <1>1. order \in Seq(Deliveries)
    BY EntriesLeft, DeliveryQueueAssumption DEF Init
  <1>3. FilesTyped
    BY <1>1 DEF Init, FilesTyped
  <1>4. \A s \in Senders : /\ job[s].entry = s /\ job[s].part = 1 /\ IsJob(job[s])
                           /\ job[s].at # "write"
    BY DEF Init, Unemployed, IsJob
  <1>5. JobsTyped
    BY <1>4 DEF Init, JobsTyped, Senders
  <1>6. HistoryTyped
    BY DeliveryQueueAssumption DEF Init, HistoryTyped
  <1> QED
    BY <1>3, <1>5, <1>6 DEF Typed

LEMMA QuietInit ==
    ASSUME Init, NEW s \in Senders
    PROVE  job[s].at \in {"idle", "done"}
  BY DEF Init, Unemployed

LEMMA AccountedInit == Init => Accounted
  <1> SUFFICES ASSUME Init PROVE Accounted
    OBVIOUS
  <1>1. ASSUME NEW d \in Deliveries PROVE CountedFor(d) /\ ReadFor(d)
    <2>1. retry[d] = 0 /\ failures[d] = 0 /\ todo = {}
      BY <1>1 DEF Init
    <2>2. \A s \in {d, Recovery} : job[s].at \notin {"read", "write"}
      BY <1>1, QuietInit DEF Senders
    <2>3. Outstanding(d) = 0
      BY <2>2 DEF Outstanding, Counts
    <2> QED
      BY <2>1, <2>2, <2>3 DEF CountedFor, ReadFor
  <1>2. MovedForCause
    BY QuietInit DEF MovedForCause, Senders
  <1>3. GivenUpForCause
    BY DEF Init, GivenUpForCause
  <1> QED
    BY <1>1, <1>2, <1>3 DEF Accounted

LEMMA AccountedStep == Typed /\ Accounted /\ [Next]_vars => Typed' /\ Accounted'
  BY TypedStep, CountedStep, ReadStep, MovedStep, GivenUpStep DEF Accounted

LEMMA AheadInit == Init => Ahead /\ NothingLost
  <1> SUFFICES ASSUME Init PROVE Ahead /\ NothingLost
    OBVIOUS
  <1>1. Ahead
    BY QuietInit DEF Ahead, Went
  <1>2. \A d \in Range(order) : d \in Left
    BY EntriesLeft DEF Init, Range
  <1>3. NothingLost
    BY <1>2, DeliveryQueueAssumption DEF Init, NothingLost
  <1> QED
    BY <1>1, <1>3

\* What was written ahead is never lost, however often gateways and commands
\* crash and senders and recovery work on the same entry, as long as deliveries
\* are all or nothing (those of best effort are acknowledged by recovery although
\* payloads of them failed, delivery-queue.ts:392).
THEOREM NothingIsLost == ASSUME BestEffort = {} PROVE Spec => []NothingLost
  <1>1. Init => Typed /\ Ahead /\ NothingLost
    BY TypedInit, AheadInit
  <1>2. Typed /\ Ahead /\ NothingLost /\ [Next]_vars => (Typed /\ Ahead /\ NothingLost)'
    BY TypedStep, AheadStep, LostStep
  <1> QED
    BY <1>1, <1>2, PTL DEF Spec

\* No entry is moved to failed/ before MAX_RETRIES attempts have failed, but for
\* a permanent error, although a live sender and recovery may read and write the
\* retryCount of the same file by turns (delivery-queue.ts:157).
THEOREM GivenUpOnlyForCause == Spec => []GivenUpForCause
  <1>1. Init => Typed /\ Accounted
    BY TypedInit, AccountedInit
  <1>2. Accounted => GivenUpForCause
    BY DEF Accounted
  <1> QED
    BY <1>1, <1>2, AccountedStep, PTL DEF Spec

LEMMA BeginsOrderly == Init => Orderly /\ Settled /\ AllBounded /\ WellFormed
  <1> SUFFICES ASSUME Init PROVE Orderly /\ Settled /\ AllBounded /\ WellFormed
    OBVIOUS
  <1>1. ASSUME NEW s \in Senders
        PROVE  /\ job[s].at = IF s \in Left THEN "done" ELSE "idle"
               /\ job[s].by = "gateway" /\ job[s] \in Job
    <2>1. Unemployed(s) \in Job
      BY DEF Unemployed, Job
    <2>2. job[s] = [Unemployed(s) EXCEPT !.at = IF s \in Left THEN "done" ELSE "idle"]
      BY DEF Init
    <2>3. job[s] \in Job
      BY <2>1, <2>2, JobUpdated DEF Places
    <2> QED
      BY <2>2, <2>3 DEF Unemployed
  <1>2. job[Recovery].at = "idle" /\ listed = {} /\ todo = {}
    BY <1>1, RecoveryApart, DeliveryQueueAssumption DEF Init
  <1>3. Orderly
    BY <1>1, <1>2, RecoveryApart DEF Orderly, RecoveryUp, HeldOnce, AtWork
  <1>4. Settled
    BY <1>2 DEF Init, Settled, Orphaned, AckedIsOver, InHand, Works, AtWork
  <1>5. ASSUME NEW d \in Deliveries PROVE Bounded(d)
    <2>1. retry[d] = 0 /\ job[d].at # "write" /\ ~Works(d, {"write"})
      BY <1>1, <1>2, RecoveryApart DEF Init, Works
    <2>2. Live(d) \in {0, 1} /\ MaxRetries \in Nat \ {0}
      BY DeliveryQueueAssumption DEF Live
    <2>3. retry[d] + Live(d) <= MaxRetries /\ retry[d] + Live(d) <= MaxRetries + 1
      BY <2>1, <2>2
    <2> QED
      BY <2>1, <2>2, <2>3 DEF Bounded
  <1>6. WellFormed
    <2>1. job \in [Senders -> Job]
      <3>1. job = [s \in Senders |-> job[s]]
        BY DEF Init
      <3> QED
        BY <1>1, <3>1
    <2>2. /\ up = FALSE /\ faults = 0
          /\ acked = {} /\ aborted = {} /\ overlapped = {} /\ permanent = {}
      BY DEF Init
    <2>3. MaxFaults \in Nat
      BY DeliveryQueueAssumption
    <2>4. faults \in 0..MaxFaults
      BY <2>2, <2>3
    <2>5. up \in BOOLEAN
      BY <2>2
    <2>6. acked \cup aborted \cup overlapped \cup permanent \subseteq Deliveries
      BY <2>2
    <2> QED
      BY <2>1, <2>4, <2>5, <2>6 DEF WellFormed
  <1> QED
    BY <1>3, <1>4, <1>5, <1>6 DEF AllBounded

\* What was acknowledged is neither pending again nor being sent again, however
\* the gateway and the commands crash and recover, but for deliveries that a
\* recovery listed while they were under way (delivery-queue.ts:147, 187): no
\* failDelivery that is still to come can put back the file of another.
THEOREM AcknowledgedStaysSo == Spec => []NeverReplayed
  <1>1. Init => Typed /\ Orderly /\ Settled
    BY TypedInit, BeginsOrderly
  <1>2. Typed /\ Orderly /\ Settled /\ [Next]_vars => (Typed /\ Orderly /\ Settled)'
    BY TypedStep, OrderlyStep, SettledStep
  <1>3. Typed /\ Settled => NeverReplayed
    BY SettledMeans
  <1> QED
    BY <1>1, <1>2, <1>3, PTL DEF Spec

\* The state has its types, and the retryCount of an entry passes MAX_RETRIES by
\* one at most: recovery tries no exhausted entry (delivery-queue.ts:355), and
\* a live sender counts its own failure once.
THEOREM TypeCorrect == Spec => []TypeOK
  <1> DEFINE Inv == Typed /\ Orderly /\ AllBounded /\ WellFormed
  <1>1. Init => Inv
    BY TypedInit, BeginsOrderly
  <1>2. Inv /\ [Next]_vars => Inv'
    BY TypedStep, OrderlyStep, BoundedStep, WellFormedStep DEF AllBounded
  <1>3. Inv => TypeOK
    BY TypesMean
  <1> QED
    BY <1>1, <1>2, <1>3, PTL DEF Spec
=============================================================================
