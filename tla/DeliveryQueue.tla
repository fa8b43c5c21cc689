---------------------------- MODULE DeliveryQueue ----------------------------
(***************************************************************************)
(* The write-ahead queue of outbound messages                              *)
(* (src/infra/outbound/delivery-queue.ts) with its two users: the senders  *)
(* of deliverOutboundPayloads (deliver.ts), one per delivery, and the      *)
(* recovery that a gateway runs when it starts.                            *)
(*                                                                         *)
(* An entry is a file <id>.json in the queue directory, renamed to         *)
(* <id>.delivered and unlinked when it is acknowledged, or moved to        *)
(* failed/.  The directory outlives the processes: the gateway may crash   *)
(* and start again, and a sender may belong to a command line process of   *)
(* its own.  Every await of the code is a step here: each send, and each   *)
(* rename, unlink, read and write of a file (a file is written to a        *)
(* temporary name first, so its rename is what counts).                    *)
(*                                                                         *)
(* A payload that a message_sending hook cancels counts as sent.           *)
(***************************************************************************)
EXTENDS Naturals, FiniteSets, SequencesExt

CONSTANTS
    Deliveries,  \* calls of deliverOutboundPayloads, and the ids of their entries
    Payloads,    \* how many payloads each of them has
    BestEffort,  \* those with bestEffort: an error of one payload stops no other
    OnError,     \* those whose caller passes onError
    Recovery,    \* the recovery, as a sender
    MaxRetries,  \* MAX_RETRIES
    Left,        \* deliveries whose entries an earlier process has left behind
    MaxFaults    \* bound on crashes amid recovery or a command, and on disk errors

ASSUME DeliveryQueueAssumption ==
    /\ Payloads \in [Deliveries -> Nat \ {0}]
    /\ BestEffort \cup OnError \cup Left \subseteq Deliveries
    /\ IsFiniteSet(Left)
    /\ Recovery \notin Deliveries
    /\ MaxRetries \in Nat \ {0}
    /\ MaxFaults \in Nat

VARIABLES
    disk,       \* the files there are for each entry
    retry,      \* retryCount in its file
    order,      \* the entries in the order of their enqueuedAt
    up,         \* the gateway runs
    job,        \* what each sender is doing
    listed,     \* recovery: files found and not read yet
    todo,       \* recovery: entries read (id, retryCount) and not dealt with yet
    faults,     \* how many faults there were
    sent,       \* the payloads of each delivery that were sent (at least once)
    acked,      \* deliveries that were acknowledged
    aborted,    \* deliveries that their caller aborted
    overlapped, \* deliveries under way while recovery listed their entries
    failures,   \* failed attempts of each delivery, as far as MaxRetries
    permanent   \* deliveries that failed in recovery with a permanent error

files == <<disk, retry, order>>
history == <<sent, acked, aborted, overlapped, failures, permanent>>
plan == <<listed, todo>>
env == <<up, faults>>
vars == <<files, env, job, plan, history>>

Senders == Deliveries \cup {Recovery}

\* A sender that is not at work.
Unemployed(d) == [at |-> "idle", by |-> "gateway", entry |-> d, part |-> 1,
                  partial |-> FALSE, queued |-> FALSE, seen |-> 0]

Init ==
    /\ disk = [d \in Deliveries |-> IF d \in Left THEN {"json"} ELSE {}]
    /\ retry = [d \in Deliveries |-> 0]
    /\ order = SetToSeq(Left)
    /\ up = FALSE
    /\ job = [s \in Senders |-> [Unemployed(s) EXCEPT !.at = IF s \in Left THEN "done" ELSE "idle"]]
    /\ listed = {} /\ todo = {}
    /\ faults = 0
    /\ sent = [d \in Deliveries |-> {}]
    /\ acked = {} /\ aborted = {} /\ overlapped = {} /\ permanent = {}
    /\ failures = [d \in Deliveries |-> 0]

\* Sender s goes on at another step.
Go(s, at) == job' = [job EXCEPT ![s].at = at]

Fault == faults < MaxFaults /\ faults' = faults + 1

\* Where a sender goes when it is done with an entry.
Rest(s) == IF s = Recovery THEN "loop" ELSE "done"

-----------------------------------------------------------------------------
(* The processes. *)

StartGateway ==
    /\ ~up
    /\ up' = TRUE
    /\ Go(Recovery, "scan")
    /\ UNCHANGED <<files, plan, faults, history>>

Killed(s) == IF job[s].at = "idle" THEN job[s]
             ELSE [Unemployed(s) EXCEPT !.at = IF s = Recovery THEN "idle" ELSE "done",
                                        !.by = job[s].by]

\* The gateway stops at any point (at a fault when recovery is at work), with all
\* that was under way in it.
GatewayDies ==
    /\ up
    /\ up' = FALSE
    /\ IF job[Recovery].at = "idle" THEN UNCHANGED faults ELSE Fault
    /\ job' = [s \in Senders |-> IF job[s].by = "gateway" THEN Killed(s) ELSE job[s]]
    /\ listed' = {} /\ todo' = {}
    /\ UNCHANGED <<files, history>>

CommandLineDies(d) ==
    /\ job[d].by = "cli" /\ job[d].at \notin {"idle", "done"}
    /\ Fault
    /\ job' = [job EXCEPT ![d] = Killed(d)]
    /\ UNCHANGED <<files, up, plan, history>>

\* deliverOutboundPayloads is called, in the gateway or in a process of its own.
Deliver(d, by) ==
    /\ job[d].at = "idle"
    /\ by = "gateway" => up
    /\ job' = [job EXCEPT ![d].at = "enqueue", ![d].by = by]
    /\ UNCHANGED <<files, env, plan, history>>

-----------------------------------------------------------------------------
(* Sending, by deliverOutboundPayloads and its core. *)

\* enqueueDelivery; the delivery goes on without an entry if it fails.
EnqueueDelivery(d) ==
    /\ job[d].at = "enqueue"
    /\ \/ /\ disk' = [disk EXCEPT ![d] = @ \cup {"json"}]
          /\ order' = Append(order, d)
          /\ job' = [job EXCEPT ![d].at = "send", ![d].queued = TRUE]
          /\ UNCHANGED faults
       \/ /\ Fault
          /\ job' = [job EXCEPT ![d].at = "send"]
          /\ UNCHANGED <<disk, order>>
    /\ UNCHANGED <<retry, up, plan, history>>

AfterErrorFaulty(s, kind) ==
    IF s # Recovery \/ kind = "abort" THEN "ack"
    ELSE IF kind = "permanent" THEN "move" ELSE "read"

\* How an attempt that threw goes on: an abort is acknowledged, recovery gives
\* up on a permanent error (isPermanentDeliveryError), else failDelivery.
AfterError(s, kind) ==
    IF kind = "abort" THEN "ack"
    ELSE IF kind = "permanent" /\ s = Recovery THEN "move" ELSE "read"

\* A sender whose delivery has no entry has nothing to update.
Settle(s, at) == IF s # Recovery /\ ~job[s].queued THEN "done" ELSE at

CountFailure(d) ==
    failures' = [failures EXCEPT ![d] = IF @ < MaxRetries THEN @ + 1 ELSE @]

\* The attempt of sender s throws.  Only a caller has a signal to abort with.
Throw(s, kind) ==
    LET d == job[s].entry
    IN /\ kind = "abort" => s # Recovery
       /\ Go(s, Settle(s, AfterError(s, kind)))
       /\ aborted' = IF kind = "abort" THEN aborted \cup {d} ELSE aborted
       /\ permanent' = IF kind = "permanent" /\ s = Recovery
                       THEN permanent \cup {d} ELSE permanent
       /\ IF kind = "abort" THEN UNCHANGED failures ELSE CountFailure(d)

Unsent(s) == job[s].at = "send" /\ job[s].part <= Payloads[job[s].entry]

SendPayload(s) ==
    /\ Unsent(s)
    /\ sent' = [sent EXCEPT ![job[s].entry] = @ \cup {job[s].part}]
    /\ job' = [job EXCEPT ![s].part = @ + 1]
    /\ UNCHANGED <<files, env, plan, acked, aborted, overlapped, failures, permanent>>

\* The send is answered with an error, although it may have gone out, or the
\* channel could not be set up at all; the whole attempt is over.
SendThrows(s, kind) ==
    /\ Unsent(s)
    /\ job[s].entry \in BestEffort => job[s].part = 1
    /\ Throw(s, kind)
    /\ \/ UNCHANGED sent
       \/ kind = "transient" /\ sent' = [sent EXCEPT ![job[s].entry] = @ \cup {job[s].part}]
    /\ UNCHANGED <<files, env, plan, acked, overlapped>>

\* bestEffort: the error goes to onError if the caller passed one, and then is
\* remembered.  Recovery passes none.
SendErrorIgnored(s) ==
    /\ Unsent(s) /\ job[s].entry \in BestEffort
    /\ job' = [job EXCEPT ![s].part = @ + 1,
                          ![s].partial = @ \/ (s # Recovery /\ s \in OnError)]
    /\ UNCHANGED <<files, env, plan, history>>

\* The core returns: acknowledge, or count a failure if one was remembered.
SendingEnds(s) ==
    /\ job[s].at = "send" /\ ~Unsent(s)
    /\ Go(s, Settle(s, IF job[s].partial THEN "read" ELSE "ack"))
    /\ IF job[s].partial THEN CountFailure(job[s].entry) ELSE UNCHANGED failures
    /\ UNCHANGED <<files, env, plan, sent, acked, aborted, overlapped, permanent>>

\* All was sent, but the transcript could not be written (the mirror).
MirrorThrows(s) ==
    /\ job[s].at = "send" /\ ~Unsent(s)
    /\ Throw(s, "transient")
    /\ UNCHANGED <<files, env, plan, sent, acked, overlapped>>

-----------------------------------------------------------------------------
(* Updating the entry. *)

\* ackDelivery, phase 1; the entry may be gone already (ENOENT).
AckRename(s) ==
    LET d == job[s].entry
    IN /\ job[s].at = "ack"
       /\ IF "json" \in disk[d]
          THEN disk' = [disk EXCEPT ![d] = (@ \ {"json"}) \cup {"delivered"}]
          ELSE UNCHANGED disk
       /\ acked' = acked \cup {d}
       /\ Go(s, "unlink")
       /\ UNCHANGED <<retry, order, env, plan, sent, aborted, overlapped, failures, permanent>>

\* The rename fails otherwise: recovery counts that as a failed attempt.
AckThrows(s) ==
    /\ job[s].at = "ack" /\ Fault
    /\ Go(s, IF s = Recovery THEN "read" ELSE "done")
    /\ IF s = Recovery THEN CountFailure(job[s].entry) ELSE UNCHANGED failures
    /\ UNCHANGED <<files, up, plan, sent, acked, aborted, overlapped, permanent>>

\* ackDelivery, phase 2 (best effort).
AckUnlink(s) ==
    /\ job[s].at = "unlink"
    /\ \/ disk' = [disk EXCEPT ![job[s].entry] = @ \ {"delivered"}] /\ UNCHANGED faults
       \/ UNCHANGED disk /\ Fault
    /\ Go(s, Rest(s))
    /\ UNCHANGED <<retry, order, up, plan, history>>

\* failDelivery reads the file...
FailRead(s) ==
    /\ job[s].at = "read" /\ "json" \in disk[job[s].entry]
    /\ job' = [job EXCEPT ![s].at = "write", ![s].seen = retry[job[s].entry]]
    /\ UNCHANGED <<files, env, plan, history>>

RetryCountFaulty(seen) == seen

RetryCount(seen) == seen + 1

\* ... and puts a new one in its place, whatever is there by now.
FailWrite(s) ==
    /\ job[s].at = "write"
    /\ disk' = [disk EXCEPT ![job[s].entry] = @ \cup {"json"}]
    /\ retry' = [retry EXCEPT ![job[s].entry] = RetryCount(job[s].seen)]
    /\ Go(s, Rest(s))
    /\ UNCHANGED <<order, env, plan, history>>

\* There is no file to update, or it cannot be read or written (best effort).
FailThrows(s) ==
    /\ \/ job[s].at \in {"read", "write"} /\ Fault
       \/ job[s].at = "read" /\ "json" \notin disk[job[s].entry] /\ UNCHANGED faults
    /\ Go(s, Rest(s))
    /\ UNCHANGED <<files, up, plan, history>>

\* moveToFailed; an entry that is gone, or cannot be moved, stays as it is.
MoveToFailed ==
    LET d == job[Recovery].entry
    IN /\ job[Recovery].at = "move"
       /\ \/ /\ "json" \in disk[d] /\ UNCHANGED faults
             /\ disk' = [disk EXCEPT ![d] = (@ \ {"json"}) \cup {"failed"}]
          \/ "json" \notin disk[d] /\ UNCHANGED <<disk, faults>>
          \/ UNCHANGED disk /\ Fault
       /\ Go(Recovery, "loop")
       /\ UNCHANGED <<retry, order, up, plan, history>>

-----------------------------------------------------------------------------
(* recoverPendingDeliveries. *)

Pending(names) == "json" \in names

SweptFaulty(names) ==
    IF "delivered" \in names THEN (names \ {"delivered"}) \cup {"json"} ELSE names

\* What is left of an entry when its marker has been unlinked.
Swept(names) == names \ {"delivered"}

\* loadPendingDeliveries reads the directory; markers of earlier deliveries are
\* unlinked (which nothing that happens meanwhile can tell from later).
ScanQueueDir ==
    /\ job[Recovery].at = "scan"
    /\ listed' = {d \in Deliveries : Pending(disk[d])}
    /\ disk' = [d \in Deliveries |-> Swept(disk[d])]
    /\ overlapped' = overlapped \cup {d \in listed' : job[d].at # "done"}
    /\ Go(Recovery, "load")
    /\ UNCHANGED <<retry, order, env, todo, sent, acked, aborted, failures, permanent>>

\* It reads the files one by one; one that is gone by now is left out.
LoadEntry ==
    /\ job[Recovery].at = "load"
    /\ \E d \in listed :
          /\ listed' = listed \ {d}
          /\ todo' = IF Pending(disk[d])
                     THEN todo \cup {[id |-> d, seen |-> retry[d]]} ELSE todo
    /\ UNCHANGED <<files, env, job, history>>

LoadingEnds ==
    /\ job[Recovery].at = "load" /\ listed = {}
    /\ Go(Recovery, "loop")
    /\ UNCHANGED <<files, env, plan, history>>

ExhaustedLate(seen) == seen > MaxRetries

ExhaustedEarly(seen) == seen + 1 >= MaxRetries

Exhausted(seen) == seen >= MaxRetries

EnqueuedAt(d) == CHOOSE i \in DOMAIN order : order[i] = d

\* Recovery turns to e, its oldest entry.
Take(e, at) ==
    /\ job[Recovery].at = "loop"
    /\ \A other \in todo : EnqueuedAt(e.id) <= EnqueuedAt(other.id)
    /\ todo' = todo \ {e}
    /\ job' = [job EXCEPT ![Recovery] = [Unemployed(Recovery) EXCEPT
                  !.at = at, !.entry = e.id, !.queued = TRUE]]
    /\ UNCHANGED <<files, env, listed, history>>

GiveUp == \E e \in todo : Exhausted(e.seen) /\ Take(e, "move")

\* isEntryEligibleForRecoveryRetry: at once if it never failed, else when the
\* backoff is over.
RetryEntry(d) == \E e \in todo : e.id = d /\ ~Exhausted(e.seen) /\ Take(e, "send")

Defer == \E e \in todo : e.seen > 0 /\ ~Exhausted(e.seen) /\ Take(e, "loop")

\* Nothing is left, or the time budget is used up.
RecoveryEnds ==
    /\ job[Recovery].at = "loop"
    /\ Go(Recovery, "idle")
    /\ todo' = {}
    /\ UNCHANGED <<files, env, listed, history>>

-----------------------------------------------------------------------------
Step(s) ==
    \/ SendPayload(s) \/ SendErrorIgnored(s) \/ SendingEnds(s) \/ MirrorThrows(s)
    \/ \E kind \in {"transient", "permanent", "abort"} : SendThrows(s, kind)
    \/ AckRename(s) \/ AckThrows(s) \/ AckUnlink(s)
    \/ FailRead(s) \/ FailWrite(s) \/ FailThrows(s)

RecoveryStep ==
    \/ ScanQueueDir \/ LoadEntry \/ LoadingEnds \/ GiveUp \/ Defer \/ MoveToFailed
    \/ \E d \in Deliveries : RetryEntry(d)
    \/ RecoveryEnds

Next ==
    \/ StartGateway \/ GatewayDies
    \/ \E d \in Deliveries : CommandLineDies(d) \/ EnqueueDelivery(d)
    \/ \E d \in Deliveries, by \in {"gateway", "cli"} : Deliver(d, by)
    \/ \E s \in Senders : Step(s)
    \/ RecoveryStep

Spec == Init /\ [][Next]_vars

\* Promises settle.  The gateway stops some time, and is started again.  Time
\* budgets are long enough, and backoffs over, some time: an entry that is the
\* oldest one again and again is retried or given up.
Fairness ==
    /\ WF_vars(StartGateway) /\ WF_vars(GatewayDies)
    /\ \A d \in Deliveries : WF_vars(EnqueueDelivery(d)) /\ SF_vars(RetryEntry(d))
    /\ \A s \in Senders : WF_vars(Step(s))
    /\ WF_vars(RecoveryStep) /\ SF_vars(GiveUp)

FairSpec == Spec /\ Fairness
=============================================================================
