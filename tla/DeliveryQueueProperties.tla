----------------------- MODULE DeliveryQueueProperties -----------------------
(* What the delivery queue promises to those who send through it. *)
EXTENDS DeliveryQueue

Job == [at : {"idle", "enqueue", "send", "ack", "unlink", "read", "write", "done",
              "scan", "load", "loop", "move"},
        by : {"gateway", "cli"}, entry : Senders, part : Nat \ {0},
        partial : BOOLEAN, queued : BOOLEAN, seen : Nat]

\* Types.  No entry is tried after MAX_RETRIES counted failures; a live sender
\* and recovery may count one failure each for the same entry.
TypeOK ==
    /\ disk \in [Deliveries -> SUBSET {"json", "delivered", "failed"}]
    /\ retry \in [Deliveries -> 0..MaxRetries + 1]
    /\ order \in Seq(Deliveries) /\ listed \subseteq Deliveries
    /\ todo \subseteq [id : Deliveries, seen : Nat]
    /\ up \in BOOLEAN /\ faults \in 0..MaxFaults
    /\ job \in [Senders -> Job]
    /\ sent \in [Deliveries -> SUBSET Nat]
    /\ \A d \in Deliveries : sent[d] \subseteq 1..Payloads[d]
    /\ acked \cup aborted \cup overlapped \cup permanent \subseteq Deliveries
    /\ failures \in [Deliveries -> 0..MaxRetries]

Sent(d) == sent[d] = 1..Payloads[d]

\* A message written ahead is never lost: its entry waits in the directory or
\* was moved to failed/, unless all its payloads were sent or its caller aborted
\* it; whatever crashes, and however live senders and recovery interleave.
NothingLost ==
    \A d \in Range(order) :
        disk[d] \cap {"json", "failed"} # {} \/ Sent(d) \/ d \in aborted

\* An entry ends in failed/ only for a permanent error, or when as many attempts
\* as MAX_RETRIES have failed.
GivenUpForCause ==
    \A d \in Deliveries :
        "failed" \in disk[d] => d \in permanent \/ failures[d] = MaxRetries

\* An acknowledged delivery is neither pending again nor being sent again,
\* wherever the process died, unless a recovery began while it was under way.
NeverReplayed ==
    \A d \in acked \ overlapped :
        /\ "json" \notin disk[d]
        /\ \A s \in Senders : job[s].at = "send" => job[s].entry # d

\* Under FairSpec: no entry stays pending for ever, although every attempt may
\* fail, the time budget may cut any recovery short, and a backoff may put any
\* entry off.
EntriesSettle == \A d \in Deliveries : "json" \in disk[d] ~> "json" \notin disk[d]
=============================================================================
