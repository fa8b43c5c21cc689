---------------------------- MODULE LaneScheduler ----------------------------
(***************************************************************************)
(* What the command queue promises its callers (docs/concepts/queue.md):   *)
(* every lane is a first-in first-out server with a bounded number of      *)
(* slots.  A waiting task is started only from the head of its lane and    *)
(* only into a free slot; a started task is never put back; a task that    *)
(* leaves the lane unstarted was refused or cleared.                       *)
(***************************************************************************)
EXTENDS Naturals, Sequences, FiniteSets

CONSTANTS Lanes, Tasks, LaneOf, Concurrency

VARIABLES
    waiting,  \* per lane, the tasks that have not been started, oldest first
    serving,  \* per lane, the tasks that hold one of its slots
    slots,    \* per lane, the number of slots
    outcome   \* per task: what its caller can know of it

laneVars == <<waiting, serving, slots>>
vars == <<laneVars, outcome>>

Init ==
    /\ waiting = [l \in Lanes |-> <<>>]
    /\ serving = [l \in Lanes |-> {}]
    /\ slots = [l \in Lanes |-> 1]
    /\ outcome = [t \in Tasks |-> "new"]

Submit(t) ==
    /\ outcome[t] = "new"
    /\ waiting' = [waiting EXCEPT ![LaneOf[t]] = Append(@, t)]
    /\ outcome' = [outcome EXCEPT ![t] = "queued"]
    /\ UNCHANGED <<serving, slots>>

Refuse(t) ==
    /\ outcome[t] = "new"
    /\ outcome' = [outcome EXCEPT ![t] = "refused"]
    /\ UNCHANGED laneVars

Start(l) ==
    /\ waiting[l] # <<>>
    /\ Cardinality(serving[l]) < slots[l]
    /\ outcome[Head(waiting[l])] = "queued"
    /\ waiting' = [waiting EXCEPT ![l] = Tail(@)]
    /\ serving' = [serving EXCEPT ![l] = @ \cup {Head(waiting[l])}]
    /\ outcome' = [outcome EXCEPT ![Head(waiting[l])] = "running"]
    /\ UNCHANGED slots

Finish(t) ==
    /\ outcome[t] = "running"
    /\ serving' = [serving EXCEPT ![LaneOf[t]] = @ \ {t}]
    /\ outcome' = [outcome EXCEPT ![t] = "finished"]
    /\ UNCHANGED <<waiting, slots>>

Cancel(l) ==
    /\ outcome' = [t \in Tasks |->
                     IF \E i \in DOMAIN waiting[l] : waiting[l][i] = t
                     THEN "cleared" ELSE outcome[t]]
    /\ waiting' = [waiting EXCEPT ![l] = <<>>]
    /\ UNCHANGED <<serving, slots>>

Resize(l, n) ==
    /\ slots' = [slots EXCEPT ![l] = n]
    /\ UNCHANGED <<waiting, serving, outcome>>

\* A restart frees every slot; the tasks that held one may still finish.
Restart ==
    /\ serving' = [l \in Lanes |-> {}]
    /\ UNCHANGED <<waiting, slots, outcome>>

Next ==
    \/ \E t \in Tasks : Submit(t) \/ Refuse(t) \/ Finish(t)
    \/ \E l \in Lanes : Start(l) \/ Cancel(l)
    \/ \E l \in Lanes, n \in Concurrency : Resize(l, n)
    \/ Restart

Spec == Init /\ [][Next]_vars
=============================================================================
