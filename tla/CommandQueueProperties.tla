----------------------- MODULE CommandQueueProperties -----------------------
(* What the command queue of src/process/command-queue.ts must satisfy. *)
EXTENDS CommandQueue

(***************************************************************************)
(* Safety                                                                  *)
(***************************************************************************)

\* A slot is held exactly by the running tasks of the lane's current
\* generation: no completion, failure, clear or restart leaks a slot or frees
\* one twice (activeTaskIds against the promises of the tasks).
SlotsAreRunningTasks ==
    \A l \in Lanes :
        active[l] = {t \in Tasks : /\ LaneOf[t] = l
                                   /\ status[t] = "running"
                                   /\ taskGeneration[t] = generation[l]}

\* Between turns no lane holds back work it has room for: whatever mixture of
\* nested enqueues, completions, resizes and restarts came before, drainLane
\* was not cut short by a draining flag left behind ("drainLane blocked").
NoStalledLane ==
    Idle => \A l \in Lanes : queue[l] = <<>> \/ ~HasRoom(l)

\* A task is started only into a free slot, also when the pumps of a lane are
\* nested in one another (the while condition of pump).
StartsIntoFreeSlot ==
    [][\A l \in Lanes :
          ~(active'[l] \subseteq active[l]) =>
              Cardinality(active'[l]) <= maxConcurrent[l]]_vars

\* waitForActiveTasks answers drained only when each task it found running has
\* settled, or belongs to a generation a restart has given up.
DrainedMeansSettled ==
    waiter = "drained" =>
        \A t \in activeAtStart :
            status[t] = "finished" \/ taskGeneration[t] < generation[LaneOf[t]]

(***************************************************************************)
(* Refinement and liveness                                                 *)
(***************************************************************************)

LS == INSTANCE LaneScheduler
        WITH Concurrency <- {Width(n) : n \in Concurrency},
             waiting <- queue, serving <- active, slots <- maxConcurrent,
             outcome <- status

\* The pump, its nesting and the restarts implement one first-in first-out
\* server with bounded slots per lane.
ImplementsLaneScheduler == LS!Spec

\* Every accepted command is started or rejected, also when it was queued
\* before a restart or while the lane had no slot.
QueuedIsServed ==
    \A t \in Tasks : status[t] = "queued" ~> status[t] # "queued"
=============================================================================
