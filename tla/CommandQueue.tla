---------------------------- MODULE CommandQueue ----------------------------
(***************************************************************************)
(* The in-process command queue of src/process/command-queue.ts: lanes of  *)
(* pending tasks, each drained first-in first-out by a synchronous "pump"  *)
(* that keeps at most maxConcurrent of the lane's tasks running.           *)
(*                                                                         *)
(* JavaScript runs one turn at a time, but a pump calls entry.task()       *)
(* inside its loop, so everything a task does before its first await runs  *)
(* nested in that loop and may call enqueueCommandInLane again (the agent  *)
(* runner does: a session task enqueues its run in the global lane).  The  *)
(* variable stack is the call stack of such a turn; a new turn (a caller,  *)
(* a task's completion, a timer) starts only when the stack is empty.      *)
(*                                                                         *)
(* Task numbers are unique in the code (nextTaskId); here a task is its    *)
(* own number.  A lane that no call has named yet is a lane in its initial *)
(* state.  A task's value or error is abstracted to "finished": both paths *)
(* of the pump do the same bookkeeping.                                    *)
(***************************************************************************)
EXTENDS Naturals, Sequences, FiniteSets

CONSTANTS
    Lanes,          \* lane names
    Tasks,          \* the commands callers enqueue, each once
    LaneOf,         \* the lane each command is enqueued in
    Concurrency,    \* values given to setCommandLaneConcurrency
    MaxGeneration,  \* bound on the number of resetAllLanes calls
    NoTask          \* no task: the pump is between two tasks

ASSUME CommandQueueAssumption ==
    /\ IsFiniteSet(Tasks)
    /\ LaneOf \in [Tasks -> Lanes]
    /\ NoTask \notin Tasks
    /\ Concurrency \subseteq Nat
    /\ MaxGeneration \in Nat

VARIABLES
    queue,           \* LaneState.queue
    active,          \* LaneState.activeTaskIds
    maxConcurrent,   \* LaneState.maxConcurrent
    draining,        \* LaneState.draining
    generation,      \* LaneState.generation
    gatewayDraining, \* set while the gateway drains for a restart
    status,          \* what has become of each task's promise
    taskGeneration,  \* the lane's generation when the task was started
    stack,           \* calls of drainLane and pump now on the JavaScript stack
    lanesToDrain,    \* lanes resetAllLanes has still to drain
    waiter,          \* state of a waitForActiveTasks call
    activeAtStart    \* the snapshot that call took

laneVars == <<queue, active, maxConcurrent, draining, generation>>
taskVars == <<status, taskGeneration>>
waitVars == <<waiter, activeAtStart>>
vars == <<laneVars, gatewayDraining, taskVars, stack, lanesToDrain, waitVars>>

Status == {"new", "queued", "running", "finished", "cleared", "refused"}

Frame == [call : {"drainLane", "pump"}, lane : Lanes, body : Tasks \cup {NoTask}]

TypeOK ==
    /\ queue \in [Lanes -> Seq(Tasks)]
    /\ active \in [Lanes -> SUBSET Tasks]
    /\ maxConcurrent \in [Lanes -> Nat \ {0}]
    /\ draining \in [Lanes -> BOOLEAN]
    /\ generation \in [Lanes -> Nat]
    /\ gatewayDraining \in BOOLEAN
    /\ status \in [Tasks -> Status]
    /\ taskGeneration \in [Tasks -> Nat]
    /\ stack \in Seq(Frame)
    /\ lanesToDrain \in SUBSET Lanes
    /\ waiter \in {"idle", "polling", "drained", "timedOut"}
    /\ activeAtStart \in SUBSET Tasks

Init ==
    /\ queue = [l \in Lanes |-> <<>>]
    /\ active = [l \in Lanes |-> {}]
    /\ maxConcurrent = [l \in Lanes |-> 1]
    /\ draining = [l \in Lanes |-> FALSE]
    /\ generation = [l \in Lanes |-> 0]
    /\ gatewayDraining = FALSE
    /\ status = [t \in Tasks |-> "new"]
    /\ taskGeneration = [t \in Tasks |-> 0]
    /\ stack = <<>>
    /\ lanesToDrain = {}
    /\ waiter = "idle"
    /\ activeAtStart = {}

-----------------------------------------------------------------------------
(* The JavaScript stack. *)

\* No call is in progress: the event loop may start another turn.
Idle == stack = <<>> /\ lanesToDrain = {}

Top == stack[Len(stack)]
Below == SubSeq(stack, 1, Len(stack) - 1)

Call(call, l) == Append(stack, [call |-> call, lane |-> l, body |-> NoTask])

\* The code before the first await of a task the innermost pump has started.
InTaskBody == stack # <<>> /\ Top.body # NoTask

-----------------------------------------------------------------------------
(* Parts of the operations.  Each is preceded by a faulty variant of it,   *)
(* which the specification does not use: the properties are tested with it.*)

\* The condition of the pump's loop, apart from the queue.
HasRoom(l) == Cardinality(active[l]) < maxConcurrent[l]

\* state.queue.push
BehindAll(l, t) == Append(queue[l], t)

RejectedFaulty(l) == status

\* entry.reject for each entry of the lane
Rejected(l) == [t \in Tasks |-> IF \E i \in DOMAIN queue[l] : queue[l][i] = t
                               THEN "cleared" ELSE status[t]]

DrainedLaneFaulty(l) == draining

\* The finally block of pump.
DrainedLane(l) == [draining EXCEPT ![l] = FALSE]

WidthFaulty(n) == n

\* Math.max(1, Math.floor(maxConcurrent))
Width(n) == IF n < 1 THEN 1 ELSE n

NextGenerationFaulty == generation

\* state.generation += 1, in every lane
NextGeneration == [l \in Lanes |-> generation[l] + 1]

LanesWithWorkFaulty == {}

\* lanesToDrain of resetAllLanes
LanesWithWork == {l \in Lanes : queue[l] # <<>>}

StillActiveFaulty == \A l \in Lanes : active[l] \cap activeAtStart # {}

\* hasPending of waitForActiveTasks
StillActive == \E l \in Lanes : active[l] \cap activeAtStart # {}

-----------------------------------------------------------------------------
(* Draining a lane. *)

\* drainLane: return if the lane is being drained already, else pump it.
DrainLane ==
    /\ stack # <<>>
    /\ Top.call = "drainLane"
    /\ IF draining[Top.lane]
       THEN stack' = Below /\ UNCHANGED draining
       ELSE /\ draining' = [draining EXCEPT ![Top.lane] = TRUE]
            /\ stack' = [stack EXCEPT ![Len(stack)].call = "pump"]
    /\ UNCHANGED <<queue, active, maxConcurrent, generation, gatewayDraining,
                   taskVars, lanesToDrain, waitVars>>

\* One turn of the pump's loop: shift an entry, take a slot, call the task.
PumpStart ==
    /\ stack # <<>>
    /\ Top.call = "pump"
    /\ Top.body = NoTask
    /\ LET l == Top.lane
           t == Head(queue[l])
       IN /\ queue[l] # <<>>
          /\ HasRoom(l)
          /\ queue' = [queue EXCEPT ![l] = Tail(@)]
          /\ active' = [active EXCEPT ![l] = @ \cup {t}]
          /\ status' = [status EXCEPT ![t] = "running"]
          /\ taskGeneration' = [taskGeneration EXCEPT ![t] = generation[l]]
          /\ stack' = [stack EXCEPT ![Len(stack)].body = t]
    /\ UNCHANGED <<maxConcurrent, draining, generation, gatewayDraining,
                   lanesToDrain, waitVars>>

\* The task's body reaches its first await and control returns to the pump.
TaskYields ==
    /\ InTaskBody
    /\ Top.call = "pump"
    /\ stack' = [stack EXCEPT ![Len(stack)].body = NoTask]
    /\ UNCHANGED <<laneVars, gatewayDraining, taskVars, lanesToDrain, waitVars>>

\* The loop condition fails: the pump's finally block clears the flag.
PumpReturn ==
    /\ stack # <<>>
    /\ Top.call = "pump"
    /\ Top.body = NoTask
    /\ queue[Top.lane] = <<>> \/ ~HasRoom(Top.lane)
    /\ draining' = DrainedLane(Top.lane)
    /\ stack' = Below
    /\ UNCHANGED <<queue, active, maxConcurrent, generation, gatewayDraining,
                   taskVars, lanesToDrain, waitVars>>

\* completeTask and what follows it: a task's promise settles.  Only a task of
\* the lane's current generation gives its slot back and pumps the lane again.
CompleteTask(t) ==
    /\ Idle
    /\ status[t] = "running"
    /\ status' = [status EXCEPT ![t] = "finished"]
    /\ LET l == LaneOf[t]
       IN IF taskGeneration[t] = generation[l]
          THEN /\ active' = [active EXCEPT ![l] = @ \ {t}]
               /\ stack' = Call("pump", l)
          ELSE UNCHANGED <<active, stack>>
    /\ UNCHANGED <<queue, maxConcurrent, draining, generation, gatewayDraining,
                   taskGeneration, lanesToDrain, waitVars>>

-----------------------------------------------------------------------------
(* The operations callers use. *)

\* enqueueCommandInLane, from a turn of its own or from a task's body.
EnqueueCommandInLane(t) ==
    /\ Idle \/ InTaskBody
    /\ status[t] = "new"
    /\ IF gatewayDraining
       THEN /\ status' = [status EXCEPT ![t] = "refused"]
            /\ UNCHANGED <<queue, stack>>
       ELSE /\ status' = [status EXCEPT ![t] = "queued"]
            /\ queue' = [queue EXCEPT ![LaneOf[t]] = BehindAll(LaneOf[t], t)]
            /\ stack' = Call("drainLane", LaneOf[t])
    /\ UNCHANGED <<active, maxConcurrent, draining, generation, gatewayDraining,
                   taskGeneration, lanesToDrain, waitVars>>

SetCommandLaneConcurrency(l, n) ==
    /\ Idle
    /\ maxConcurrent' = [maxConcurrent EXCEPT ![l] = Width(n)]
    /\ stack' = Call("drainLane", l)
    /\ UNCHANGED <<queue, active, draining, generation, gatewayDraining,
                   taskVars, lanesToDrain, waitVars>>

\* Reject everything queued in the lane; running tasks are left alone.
ClearCommandLane(l) ==
    /\ Idle
    /\ queue[l] # <<>>
    /\ status' = Rejected(l)
    /\ queue' = [queue EXCEPT ![l] = <<>>]
    /\ UNCHANGED <<active, maxConcurrent, draining, generation, gatewayDraining,
                   taskGeneration, stack, lanesToDrain, waitVars>>

MarkGatewayDraining ==
    /\ Idle
    /\ gatewayDraining' = TRUE
    /\ UNCHANGED <<laneVars, taskVars, stack, lanesToDrain, waitVars>>

\* Forget every running task and keep every queued one.
ResetAllLanes ==
    /\ Idle
    /\ \A l \in Lanes : generation[l] < MaxGeneration
    /\ gatewayDraining' = FALSE
    /\ generation' = NextGeneration
    /\ active' = [l \in Lanes |-> {}]
    /\ draining' = [l \in Lanes |-> FALSE]
    /\ lanesToDrain' = LanesWithWork
    /\ UNCHANGED <<queue, maxConcurrent, taskVars, stack, waitVars>>

\* The second pass of resetAllLanes calls drainLane on the lanes with work.
ResetDrainsLane(l) ==
    /\ stack = <<>>
    /\ l \in lanesToDrain
    /\ lanesToDrain' = lanesToDrain \ {l}
    /\ stack' = Call("drainLane", l)
    /\ UNCHANGED <<laneVars, gatewayDraining, taskVars, waitVars>>

\* waitForActiveTasks takes a snapshot of the running tasks, checks it once...
WaitForActiveTasks ==
    /\ Idle
    /\ waiter = "idle"
    /\ activeAtStart' = UNION {active[l] : l \in Lanes}
    /\ IF activeAtStart' = {}
       THEN waiter' = "drained"
       ELSE waiter' \in {"polling", "timedOut"}
    /\ UNCHANGED <<laneVars, gatewayDraining, taskVars, stack, lanesToDrain>>

\* ... and polls until none of them is active or the deadline has passed.
PollActiveTasks ==
    /\ Idle
    /\ waiter = "polling"
    /\ IF StillActive
       THEN waiter' \in {"polling", "timedOut"}
       ELSE waiter' = "drained"
    /\ UNCHANGED <<laneVars, gatewayDraining, taskVars, stack, lanesToDrain,
                   activeAtStart>>

-----------------------------------------------------------------------------
\* What the code itself does, once a turn has started.
PumpStep == DrainLane \/ PumpStart \/ TaskYields \/ PumpReturn

Next ==
    \/ PumpStep
    \/ \E t \in Tasks : CompleteTask(t) \/ EnqueueCommandInLane(t)
    \/ \E l \in Lanes, n \in Concurrency : SetCommandLaneConcurrency(l, n)
    \/ \E l \in Lanes : ClearCommandLane(l) \/ ResetDrainsLane(l)
    \/ MarkGatewayDraining
    \/ ResetAllLanes
    \/ WaitForActiveTasks
    \/ PollActiveTasks

Spec == Init /\ [][Next]_vars

\* The event loop finishes the turn it is in and serves every settled promise
\* sooner or later; a run settles because the agent runner gives it a timeout.
Fairness ==
    /\ WF_vars(PumpStep)
    /\ \A l \in Lanes : WF_vars(ResetDrainsLane(l))
    /\ \A t \in Tasks : SF_vars(CompleteTask(t))

FairSpec == Spec /\ Fairness
=============================================================================
