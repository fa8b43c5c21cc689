------------------------- MODULE QueueProofs -------------------------
(* What the two queues in memory satisfy, proved: of the command queue,    *)
(* for every set of lanes and commands, every way their turns interleave   *)
(* and every nesting; then of the follow-up queue, for every set of        *)
(* messages, any settings and stops at any time.                           *)
EXTENDS CommandQueueProperties, FollowupQueueProperties, FiniteSetTheorems, SequenceTheorems, TLAPS

\* Some call for lane l is on the JavaScript stack (drainLane or pump).
OnStack(l) == \E i \in DOMAIN stack : stack[i].lane = l

Pumping(l) == \E i \in DOMAIN stack : stack[i].call = "pump" /\ stack[i].lane = l

\* A draining flag is never left behind: its pump is on the stack.
DrainingIsPumped == \A l \in Lanes : draining[l] => Pumping(l)

\* A lane with work and room is one that a call in progress is about to visit.
StallIsTemporary ==
    \A l \in Lanes :
        queue[l] = <<>> \/ ~HasRoom(l) \/ l \in lanesToDrain \/ OnStack(l)

\* The entries of a queue are the lane's own tasks, each once, not yet started.
HoldsQueued(q, l, st) ==
    /\ \A i \in DOMAIN q : LaneOf[q[i]] = l /\ st[q[i]] = "queued"
    /\ \A i, j \in DOMAIN q : q[i] = q[j] => i = j

QueuesHoldQueued == \A l \in Lanes : HoldsQueued(queue[l], l, status)

\* No task was started in a generation that has not begun.
NoFutureGeneration == \A t \in Tasks : taskGeneration[t] <= generation[LaneOf[t]]

\* A snapshot holds tasks that had been started.
SnapshotWasStarted ==
    \A t \in activeAtStart : status[t] \in {"running", "finished"}

-----------------------------------------------------------------------------
(* The JavaScript stack: what calling and returning do to it.              *)

LEMMA StackPush ==
    ASSUME stack \in Seq(Frame), NEW l \in Lanes,
           NEW c \in {"drainLane", "pump"}
    PROVE  /\ Call(c, l) \in Seq(Frame)
           /\ Len(Call(c, l)) = Len(stack) + 1
           /\ Call(c, l)[Len(stack) + 1].lane = l
           /\ \A i \in DOMAIN stack :
                 i \in DOMAIN Call(c, l) /\ Call(c, l)[i] = stack[i]
  <1> DEFINE f == [call |-> c, lane |-> l, body |-> NoTask]
  <1>1. f \in Frame
    BY DEF Frame
  <1>2. Call(c, l) = Append(stack, f)
    BY DEF Call
  <1>3. f.lane = l
    OBVIOUS
  <1> HIDE DEF f
  <1> QED
    BY <1>1, <1>2, <1>3

LEMMA StackPop ==
    ASSUME stack \in Seq(Frame), stack # <<>>
    PROVE  /\ Below \in Seq(Frame)
           /\ Len(Below) = Len(stack) - 1
           /\ \A i \in DOMAIN stack :
                 i # Len(stack) => i \in DOMAIN Below /\ Below[i] = stack[i]
  <1>1. Len(stack) \in Nat \ {0}
    OBVIOUS
  <1> DEFINE n == Len(stack) - 1
  <1>2. \A i \in 1 .. n : stack[i] \in Frame
    OBVIOUS
  <1>3. n \in Nat /\ 1 \in Int /\ n \in Int
    BY <1>1
  <1> HIDE DEF n
  <1>4. /\ SubSeq(stack, 1, n) \in Seq(Frame)
        /\ Len(SubSeq(stack, 1, n)) = IF 1 <= n THEN n - 1 + 1 ELSE 0
        /\ \A i \in 1 .. n - 1 + 1 : SubSeq(stack, 1, n)[i] = stack[1 + i - 1]
    BY <1>2, <1>3, SubSeqProperties
  <1>5. Below = SubSeq(stack, 1, n)
    BY DEF Below, n
  <1>6. Len(Below) = n
    BY <1>3, <1>4, <1>5
  <1>7. ASSUME NEW i \in DOMAIN stack, i # Len(stack)
        PROVE  i \in DOMAIN Below /\ Below[i] = stack[i]
    <2>1. i \in 1 .. n /\ 1 .. n - 1 + 1 = 1 .. n /\ 1 + i - 1 = i
      BY <1>1, <1>3, <1>7 DEF n
    <2>2. DOMAIN Below = 1 .. n
      BY <1>4, <1>5, <1>6
    <2> QED
      BY <2>1, <2>2, <1>4, <1>5
  <1> QED
    BY <1>4, <1>5, <1>6, <1>7 DEF n

LEMMA StackTop ==
    ASSUME stack \in Seq(Frame), stack # <<>>
    PROVE  /\ Len(stack) \in DOMAIN stack
           /\ Top \in Frame
           /\ Top.lane \in Lanes
           /\ Top.call \in {"drainLane", "pump"}
  <1>1. Len(stack) \in DOMAIN stack /\ Top \in Frame
    BY DEF Top
  <1> QED
    BY <1>1 DEF Frame

\* Changing a field of the innermost frame leaves the other frames alone.
LEMMA StackSetBody ==
    ASSUME stack \in Seq(Frame), stack # <<>>, NEW b \in Tasks \cup {NoTask},
           NEW s, s = [stack EXCEPT ![Len(stack)].body = b]
    PROVE  /\ s \in Seq(Frame)
           /\ DOMAIN s = DOMAIN stack
           /\ \A i \in DOMAIN stack :
                 s[i].call = stack[i].call /\ s[i].lane = stack[i].lane
  <1> DEFINE f == [stack[Len(stack)] EXCEPT !.body = b]
  <1>1. Len(stack) \in 1 .. Len(stack) /\ stack[Len(stack)] \in Frame
    OBVIOUS
  <1>2. /\ f \in Frame
        /\ f.call = stack[Len(stack)].call
        /\ f.lane = stack[Len(stack)].lane
    BY <1>1 DEF Frame
  <1>3. s = [stack EXCEPT ![Len(stack)] = f]
    OBVIOUS
  <1> HIDE DEF f
  <1> QED
    BY <1>1, <1>2, <1>3, ExceptSeq

LEMMA StackSetCall ==
    ASSUME stack \in Seq(Frame), stack # <<>>,
           NEW s, s = [stack EXCEPT ![Len(stack)].call = "pump"]
    PROVE  /\ s \in Seq(Frame)
           /\ DOMAIN s = DOMAIN stack
           /\ s[Len(stack)].call = "pump"
           /\ \A i \in DOMAIN stack : s[i].lane = stack[i].lane
           /\ \A i \in DOMAIN stack : i # Len(stack) => s[i] = stack[i]
  <1> DEFINE f == [stack[Len(stack)] EXCEPT !.call = "pump"]
  <1>1. Len(stack) \in 1 .. Len(stack) /\ stack[Len(stack)] \in Frame
    OBVIOUS
  <1>2. /\ f \in Frame
        /\ f.call = "pump"
        /\ f.lane = stack[Len(stack)].lane
    BY <1>1 DEF Frame
  <1>3. s = [stack EXCEPT ![Len(stack)] = f]
    OBVIOUS
  <1> HIDE DEF f
  <1> QED
    BY <1>1, <1>2, <1>3, ExceptSeq

-----------------------------------------------------------------------------
(* Type correctness.                                                       *)

LEMMA TypeInit == Init => TypeOK
  <1> SUFFICES ASSUME Init PROVE TypeOK
    OBVIOUS
  <1>1. <<>> \in Seq(Frame) /\ <<>> \in Seq(Tasks)
    OBVIOUS
  <1>2. queue \in [Lanes -> Seq(Tasks)] /\ stack \in Seq(Frame)
    BY <1>1 DEF Init
  <1>3. /\ active \in [Lanes -> SUBSET Tasks]
        /\ maxConcurrent \in [Lanes -> Nat \ {0}]
        /\ draining \in [Lanes -> BOOLEAN]
        /\ generation \in [Lanes -> Nat]
    BY DEF Init
  <1>4. status \in [Tasks -> Status] /\ taskGeneration \in [Tasks -> Nat]
    BY DEF Init, Status
  <1> QED
    BY <1>2, <1>3, <1>4 DEF Init, TypeOK

LEMMA TypeStep == TypeOK /\ [Next]_vars => TypeOK'
  <1> SUFFICES ASSUME TypeOK, [Next]_vars
               PROVE  TypeOK'
    OBVIOUS
  <1> USE CommandQueueAssumption
  <1>1. CASE DrainLane
    <2>1. stack \in Seq(Frame) /\ stack # <<>> /\ Top.lane \in Lanes
      BY <1>1, StackTop DEF TypeOK, DrainLane
    <2>2. Below \in Seq(Frame)
      BY <2>1, StackPop
    <2>3. [stack EXCEPT ![Len(stack)].call = "pump"] \in Seq(Frame)
      BY <2>1, StackSetCall
    <2>4. stack' \in Seq(Frame) /\ draining' \in [Lanes -> BOOLEAN]
      BY <1>1, <2>1, <2>2, <2>3 DEF TypeOK, DrainLane
    <2> QED
      BY <1>1, <2>4 DEF TypeOK, DrainLane, taskVars, waitVars
  <1>2. CASE PumpStart
    <2> DEFINE l == Top.lane
               t == Head(queue[l])
    <2>1. stack \in Seq(Frame) /\ stack # <<>> /\ l \in Lanes
      BY <1>2, StackTop DEF TypeOK, PumpStart
    <2>2. queue[l] \in Seq(Tasks) /\ queue[l] # <<>>
      BY <1>2, <2>1 DEF TypeOK, PumpStart
    <2>3. t \in Tasks /\ Tail(queue[l]) \in Seq(Tasks)
      BY <2>2, HeadTailProperties
    <2>4. [stack EXCEPT ![Len(stack)].body = t] \in Seq(Frame)
      BY <2>1, <2>3, StackSetBody
    <2>5. stack' \in Seq(Frame)
      BY <1>2, <2>4 DEF PumpStart
    <2>6. queue' \in [Lanes -> Seq(Tasks)]
      BY <1>2, <2>1, <2>3 DEF TypeOK, PumpStart
    <2>7. /\ active' \in [Lanes -> SUBSET Tasks]
          /\ status' \in [Tasks -> Status]
          /\ taskGeneration' \in [Tasks -> Nat]
      BY <1>2, <2>1, <2>3 DEF TypeOK, PumpStart, Status
    <2> QED
      BY <1>2, <2>5, <2>6, <2>7 DEF TypeOK, PumpStart, waitVars
  <1>3. CASE TaskYields
    <2>1. stack' \in Seq(Frame)
      BY <1>3, StackSetBody DEF TypeOK, TaskYields, InTaskBody
    <2> QED
      BY <1>3, <2>1 DEF TypeOK, TaskYields, laneVars, taskVars, waitVars
  <1>4. CASE PumpReturn
    <2>1. Top.lane \in Lanes /\ stack' \in Seq(Frame)
      BY <1>4, StackTop, StackPop DEF TypeOK, PumpReturn
    <2> QED
      BY <1>4, <2>1 DEF DrainedLane, TypeOK, PumpReturn, taskVars, waitVars
  <1>5. ASSUME NEW t \in Tasks, CompleteTask(t)
        PROVE  TypeOK'
    <2>1. LaneOf[t] \in Lanes
      OBVIOUS
    <2>2. Call("pump", LaneOf[t]) \in Seq(Frame)
      BY <2>1, StackPush DEF TypeOK
    <2>3. stack' \in Seq(Frame)
      BY <1>5, <2>2 DEF TypeOK, CompleteTask
    <2>4. active' \in [Lanes -> SUBSET Tasks]
      <3>1. CASE taskGeneration[t] = generation[LaneOf[t]]
        <4>1. active' = [active EXCEPT ![LaneOf[t]] = @ \ {t}]
          BY <1>5, <3>1 DEF CompleteTask
        <4>2. active[LaneOf[t]] \ {t} \in SUBSET Tasks
          BY <2>1 DEF TypeOK
        <4> QED
          BY <4>1, <4>2 DEF TypeOK
      <3>2. CASE taskGeneration[t] # generation[LaneOf[t]]
        BY <1>5, <3>2 DEF TypeOK, CompleteTask
      <3> QED
        BY <3>1, <3>2
    <2>5. status' \in [Tasks -> Status]
      BY <1>5 DEF TypeOK, CompleteTask, Status
    <2> QED
      BY <1>5, <2>3, <2>4, <2>5 DEF TypeOK, CompleteTask, waitVars
  <1>6. ASSUME NEW t \in Tasks, EnqueueCommandInLane(t)
        PROVE  TypeOK'
    <2>1. LaneOf[t] \in Lanes
      OBVIOUS
    <2>2. Call("drainLane", LaneOf[t]) \in Seq(Frame)
      BY <2>1, StackPush DEF TypeOK
    <2>3. Append(queue[LaneOf[t]], t) \in Seq(Tasks)
      BY <2>1 DEF TypeOK
    <2>4. queue' \in [Lanes -> Seq(Tasks)]
      BY <1>6, <2>1, <2>3 DEF BehindAll, TypeOK, EnqueueCommandInLane
    <2>5. stack' \in Seq(Frame) /\ status' \in [Tasks -> Status]
      BY <1>6, <2>2 DEF TypeOK, EnqueueCommandInLane, Status
    <2> QED
      BY <1>6, <2>4, <2>5 DEF TypeOK, EnqueueCommandInLane, waitVars
  <1>7. ASSUME NEW l \in Lanes, NEW n \in Concurrency,
               SetCommandLaneConcurrency(l, n)
        PROVE  TypeOK'
    <2>1. Call("drainLane", l) \in Seq(Frame)
      BY StackPush DEF TypeOK
    <2>2. maxConcurrent' \in [Lanes -> Nat \ {0}]
      BY <1>7 DEF Width, TypeOK, SetCommandLaneConcurrency
    <2> QED
      BY <1>7, <2>1, <2>2 DEF TypeOK, SetCommandLaneConcurrency, taskVars, waitVars
  <1>8. ASSUME NEW l \in Lanes, ClearCommandLane(l)
        PROVE  TypeOK'
    <2>1. queue' \in [Lanes -> Seq(Tasks)] /\ status' \in [Tasks -> Status]
      BY <1>8 DEF TypeOK, ClearCommandLane, Rejected, Status
    <2> QED
      BY <1>8, <2>1 DEF TypeOK, ClearCommandLane, Rejected, waitVars
  <1>9. ASSUME NEW l \in Lanes, ResetDrainsLane(l)
        PROVE  TypeOK'
    <2>1. Call("drainLane", l) \in Seq(Frame)
      BY StackPush DEF TypeOK
    <2> QED
      BY <1>9, <2>1 DEF TypeOK, ResetDrainsLane, laneVars, taskVars, waitVars
  <1>10. CASE MarkGatewayDraining
    BY <1>10 DEF TypeOK, MarkGatewayDraining, laneVars, taskVars, waitVars
  <1>11. CASE ResetAllLanes
    <2>1. /\ generation' \in [Lanes -> Nat]
          /\ active' \in [Lanes -> SUBSET Tasks]
          /\ draining' \in [Lanes -> BOOLEAN]
          /\ lanesToDrain' \in SUBSET Lanes
      BY <1>11 DEF NextGeneration, LanesWithWork, TypeOK, ResetAllLanes
    <2> QED
      BY <1>11, <2>1 DEF TypeOK, ResetAllLanes, taskVars, waitVars
  <1>12. CASE WaitForActiveTasks
    BY <1>12 DEF TypeOK, WaitForActiveTasks, laneVars, taskVars
  <1>13. CASE PollActiveTasks
    BY <1>13 DEF TypeOK, PollActiveTasks, laneVars, taskVars
  <1>14. CASE UNCHANGED vars
    BY <1>14 DEF TypeOK, vars, laneVars, taskVars, waitVars
  <1> QED
    BY <1>1, <1>2, <1>3, <1>4, <1>5, <1>6, <1>7, <1>8, <1>9, <1>10, <1>11,
       <1>12, <1>13, <1>14 DEF Next, PumpStep

\* Every state of the command queue is well formed: stack frames, lane records
\* and task bookkeeping keep their types through nested calls and restarts.
THEOREM TypeCorrect == Spec => []TypeOK
  BY TypeInit, TypeStep, PTL DEF Spec

-----------------------------------------------------------------------------
(* No lane stalls.  The two parts of the argument are kept apart: a        *)
(* draining flag is never left behind, hence the drainLane that returns at *)
(* once leaves the lane to a pump that will look at its queue again.       *)

\* The frame a call pushes is on the stack, with all those below it.
LEMMA OnStackAfterCall ==
    ASSUME stack \in Seq(Frame), NEW l \in Lanes,
           NEW c \in {"drainLane", "pump"}, stack' = Call(c, l)
    PROVE  /\ OnStack(l)'
           /\ \A k \in Lanes : OnStack(k) => OnStack(k)'
           /\ \A k \in Lanes : Pumping(k) => Pumping(k)'
  <1>1. /\ Call(c, l) \in Seq(Frame)
        /\ Len(Call(c, l)) = Len(stack) + 1
        /\ Call(c, l)[Len(stack) + 1].lane = l
        /\ \A i \in DOMAIN stack :
              i \in DOMAIN Call(c, l) /\ Call(c, l)[i] = stack[i]
    BY StackPush
  <1>2. Len(stack) + 1 \in DOMAIN Call(c, l)
    BY <1>1
  <1>3. OnStack(l)'
    BY <1>1, <1>2 DEF OnStack
  <1>4. ASSUME NEW k \in Lanes
        PROVE  (OnStack(k) => OnStack(k)') /\ (Pumping(k) => Pumping(k)')
    BY <1>1 DEF OnStack, Pumping
  <1> QED
    BY <1>3, <1>4

\* Returning removes only the innermost frame.
LEMMA OnStackAfterReturn ==
    ASSUME stack \in Seq(Frame), stack # <<>>, stack' = Below
    PROVE  /\ \A k \in Lanes : OnStack(k) => OnStack(k)' \/ k = Top.lane
           /\ \A k \in Lanes :
                 Pumping(k) => \/ Pumping(k)'
                               \/ Top.call = "pump" /\ k = Top.lane
  <1>1. ASSUME NEW i \in DOMAIN stack, i # Len(stack)
        PROVE  i \in DOMAIN Below /\ Below[i] = stack[i]
    BY <1>1, StackPop
  <1>2. Top = stack[Len(stack)]
    BY DEF Top
  <1> QED
    BY <1>1, <1>2 DEF OnStack, Pumping

LEMMA NoStallInit == Init => DrainingIsPumped /\ StallIsTemporary
  BY DEF Init, DrainingIsPumped, StallIsTemporary

LEMMA DrainingStep ==
    TypeOK /\ DrainingIsPumped /\ [Next]_vars => DrainingIsPumped'
  <1> SUFFICES ASSUME TypeOK, DrainingIsPumped, [Next]_vars
               PROVE  DrainingIsPumped'
    OBVIOUS
  <1>0. stack \in Seq(Frame) /\ draining \in [Lanes -> BOOLEAN]
    BY DEF TypeOK
  <1>a. ASSUME NEW l \in Lanes, NEW c \in {"drainLane", "pump"},
               stack' = Call(c, l), UNCHANGED draining
        PROVE  DrainingIsPumped'
    BY <1>0, <1>a, OnStackAfterCall DEF DrainingIsPumped
  <1>b. ASSUME UNCHANGED <<stack, draining>>
        PROVE  DrainingIsPumped'
    BY <1>b DEF DrainingIsPumped, Pumping
  <1>1. CASE DrainLane
    <2>1. CASE draining[Top.lane]
      <3>1. stack' = Below /\ stack # <<>> /\ Top.call = "drainLane"
        BY <1>1, <2>1 DEF DrainLane
      <3>2. draining' = draining
        BY <1>1, <2>1 DEF DrainLane
      <3>3. \A k \in Lanes : Pumping(k) => Pumping(k)'
        BY <1>0, <3>1, OnStackAfterReturn
      <3> QED
        BY <3>2, <3>3 DEF DrainingIsPumped
    <2>2. CASE ~draining[Top.lane]
      <3>1. /\ stack # <<>>
            /\ stack' = [stack EXCEPT ![Len(stack)].call = "pump"]
            /\ draining' = [draining EXCEPT ![Top.lane] = TRUE]
        BY <1>1, <2>2 DEF DrainLane
      <3>2. /\ DOMAIN stack' = DOMAIN stack
            /\ stack'[Len(stack)].call = "pump"
            /\ \A i \in DOMAIN stack : stack'[i].lane = stack[i].lane
            /\ \A i \in DOMAIN stack : i # Len(stack) => stack'[i] = stack[i]
        BY <1>0, <3>1, StackSetCall
      <3>3. Len(stack) \in DOMAIN stack
        BY <1>0, <3>1
      <3> PICK l \in Lanes : l = Top.lane
        BY <1>0, <3>1, StackTop
      <3>4. Pumping(l)'
        BY <3>2, <3>3 DEF Pumping, Top
      <3>5. ASSUME NEW k \in Lanes, Pumping(k)
            PROVE  Pumping(k)'
        BY <3>2, <3>5 DEF Pumping
      <3> QED
        BY <1>0, <3>1, <3>4, <3>5 DEF DrainingIsPumped
    <2> QED
      BY <2>1, <2>2
  <1>2. ASSUME NEW b \in Tasks \cup {NoTask}, stack # <<>>,
               stack' = [stack EXCEPT ![Len(stack)].body = b],
               UNCHANGED draining
        PROVE  DrainingIsPumped'
    <2>1. /\ DOMAIN stack' = DOMAIN stack
          /\ \A i \in DOMAIN stack :
                stack'[i].call = stack[i].call /\ stack'[i].lane = stack[i].lane
      BY <1>0, <1>2, StackSetBody
    <2> QED
      BY <1>2, <2>1 DEF DrainingIsPumped, Pumping
  <1>3. CASE PumpStart
    <2> DEFINE t == Head(queue[Top.lane])
    <2>1. /\ stack # <<>>
          /\ stack' = [stack EXCEPT ![Len(stack)].body = t]
          /\ UNCHANGED draining
          /\ queue[Top.lane] # <<>>
      BY <1>3 DEF PumpStart
    <2>2. t \in Tasks
      BY <1>0, <2>1, StackTop DEF TypeOK
    <2> QED
      BY <1>2, <2>1, <2>2
  <1>4. CASE TaskYields
    BY <1>2, <1>4 DEF TaskYields, InTaskBody, laneVars
  <1>5. CASE PumpReturn
    <2>1. /\ stack # <<>>
          /\ stack' = Below
          /\ draining' = [draining EXCEPT ![Top.lane] = FALSE]
      BY <1>5 DEF DrainedLane, PumpReturn
    <2> QED
      BY <1>0, <2>1, OnStackAfterReturn DEF DrainingIsPumped
  <1>6. ASSUME NEW t \in Tasks, CompleteTask(t)
        PROVE  DrainingIsPumped'
    <2>1. LaneOf[t] \in Lanes
      BY CommandQueueAssumption
    <2>2. CASE taskGeneration[t] = generation[LaneOf[t]]
      BY <1>a, <1>6, <2>1, <2>2 DEF CompleteTask
    <2>3. CASE taskGeneration[t] # generation[LaneOf[t]]
      BY <1>b, <1>6, <2>3 DEF CompleteTask
    <2> QED
      BY <2>2, <2>3
  <1>7. ASSUME NEW t \in Tasks, EnqueueCommandInLane(t)
        PROVE  DrainingIsPumped'
    <2>1. LaneOf[t] \in Lanes
      BY CommandQueueAssumption
    <2>2. CASE gatewayDraining
      BY <1>b, <1>7, <2>2 DEF EnqueueCommandInLane
    <2>3. CASE ~gatewayDraining
      BY <1>a, <1>7, <2>1, <2>3 DEF EnqueueCommandInLane
    <2> QED
      BY <2>2, <2>3
  <1>8. ASSUME NEW l \in Lanes, NEW n \in Concurrency,
               SetCommandLaneConcurrency(l, n)
        PROVE  DrainingIsPumped'
    BY <1>a, <1>8 DEF SetCommandLaneConcurrency
  <1>9. ASSUME NEW l \in Lanes, ResetDrainsLane(l)
        PROVE  DrainingIsPumped'
    BY <1>a, <1>9 DEF ResetDrainsLane, laneVars
  <1>10. CASE ResetAllLanes
    BY <1>10 DEF ResetAllLanes, DrainingIsPumped
  <1>11. CASE \/ \E l \in Lanes : ClearCommandLane(l)
              \/ MarkGatewayDraining
              \/ WaitForActiveTasks
              \/ PollActiveTasks
              \/ UNCHANGED vars
    BY <1>b, <1>11 DEF ClearCommandLane, Rejected, MarkGatewayDraining, WaitForActiveTasks,
       PollActiveTasks, vars, laneVars
  <1> QED
    BY <1>1, <1>3, <1>4, <1>5, <1>6, <1>7, <1>8, <1>9, <1>10, <1>11
       DEF Next, PumpStep

LEMMA StallStep ==
    TypeOK /\ DrainingIsPumped /\ StallIsTemporary /\ [Next]_vars
        => StallIsTemporary'
  <1> SUFFICES ASSUME TypeOK, DrainingIsPumped, StallIsTemporary, [Next]_vars
               PROVE  StallIsTemporary'
    OBVIOUS
  <1>0. stack \in Seq(Frame)
    BY DEF TypeOK
  <1>a. ASSUME UNCHANGED <<queue, active, maxConcurrent, lanesToDrain>>,
               \A k \in Lanes : OnStack(k) => OnStack(k)'
        PROVE  StallIsTemporary'
    BY <1>a DEF StallIsTemporary, HasRoom
  <1>b. ASSUME NEW s, stack' = s, DOMAIN s = DOMAIN stack,
               \A i \in DOMAIN stack : s[i].lane = stack[i].lane
        PROVE  \A k \in Lanes : OnStack(k) <=> OnStack(k)'
    BY <1>b DEF OnStack
  <1>1. CASE DrainLane
    <2>0. stack # <<>> /\ UNCHANGED <<queue, active, maxConcurrent, lanesToDrain>>
      BY <1>1 DEF DrainLane
    <2>1. CASE draining[Top.lane]
      <3>1. stack' = Below /\ Top.call = "drainLane"
        BY <1>1, <2>1 DEF DrainLane
      <3> PICK l \in Lanes : l = Top.lane
        BY <1>0, <2>0, StackTop
      <3>2. Pumping(l)
        BY <2>1 DEF DrainingIsPumped
      <3>3. Pumping(l)'
        BY <1>0, <2>0, <3>1, <3>2, OnStackAfterReturn
      <3>4. OnStack(l)'
        BY <3>3 DEF Pumping, OnStack
      <3>5. \A k \in Lanes : OnStack(k) => OnStack(k)' \/ k = Top.lane
        BY <1>0, <2>0, <3>1, OnStackAfterReturn
      <3> QED
        BY <1>a, <2>0, <3>4, <3>5
    <2>2. CASE ~draining[Top.lane]
      <3>1. stack' = [stack EXCEPT ![Len(stack)].call = "pump"]
        BY <1>1, <2>2 DEF DrainLane
      <3>2. \A k \in Lanes : OnStack(k) <=> OnStack(k)'
        BY <1>0, <1>b, <2>0, <3>1, StackSetCall
      <3> QED
        BY <1>a, <2>0, <3>2
    <2> QED
      BY <2>1, <2>2
  <1>2. ASSUME NEW b \in Tasks \cup {NoTask}, stack # <<>>,
               stack' = [stack EXCEPT ![Len(stack)].body = b]
        PROVE  \A k \in Lanes : OnStack(k) <=> OnStack(k)'
    <2>1. /\ DOMAIN stack' = DOMAIN stack
          /\ \A i \in DOMAIN stack : stack'[i].lane = stack[i].lane
      BY <1>0, <1>2, StackSetBody
    <2> QED
      BY <1>b, <2>1
  <1>3. CASE PumpStart
    <2> DEFINE t == Head(queue[Top.lane])
    <2>1. /\ stack # <<>>
          /\ stack' = [stack EXCEPT ![Len(stack)].body = t]
          /\ queue[Top.lane] # <<>>
      BY <1>3 DEF PumpStart
    <2>2. Top.lane \in Lanes /\ Len(stack) \in DOMAIN stack
      BY <1>0, <2>1, StackTop
    <2>3. t \in Tasks
      BY <2>1, <2>2 DEF TypeOK
    <2>4. \A k \in Lanes : OnStack(k) <=> OnStack(k)'
      BY <1>2, <2>1, <2>3
    <2>5. OnStack(Top.lane)
      BY <2>2 DEF OnStack, Top
    <2>6. ASSUME NEW k \in Lanes, k # Top.lane
          PROVE  /\ queue'[k] = queue[k] /\ active'[k] = active[k]
                 /\ UNCHANGED <<maxConcurrent, lanesToDrain>>
      BY <1>3, <2>6 DEF PumpStart, TypeOK
    <2> QED
      BY <2>2, <2>4, <2>5, <2>6 DEF StallIsTemporary, HasRoom
  <1>4. CASE TaskYields
    <2>1. \A k \in Lanes : OnStack(k) <=> OnStack(k)'
      BY <1>2, <1>4 DEF TaskYields, InTaskBody
    <2> QED
      BY <1>a, <1>4, <2>1 DEF TaskYields, laneVars
  <1>5. CASE PumpReturn
    <2>1. /\ stack # <<>> /\ stack' = Below
          /\ queue[Top.lane] = <<>> \/ ~HasRoom(Top.lane)
          /\ UNCHANGED <<queue, active, maxConcurrent, lanesToDrain>>
      BY <1>5 DEF PumpReturn
    <2>2. \A k \in Lanes : OnStack(k) => OnStack(k)' \/ k = Top.lane
      BY <1>0, <2>1, OnStackAfterReturn
    <2> QED
      BY <2>1, <2>2 DEF StallIsTemporary, HasRoom
  <1>6. ASSUME NEW l \in Lanes, NEW c \in {"drainLane", "pump"},
               stack' = Call(c, l),
               \A k \in Lanes \ {l} :
                  /\ queue'[k] = queue[k] /\ active'[k] = active[k]
                  /\ maxConcurrent'[k] = maxConcurrent[k]
                  /\ k \in lanesToDrain => k \in lanesToDrain'
        PROVE  StallIsTemporary'
    <2>1. OnStack(l)' /\ \A k \in Lanes : OnStack(k) => OnStack(k)'
      BY <1>0, <1>6, OnStackAfterCall
    <2> QED
      BY <1>6, <2>1 DEF StallIsTemporary, HasRoom
  <1>7. ASSUME NEW t \in Tasks, CompleteTask(t)
        PROVE  StallIsTemporary'
    <2>1. LaneOf[t] \in Lanes
      BY CommandQueueAssumption
    <2>2. CASE taskGeneration[t] = generation[LaneOf[t]]
      <3>1. /\ stack' = Call("pump", LaneOf[t])
            /\ active' = [active EXCEPT ![LaneOf[t]] = @ \ {t}]
            /\ UNCHANGED <<queue, maxConcurrent, lanesToDrain>>
        BY <1>7, <2>2 DEF CompleteTask
      <3> QED
        BY <1>6, <2>1, <3>1 DEF TypeOK
    <2>3. CASE taskGeneration[t] # generation[LaneOf[t]]
      BY <1>7, <2>3 DEF CompleteTask, StallIsTemporary, HasRoom, OnStack
    <2> QED
      BY <2>2, <2>3
  <1>8. ASSUME NEW t \in Tasks, EnqueueCommandInLane(t)
        PROVE  StallIsTemporary'
    <2>1. LaneOf[t] \in Lanes
      BY CommandQueueAssumption
    <2>2. CASE gatewayDraining
      BY <1>8, <2>2 DEF EnqueueCommandInLane, StallIsTemporary, HasRoom, OnStack
    <2>3. CASE ~gatewayDraining
      <3>1. /\ stack' = Call("drainLane", LaneOf[t])
            /\ queue' = [queue EXCEPT ![LaneOf[t]] = Append(@, t)]
            /\ UNCHANGED <<active, maxConcurrent, lanesToDrain>>
        BY <1>8, <2>3 DEF BehindAll, EnqueueCommandInLane
      <3> QED
        BY <1>6, <2>1, <3>1 DEF TypeOK
    <2> QED
      BY <2>2, <2>3
  <1>9. ASSUME NEW l \in Lanes, NEW n \in Concurrency,
               SetCommandLaneConcurrency(l, n)
        PROVE  StallIsTemporary'
    BY <1>6, <1>9 DEF SetCommandLaneConcurrency, TypeOK
  <1>10. ASSUME NEW l \in Lanes, ResetDrainsLane(l)
         PROVE  StallIsTemporary'
    BY <1>6, <1>10 DEF ResetDrainsLane, laneVars
  <1>11. CASE ResetAllLanes
    BY <1>11 DEF LanesWithWork, ResetAllLanes, StallIsTemporary
  <1>12. ASSUME NEW l \in Lanes, ClearCommandLane(l)
         PROVE  StallIsTemporary'
    BY <1>12 DEF ClearCommandLane, Rejected, StallIsTemporary, HasRoom, OnStack, TypeOK
  <1>13. CASE \/ MarkGatewayDraining
              \/ WaitForActiveTasks
              \/ PollActiveTasks
              \/ UNCHANGED vars
    BY <1>13 DEF MarkGatewayDraining, WaitForActiveTasks, PollActiveTasks, vars,
       laneVars, StallIsTemporary, HasRoom, OnStack
  <1> QED
    BY <1>1, <1>3, <1>4, <1>5, <1>7, <1>8, <1>9, <1>10, <1>11, <1>12, <1>13
       DEF Next, PumpStep

\* Between turns no lane has both a queued command and a free slot, for any
\* number of lanes, commands and nested pumps (drainLane, pump, resetAllLanes).
THEOREM NoLaneStalls == Spec => []NoStalledLane
  <1>1. Init => TypeOK /\ DrainingIsPumped /\ StallIsTemporary
    BY TypeInit, NoStallInit
  <1>2. TypeOK /\ DrainingIsPumped /\ StallIsTemporary /\ [Next]_vars
          => (TypeOK /\ DrainingIsPumped /\ StallIsTemporary)'
    BY TypeStep, DrainingStep, StallStep
  <1>3. StallIsTemporary => NoStalledLane
    BY DEF StallIsTemporary, NoStalledLane, Idle, OnStack
  <1> QED
    BY <1>1, <1>2, <1>3, PTL DEF Spec

-----------------------------------------------------------------------------
(* Slots are held by running tasks.  The argument needs to know what the   *)
(* queues hold: shifting an entry must not restart a task.                 *)

LEMMA QueueInit == Init => QueuesHoldQueued
  BY DEF Init, QueuesHoldQueued, HoldsQueued

\* The head of a lane's queue is the lane's own and has not been started.
LEMMA HeadIsQueued ==
    ASSUME TypeOK, QueuesHoldQueued, NEW l \in Lanes, queue[l] # <<>>
    PROVE  /\ Head(queue[l]) \in Tasks
           /\ LaneOf[Head(queue[l])] = l
           /\ status[Head(queue[l])] = "queued"
  <1>1. queue[l] \in Seq(Tasks)
    BY DEF TypeOK
  <1>2. 1 \in DOMAIN queue[l] /\ Head(queue[l]) = queue[l][1]
    BY <1>1
  <1> QED
    BY <1>1, <1>2 DEF QueuesHoldQueued, HoldsQueued

LEMMA HoldsQueuedTail ==
    ASSUME NEW q \in Seq(Tasks), q # <<>>, NEW l, NEW st, HoldsQueued(q, l, st),
           NEW st2, \A u \in Tasks \ {Head(q)} : st2[u] = st[u]
    PROVE  HoldsQueued(Tail(q), l, st2)
  <1>1. /\ Len(q) \in Nat \ {0}
        /\ DOMAIN q = 1 .. Len(q)
        /\ Head(q) = q[1]
        /\ \A i \in DOMAIN q : q[i] \in Tasks
    OBVIOUS
  <1>2. /\ DOMAIN Tail(q) = 1 .. Len(q) - 1
        /\ \A i \in 1 .. Len(q) - 1 : Tail(q)[i] = q[i + 1]
    OBVIOUS
  <1>3. \A i \in 1 .. Len(q) - 1 : i + 1 \in DOMAIN q /\ i + 1 # 1
    BY <1>1
  <1>4. \A i \in 1 .. Len(q) - 1 : q[i + 1] # Head(q)
    BY <1>1, <1>3 DEF HoldsQueued
  <1>5. ASSUME NEW i \in DOMAIN Tail(q)
        PROVE  LaneOf[Tail(q)[i]] = l /\ st2[Tail(q)[i]] = "queued"
    BY <1>1, <1>2, <1>3, <1>4 DEF HoldsQueued
  <1>6. ASSUME NEW i \in DOMAIN Tail(q), NEW j \in DOMAIN Tail(q),
               Tail(q)[i] = Tail(q)[j]
        PROVE  i = j
    <2>1. i + 1 \in DOMAIN q /\ j + 1 \in DOMAIN q /\ q[i + 1] = q[j + 1]
      BY <1>2, <1>3, <1>6
    <2>2. i + 1 = j + 1
      BY <2>1 DEF HoldsQueued
    <2> QED
      BY <1>2, <2>2
  <1> QED
    BY <1>5, <1>6 DEF HoldsQueued

LEMMA HoldsQueuedAppend ==
    ASSUME NEW q \in Seq(Tasks), NEW t \in Tasks, NEW st,
           HoldsQueued(q, LaneOf[t], st), st[t] # "queued",
           NEW st2, st2[t] = "queued", \A u \in Tasks \ {t} : st2[u] = st[u]
    PROVE  HoldsQueued(Append(q, t), LaneOf[t], st2)
  <1> DEFINE n == Len(q)
  <1>1. /\ n \in Nat /\ DOMAIN q = 1 .. n
        /\ \A i \in DOMAIN q : q[i] \in Tasks
        /\ DOMAIN Append(q, t) = 1 .. n + 1
        /\ Append(q, t)[n + 1] = t
        /\ \A i \in DOMAIN q : Append(q, t)[i] = q[i]
    OBVIOUS
  <1>2. \A i \in DOMAIN q : q[i] # t
    BY DEF HoldsQueued
  <1>3. \A i \in 1 .. n + 1 : i \in DOMAIN q \/ i = n + 1
    BY <1>1
  <1> HIDE DEF n
  <1>4. ASSUME NEW i \in DOMAIN Append(q, t)
        PROVE  LaneOf[Append(q, t)[i]] = LaneOf[t] /\ st2[Append(q, t)[i]] = "queued"
    BY <1>1, <1>2, <1>3 DEF HoldsQueued
  <1>5. ASSUME NEW i \in DOMAIN Append(q, t), NEW j \in DOMAIN Append(q, t),
               Append(q, t)[i] = Append(q, t)[j]
        PROVE  i = j
    BY <1>1, <1>2, <1>3, <1>5 DEF HoldsQueued
  <1> QED
    BY <1>4, <1>5 DEF HoldsQueued

\* A queue is not disturbed by a change of status of tasks it does not hold.
LEMMA HoldsQueuedSame ==
    ASSUME NEW q \in Seq(Tasks), NEW l, NEW st, HoldsQueued(q, l, st), NEW st2,
           \A u \in Tasks : st[u] = "queued" /\ LaneOf[u] = l => st2[u] = st[u]
    PROVE  HoldsQueued(q, l, st2)
  <1>1. \A i \in DOMAIN q : q[i] \in Tasks
    OBVIOUS
  <1> QED
    BY <1>1 DEF HoldsQueued

LEMMA QueueStep ==
    TypeOK /\ QueuesHoldQueued /\ [Next]_vars => QueuesHoldQueued'
  <1> SUFFICES ASSUME TypeOK, QueuesHoldQueued, [Next]_vars,
                      NEW k \in Lanes
               PROVE  HoldsQueued(queue'[k], k, status')
    BY DEF QueuesHoldQueued
  <1> USE CommandQueueAssumption
  <1>0. queue[k] \in Seq(Tasks) /\ HoldsQueued(queue[k], k, status)
    BY DEF TypeOK, QueuesHoldQueued
  <1>a. ASSUME queue'[k] = queue[k], NEW t \in Tasks, NEW v,
               status' = [status EXCEPT ![t] = v],
               status[t] # "queued" \/ LaneOf[t] # k
        PROVE  HoldsQueued(queue'[k], k, status')
    BY <1>0, <1>a, HoldsQueuedSame DEF TypeOK
  <1>1. CASE PumpStart
    <2> PICK l \in Lanes : l = Top.lane
      BY <1>1, StackTop DEF TypeOK, PumpStart
    <2> DEFINE t == Head(queue[l])
    <2>1. /\ queue[l] # <<>>
          /\ queue' = [queue EXCEPT ![l] = Tail(@)]
          /\ status' = [status EXCEPT ![t] = "running"]
      BY <1>1 DEF PumpStart
    <2>2. t \in Tasks /\ LaneOf[t] = l
      BY <2>1, HeadIsQueued
    <2>3. CASE k = l
      <3>1. queue'[k] = Tail(queue[k]) /\ queue[k] # <<>>
        BY <2>1, <2>3 DEF TypeOK
      <3>2. \A u \in Tasks \ {Head(queue[k])} : status'[u] = status[u]
        BY <2>1, <2>3 DEF TypeOK
      <3> QED
        BY <1>0, <3>1, <3>2, HoldsQueuedTail
    <2>4. CASE k # l
      BY <1>a, <2>1, <2>2, <2>4 DEF TypeOK
    <2> QED
      BY <2>3, <2>4
  <1>2. ASSUME NEW t \in Tasks, CompleteTask(t)
        PROVE  HoldsQueued(queue'[k], k, status')
    BY <1>2, <1>a DEF CompleteTask
  <1>3. ASSUME NEW t \in Tasks, EnqueueCommandInLane(t)
        PROVE  HoldsQueued(queue'[k], k, status')
    <2>1. status[t] = "new"
      BY <1>3 DEF EnqueueCommandInLane
    <2>2. CASE gatewayDraining
      BY <1>3, <1>a, <2>1, <2>2 DEF EnqueueCommandInLane
    <2>3. CASE ~gatewayDraining
      <3>1. /\ queue' = [queue EXCEPT ![LaneOf[t]] = Append(@, t)]
            /\ status' = [status EXCEPT ![t] = "queued"]
        BY <1>3, <2>3 DEF BehindAll, EnqueueCommandInLane
      <3>2. CASE k = LaneOf[t]
        <4>1. queue'[k] = Append(queue[k], t)
          BY <3>1, <3>2 DEF TypeOK
        <4>2. status'[t] = "queued" /\ \A u \in Tasks \ {t} : status'[u] = status[u]
          BY <3>1 DEF TypeOK
        <4> QED
          BY <1>0, <2>1, <3>2, <4>1, <4>2, HoldsQueuedAppend
      <3>3. CASE k # LaneOf[t]
        BY <1>a, <3>1, <3>3 DEF TypeOK
      <3> QED
        BY <3>2, <3>3
    <2> QED
      BY <2>2, <2>3
  <1>4. ASSUME NEW l \in Lanes, ClearCommandLane(l)
        PROVE  HoldsQueued(queue'[k], k, status')
    <2>1. CASE k = l
      <3>1. queue'[k] = <<>>
        BY <1>4, <2>1 DEF ClearCommandLane, Rejected, TypeOK
      <3> QED
        BY <3>1 DEF HoldsQueued
    <2>2. CASE k # l
      <3>1. queue'[k] = queue[k]
        BY <1>4, <2>2 DEF ClearCommandLane, Rejected, TypeOK
      <3>2. \A i \in DOMAIN queue[l] : LaneOf[queue[l][i]] = l
        BY DEF QueuesHoldQueued, HoldsQueued
      <3>3. \A u \in Tasks : LaneOf[u] = k => status'[u] = status[u]
        BY <1>4, <2>2, <3>2 DEF ClearCommandLane, Rejected
      <3> QED
        BY <1>0, <3>1, <3>3, HoldsQueuedSame
    <2> QED
      BY <2>1, <2>2
  <1>5. CASE \/ DrainLane \/ TaskYields \/ PumpReturn
             \/ \E l \in Lanes, n \in Concurrency : SetCommandLaneConcurrency(l, n)
             \/ \E l \in Lanes : ResetDrainsLane(l)
             \/ MarkGatewayDraining \/ ResetAllLanes
             \/ WaitForActiveTasks \/ PollActiveTasks
             \/ UNCHANGED vars
    <2>1. UNCHANGED <<queue, status>>
      BY <1>5 DEF DrainLane, TaskYields, PumpReturn, SetCommandLaneConcurrency,
         ResetDrainsLane, MarkGatewayDraining, ResetAllLanes, WaitForActiveTasks,
         PollActiveTasks, vars, laneVars, taskVars
    <2> QED
      BY <1>0, <2>1
  <1> QED
    BY <1>1, <1>2, <1>3, <1>4, <1>5 DEF Next, PumpStep

LEMMA SlotsInit == Init => NoFutureGeneration /\ SlotsAreRunningTasks
  BY CommandQueueAssumption DEF Init, NoFutureGeneration, SlotsAreRunningTasks

LEMMA GenerationStep ==
    TypeOK /\ NoFutureGeneration /\ QueuesHoldQueued /\ [Next]_vars
        => NoFutureGeneration'
  <1> SUFFICES ASSUME TypeOK, NoFutureGeneration, QueuesHoldQueued, [Next]_vars
               PROVE  NoFutureGeneration'
    OBVIOUS
  <1> USE CommandQueueAssumption
  <1>1. CASE PumpStart
    <2> PICK l \in Lanes : l = Top.lane
      BY <1>1, StackTop DEF TypeOK, PumpStart
    <2> DEFINE t == Head(queue[l])
    <2>1. /\ queue[l] # <<>>
          /\ taskGeneration' = [taskGeneration EXCEPT ![t] = generation[l]]
          /\ generation' = generation
      BY <1>1 DEF PumpStart
    <2>2. t \in Tasks /\ LaneOf[t] = l
      BY <2>1, HeadIsQueued
    <2>3. ASSUME NEW u \in Tasks
          PROVE  taskGeneration'[u] <= generation'[LaneOf[u]]
      <3>1. generation[l] \in Nat /\ taskGeneration \in [Tasks -> Nat]
        BY DEF TypeOK
      <3>2. CASE u = t
        BY <2>1, <2>2, <3>1, <3>2
      <3>3. CASE u # t
        BY <2>1, <3>1, <3>3 DEF NoFutureGeneration
      <3> QED
        BY <3>2, <3>3
    <2> QED
      BY <2>3 DEF NoFutureGeneration
  <1>2. CASE ResetAllLanes
    <2>1. /\ generation' = [l \in Lanes |-> generation[l] + 1]
          /\ taskGeneration' = taskGeneration
      BY <1>2 DEF NextGeneration, ResetAllLanes, taskVars
    <2>2. ASSUME NEW t \in Tasks
          PROVE  taskGeneration[t] <= generation'[LaneOf[t]]
      <3>1. LaneOf[t] \in Lanes /\ generation'[LaneOf[t]] = generation[LaneOf[t]] + 1
        BY <2>1
      <3>2. generation[LaneOf[t]] \in Nat /\ taskGeneration[t] \in Nat
        BY <3>1 DEF TypeOK
      <3>3. taskGeneration[t] <= generation[LaneOf[t]]
        BY DEF NoFutureGeneration
      <3> QED
        BY <3>1, <3>2, <3>3
    <2> QED
      BY <2>1, <2>2 DEF NoFutureGeneration
  <1>3. CASE \/ DrainLane \/ TaskYields \/ PumpReturn
             \/ \E t \in Tasks : CompleteTask(t) \/ EnqueueCommandInLane(t)
             \/ \E l \in Lanes, n \in Concurrency : SetCommandLaneConcurrency(l, n)
             \/ \E l \in Lanes : ClearCommandLane(l) \/ ResetDrainsLane(l)
             \/ MarkGatewayDraining \/ WaitForActiveTasks \/ PollActiveTasks
             \/ UNCHANGED vars
    <2>1. UNCHANGED <<taskGeneration, generation>>
      BY <1>3 DEF DrainLane, TaskYields, PumpReturn, CompleteTask,
         EnqueueCommandInLane, SetCommandLaneConcurrency, ClearCommandLane, Rejected,
         ResetDrainsLane, MarkGatewayDraining, WaitForActiveTasks, PollActiveTasks,
         vars, laneVars, taskVars
    <2> QED
      BY <2>1 DEF NoFutureGeneration
  <1> QED
    BY <1>1, <1>2, <1>3 DEF Next, PumpStep

LEMMA SlotsStep ==
    (/\ TypeOK /\ QueuesHoldQueued /\ NoFutureGeneration
     /\ SlotsAreRunningTasks /\ [Next]_vars)
        => SlotsAreRunningTasks'
  <1> SUFFICES ASSUME TypeOK, QueuesHoldQueued, NoFutureGeneration,
                      SlotsAreRunningTasks, [Next]_vars, NEW k \in Lanes
               PROVE  active'[k] = {t \in Tasks : /\ LaneOf[t] = k
                                                  /\ status'[t] = "running"
                                                  /\ taskGeneration'[t] = generation'[k]}
    BY DEF SlotsAreRunningTasks
  <1> USE CommandQueueAssumption
  <1> DEFINE Running == {t \in Tasks : /\ LaneOf[t] = k
                                       /\ status[t] = "running"
                                       /\ taskGeneration[t] = generation[k]}
             RunningNext == {t \in Tasks : /\ LaneOf[t] = k
                                           /\ status'[t] = "running"
                                           /\ taskGeneration'[t] = generation'[k]}
  <1>0. active[k] = Running
    BY DEF SlotsAreRunningTasks
  <1>1. CASE PumpStart
    <2> PICK l \in Lanes : l = Top.lane
      BY <1>1, StackTop DEF TypeOK, PumpStart
    <2> DEFINE t == Head(queue[l])
    <2>1. /\ queue[l] # <<>>
          /\ active' = [active EXCEPT ![l] = @ \cup {t}]
          /\ status' = [status EXCEPT ![t] = "running"]
          /\ taskGeneration' = [taskGeneration EXCEPT ![t] = generation[l]]
          /\ generation' = generation
      BY <1>1 DEF PumpStart
    <2>2. t \in Tasks /\ LaneOf[t] = l
      BY <2>1, HeadIsQueued
    <2>3. active'[k] = IF k = l THEN Running \cup {t} ELSE Running
      BY <1>0, <2>1 DEF TypeOK
    <2>4. ASSUME NEW u \in Tasks
          PROVE  u \in RunningNext <=> u \in (IF k = l THEN Running \cup {t} ELSE Running)
      BY <2>1, <2>2 DEF TypeOK
    <2> QED
      BY <2>2, <2>3, <2>4
  <1>2. ASSUME NEW t \in Tasks, CompleteTask(t)
        PROVE  active'[k] = RunningNext
    <2>1. /\ status' = [status EXCEPT ![t] = "finished"]
          /\ UNCHANGED <<generation, taskGeneration>>
      BY <1>2 DEF CompleteTask
    <2>2. RunningNext = Running \ {t}
      BY <2>1 DEF TypeOK
    <2>3. CASE taskGeneration[t] = generation[LaneOf[t]]
      <3>1. active' = [active EXCEPT ![LaneOf[t]] = @ \ {t}]
        BY <1>2, <2>3 DEF CompleteTask
      <3>2. active'[k] = IF k = LaneOf[t] THEN Running \ {t} ELSE Running
        BY <1>0, <3>1 DEF TypeOK
      <3>3. k # LaneOf[t] => t \notin Running
        OBVIOUS
      <3> QED
        BY <2>2, <3>2, <3>3
    <2>4. CASE taskGeneration[t] # generation[LaneOf[t]]
      <3>1. active' = active
        BY <1>2, <2>4 DEF CompleteTask
      <3>2. t \notin Running
        BY <2>4
      <3> QED
        BY <1>0, <2>2, <3>1, <3>2
    <2> QED
      BY <2>3, <2>4
  <1>3. ASSUME NEW t \in Tasks, EnqueueCommandInLane(t)
        PROVE  active'[k] = RunningNext
    <2>1. /\ status[t] = "new"
          /\ \/ status' = [status EXCEPT ![t] = "refused"]
             \/ status' = [status EXCEPT ![t] = "queued"]
          /\ UNCHANGED <<active, generation, taskGeneration>>
      BY <1>3 DEF EnqueueCommandInLane
    <2>2. RunningNext = Running
      BY <2>1 DEF TypeOK
    <2> QED
      BY <1>0, <2>1, <2>2
  <1>4. ASSUME NEW l \in Lanes, ClearCommandLane(l)
        PROVE  active'[k] = RunningNext
    <2>1. UNCHANGED <<active, generation, taskGeneration>>
      BY <1>4 DEF ClearCommandLane, Rejected
    <2>2. \A i \in DOMAIN queue[l] : status[queue[l][i]] = "queued"
      BY DEF QueuesHoldQueued, HoldsQueued
    <2>3. \A t \in Tasks : status'[t] = "running" <=> status[t] = "running"
      BY <1>4, <2>2 DEF ClearCommandLane, Rejected
    <2> QED
      BY <1>0, <2>1, <2>3
  <1>5. CASE ResetAllLanes
    <2>1. /\ active'[k] = {}
          /\ generation'[k] = generation[k] + 1
          /\ UNCHANGED <<status, taskGeneration>>
      BY <1>5 DEF NextGeneration, ResetAllLanes, taskVars
    <2>2. ASSUME NEW t \in Tasks, LaneOf[t] = k
          PROVE  taskGeneration[t] # generation[k] + 1
      BY <2>2 DEF NoFutureGeneration, TypeOK
    <2> QED
      BY <2>1, <2>2
  <1>6. CASE \/ DrainLane \/ TaskYields \/ PumpReturn
             \/ \E l \in Lanes, n \in Concurrency : SetCommandLaneConcurrency(l, n)
             \/ \E l \in Lanes : ResetDrainsLane(l)
             \/ MarkGatewayDraining \/ WaitForActiveTasks \/ PollActiveTasks
             \/ UNCHANGED vars
    <2>1. UNCHANGED <<active, status, taskGeneration, generation>>
      BY <1>6 DEF DrainLane, TaskYields, PumpReturn, SetCommandLaneConcurrency,
         ResetDrainsLane, MarkGatewayDraining, WaitForActiveTasks,
         PollActiveTasks, vars, laneVars, taskVars
    <2> QED
      BY <1>0, <2>1
  <1> QED
    BY <1>1, <1>2, <1>3, <1>4, <1>5, <1>6 DEF Next, PumpStep

-----------------------------------------------------------------------------
(* The inductive invariant, and what follows from it.                      *)

\* What the slot argument carries from one state to the next.
SlotInv ==
    TypeOK /\ QueuesHoldQueued /\ NoFutureGeneration /\ SlotsAreRunningTasks

LEMMA SlotInvInvariant == Spec => []SlotInv
  <1>1. Init => SlotInv
    BY TypeInit, QueueInit, SlotsInit DEF SlotInv
  <1>2. SlotInv /\ [Next]_vars => SlotInv'
    BY TypeStep, QueueStep, GenerationStep, SlotsStep DEF SlotInv
  <1> QED
    BY <1>1, <1>2, PTL DEF Spec

\* activeTaskIds are at all times the running tasks of the current generation:
\* no history of clears, failures and restarts leaks or double-frees a slot.
THEOREM SlotsNeverLeak == Spec => []SlotsAreRunningTasks
  BY SlotInvInvariant, PTL DEF SlotInv

\* Whatever the nesting of pumps and drains, a task is started only while the
\* lane has fewer running tasks than maxConcurrent.
THEOREM StartsAreBounded == Spec => StartsIntoFreeSlot
  <1>1. SlotInv /\ [Next]_vars
          => [\A l \in Lanes :
                 ~(active'[l] \subseteq active[l]) =>
                    Cardinality(active'[l]) <= maxConcurrent[l]]_vars
    <2> SUFFICES ASSUME SlotInv, [Next]_vars, NEW k \in Lanes,
                        ~(active'[k] \subseteq active[k])
                 PROVE  Cardinality(active'[k]) <= maxConcurrent[k]
      OBVIOUS
    <2> USE DEF SlotInv
    <2>1. active \in [Lanes -> SUBSET Tasks]
      BY DEF TypeOK
    <2>2. CASE PumpStart
      <3> PICK l \in Lanes : l = Top.lane
        BY <2>2, StackTop DEF TypeOK, PumpStart
      <3> DEFINE t == Head(queue[l])
      <3>1. active' = [active EXCEPT ![l] = @ \cup {t}] /\ HasRoom(l)
        BY <2>2 DEF PumpStart
      <3>2. k = l /\ active'[k] = active[k] \cup {t}
        BY <2>1, <3>1
      <3>3. IsFiniteSet(active[k])
        BY <2>1, CommandQueueAssumption, FS_Subset
      <3>4. Cardinality(active[k]) \in Nat
        BY <3>3, FS_CardinalityType
      <3>5. Cardinality(active[k] \cup {t}) =
               IF t \in active[k] THEN Cardinality(active[k])
                                  ELSE Cardinality(active[k]) + 1
        BY <3>3, FS_AddElement
      <3>6. maxConcurrent[k] \in Nat /\ Cardinality(active[k]) < maxConcurrent[k]
        BY <3>1, <3>2 DEF HasRoom, TypeOK
      <3> QED
        BY <3>2, <3>4, <3>5, <3>6
    <2>3. CASE \/ DrainLane \/ TaskYields \/ PumpReturn
               \/ \E t \in Tasks : CompleteTask(t) \/ EnqueueCommandInLane(t)
               \/ \E l \in Lanes, n \in Concurrency : SetCommandLaneConcurrency(l, n)
               \/ \E l \in Lanes : ClearCommandLane(l) \/ ResetDrainsLane(l)
               \/ MarkGatewayDraining \/ ResetAllLanes
               \/ WaitForActiveTasks \/ PollActiveTasks
               \/ UNCHANGED vars
      <3>1. \/ active' = active
            \/ \E t \in Tasks : active' = [active EXCEPT ![LaneOf[t]] = @ \ {t}]
            \/ active' = [l \in Lanes |-> {}]
        BY <2>3 DEF DrainLane, TaskYields, PumpReturn, CompleteTask,
           EnqueueCommandInLane, SetCommandLaneConcurrency, ClearCommandLane, Rejected,
           ResetDrainsLane, MarkGatewayDraining, ResetAllLanes, WaitForActiveTasks,
           PollActiveTasks, vars, laneVars, taskVars
      <3> QED
        BY <2>1, <3>1
    <2> QED
      BY <2>2, <2>3 DEF Next, PumpStep
  <1> QED
    BY <1>1, SlotInvInvariant, PTL DEF Spec, StartsIntoFreeSlot

-----------------------------------------------------------------------------
(* A restart that waits for the running tasks.                             *)

\* What the argument about waitForActiveTasks carries along.
WaitInv == SlotInv /\ SnapshotWasStarted /\ DrainedMeansSettled

LEMMA WaitStep == WaitInv /\ [Next]_vars => WaitInv'
  <1> SUFFICES ASSUME WaitInv, [Next]_vars
               PROVE  WaitInv'
    OBVIOUS
  <1> USE CommandQueueAssumption
  <1>0. /\ TypeOK /\ QueuesHoldQueued /\ NoFutureGeneration /\ SlotsAreRunningTasks
        /\ SnapshotWasStarted /\ DrainedMeansSettled
    BY DEF WaitInv, SlotInv
  <1>1. SlotInv'
    BY <1>0, TypeStep, QueueStep, GenerationStep, SlotsStep DEF SlotInv
  <1>a. activeAtStart \subseteq Tasks /\ status \in [Tasks -> Status]
    BY <1>0 DEF TypeOK
  \* It is enough that a started task stays started, a finished one finished,
  \* and one left behind by a restart left behind.
  <1>b. ASSUME UNCHANGED <<waiter, activeAtStart>>,
               \A t \in Tasks :
                  /\ status[t] \in {"running", "finished"}
                        => status'[t] \in {"running", "finished"}
                  /\ status[t] = "finished" => status'[t] = "finished"
                  /\ (/\ status[t] \in {"running", "finished"}
                      /\ taskGeneration[t] < generation[LaneOf[t]])
                        => taskGeneration'[t] < generation'[LaneOf[t]]
        PROVE  (SnapshotWasStarted /\ DrainedMeansSettled)'
    BY <1>0, <1>a, <1>b DEF SnapshotWasStarted, DrainedMeansSettled
  <1>2. CASE PumpStart
    <2> PICK l \in Lanes : l = Top.lane
      BY <1>0, <1>2, StackTop DEF TypeOK, PumpStart
    <2> DEFINE h == Head(queue[l])
    <2>1. /\ queue[l] # <<>>
          /\ status' = [status EXCEPT ![h] = "running"]
          /\ taskGeneration' = [taskGeneration EXCEPT ![h] = generation[l]]
          /\ UNCHANGED <<generation, waiter, activeAtStart>>
      BY <1>2 DEF PumpStart, waitVars
    <2>2. h \in Tasks /\ status[h] = "queued"
      BY <1>0, <2>1, HeadIsQueued
    <2>3. \A t \in Tasks \ {h} :
             status'[t] = status[t] /\ taskGeneration'[t] = taskGeneration[t]
      BY <1>0, <2>1 DEF TypeOK
    <2> HIDE DEF h
    <2>4. (SnapshotWasStarted /\ DrainedMeansSettled)'
      BY <1>b, <2>1, <2>2, <2>3
    <2> QED
      BY <1>1, <2>4 DEF WaitInv
  <1>3. ASSUME NEW u \in Tasks, CompleteTask(u) \/ EnqueueCommandInLane(u)
        PROVE  WaitInv'
    <2>1. /\ UNCHANGED <<taskGeneration, generation, waiter, activeAtStart>>
          /\ \/ status[u] = "running" /\ status' = [status EXCEPT ![u] = "finished"]
             \/ status[u] = "new" /\ status' = [status EXCEPT ![u] = "refused"]
             \/ status[u] = "new" /\ status' = [status EXCEPT ![u] = "queued"]
      BY <1>3 DEF CompleteTask, EnqueueCommandInLane, waitVars
    <2>2. (SnapshotWasStarted /\ DrainedMeansSettled)'
      BY <1>a, <1>b, <2>1
    <2> QED
      BY <1>1, <2>2 DEF WaitInv
  <1>4. ASSUME NEW l \in Lanes, ClearCommandLane(l)
        PROVE  WaitInv'
    <2>1. UNCHANGED <<taskGeneration, generation, waiter, activeAtStart>>
      BY <1>4 DEF ClearCommandLane, Rejected, waitVars
    <2>2. \A i \in DOMAIN queue[l] : status[queue[l][i]] = "queued"
      BY <1>0 DEF QueuesHoldQueued, HoldsQueued
    <2>3. \A t \in Tasks : status[t] # "queued" => status'[t] = status[t]
      BY <1>4, <2>2 DEF ClearCommandLane, Rejected
    <2>4. (SnapshotWasStarted /\ DrainedMeansSettled)'
      BY <1>b, <2>1, <2>3
    <2> QED
      BY <1>1, <2>4 DEF WaitInv
  <1>5. CASE ResetAllLanes
    <2>1. /\ generation' = [l \in Lanes |-> generation[l] + 1]
          /\ UNCHANGED <<status, taskGeneration, waiter, activeAtStart>>
      BY <1>5 DEF NextGeneration, ResetAllLanes, taskVars, waitVars
    <2>2. \A t \in Tasks : /\ generation'[LaneOf[t]] = generation[LaneOf[t]] + 1
                           /\ generation[LaneOf[t]] \in Nat
                           /\ taskGeneration[t] \in Nat
      BY <1>0, <2>1 DEF TypeOK
    <2>3. \A t \in Tasks : taskGeneration[t] < generation[LaneOf[t]]
                              => taskGeneration'[t] < generation'[LaneOf[t]]
      BY <2>1, <2>2
    <2>4. (SnapshotWasStarted /\ DrainedMeansSettled)'
      BY <1>b, <2>1, <2>3
    <2> QED
      BY <1>1, <2>4 DEF WaitInv
  <1>6. CASE WaitForActiveTasks
    <2>1. /\ waiter' = "drained" => activeAtStart' = {}
          /\ activeAtStart' = UNION {active[l] : l \in Lanes}
          /\ UNCHANGED status
      BY <1>6 DEF WaitForActiveTasks, taskVars
    <2>2. \A t \in activeAtStart' : status[t] = "running"
      BY <1>0, <2>1 DEF SlotsAreRunningTasks
    <2> QED
      BY <1>1, <2>1, <2>2 DEF WaitInv, SnapshotWasStarted, DrainedMeansSettled
  <1>7. CASE PollActiveTasks
    <2>1. UNCHANGED <<active, status, taskGeneration, generation, activeAtStart>>
      BY <1>7 DEF PollActiveTasks, laneVars, taskVars
    <2>2. CASE \A l \in Lanes : active[l] \cap activeAtStart = {}
      <3>1. ASSUME NEW t \in activeAtStart
            PROVE  status[t] = "finished" \/ taskGeneration[t] < generation[LaneOf[t]]
        <4>1. t \in Tasks /\ LaneOf[t] \in Lanes /\ t \notin active[LaneOf[t]]
          BY <1>a, <2>2, <3>1
        <4>2. status[t] = "finished" \/ taskGeneration[t] # generation[LaneOf[t]]
          BY <1>0, <4>1 DEF SlotsAreRunningTasks, SnapshotWasStarted
        <4>3. /\ taskGeneration[t] \in Nat /\ generation[LaneOf[t]] \in Nat
              /\ taskGeneration[t] <= generation[LaneOf[t]]
          BY <1>0, <4>1 DEF TypeOK, NoFutureGeneration
        <4> QED
          BY <4>2, <4>3
      <3> QED
        BY <1>0, <1>1, <2>1, <3>1 DEF WaitInv, SnapshotWasStarted, DrainedMeansSettled
    <2>3. CASE ~ \A l \in Lanes : active[l] \cap activeAtStart = {}
      <3>1. waiter' # "drained"
        BY <1>7, <2>3 DEF StillActive, PollActiveTasks
      <3> QED
        BY <1>0, <1>1, <2>1, <3>1 DEF WaitInv, SnapshotWasStarted, DrainedMeansSettled
    <2> QED
      BY <2>2, <2>3
  <1>8. CASE \/ DrainLane \/ TaskYields \/ PumpReturn
             \/ \E l \in Lanes, n \in Concurrency : SetCommandLaneConcurrency(l, n)
             \/ \E l \in Lanes : ResetDrainsLane(l)
             \/ MarkGatewayDraining
             \/ UNCHANGED vars
    <2>1. UNCHANGED <<status, taskGeneration, generation, waiter, activeAtStart>>
      BY <1>8 DEF DrainLane, TaskYields, PumpReturn, SetCommandLaneConcurrency,
         ResetDrainsLane, MarkGatewayDraining, vars, laneVars, taskVars, waitVars
    <2>2. (SnapshotWasStarted /\ DrainedMeansSettled)'
      BY <1>b, <2>1
    <2> QED
      BY <1>1, <2>2 DEF WaitInv
  <1> QED
    BY <1>2, <1>3, <1>4, <1>5, <1>6, <1>7, <1>8 DEF Next, PumpStep

\* waitForActiveTasks reports drained only after every task it set out to wait
\* for has settled or has been given up by a restart.
THEOREM DrainedIsHonest == Spec => []DrainedMeansSettled
  <1>1. Init => WaitInv
    BY TypeInit, QueueInit, SlotsInit
       DEF Init, WaitInv, SlotInv, SnapshotWasStarted, DrainedMeansSettled
  <1>2. WaitInv => DrainedMeansSettled
    BY DEF WaitInv
  <1> QED
    BY <1>1, <1>2, WaitStep, PTL DEF Spec

-----------------------------------------------------------------------------
(* The queue implements the lane scheduler.                                *)

LEMMA RefineInit == Init => LS!Init
  BY DEF Init, LS!Init

LEMMA RefineStep == SlotInv /\ [Next]_vars => [LS!Next]_LS!vars
  <1> SUFFICES ASSUME SlotInv, [Next]_vars
               PROVE  LS!Next \/ UNCHANGED LS!vars
    OBVIOUS
  <1> USE CommandQueueAssumption
  <1>0. TypeOK /\ QueuesHoldQueued /\ SlotsAreRunningTasks
    BY DEF SlotInv
  <1>1. CASE PumpStart
    <2> PICK l \in Lanes : l = Top.lane
      BY <1>0, <1>1, StackTop DEF TypeOK, PumpStart
    <2>1. /\ queue[l] # <<>> /\ HasRoom(l)
          /\ queue' = [queue EXCEPT ![l] = Tail(@)]
          /\ active' = [active EXCEPT ![l] = @ \cup {Head(queue[l])}]
          /\ status' = [status EXCEPT ![Head(queue[l])] = "running"]
          /\ UNCHANGED maxConcurrent
      BY <1>1 DEF PumpStart
    <2>2. status[Head(queue[l])] = "queued"
      BY <1>0, <2>1, HeadIsQueued
    <2>3. LS!Start(l)
      <3>1. active' = [active EXCEPT ![l] = active[l] \cup {Head(queue[l])}]
        BY <2>1
      <3>2. queue' = [queue EXCEPT ![l] = Tail(queue[l])]
        BY <2>1
      <3>3. LS!Cardinality(active[l]) = Cardinality(active[l])
        BY Zenon DEF LS!Cardinality, Cardinality, LS!IsFiniteSet, IsFiniteSet
      <3> QED
        BY <2>1, <2>2, <3>1, <3>2, <3>3, Zenon DEF LS!Start, HasRoom
    <2> QED
      BY <2>3 DEF LS!Next
  <1>2. ASSUME NEW t \in Tasks, CompleteTask(t)
        PROVE  LS!Next
    <2>1. /\ status[t] = "running"
          /\ status' = [status EXCEPT ![t] = "finished"]
          /\ UNCHANGED <<queue, maxConcurrent>>
      BY <1>2 DEF CompleteTask
    <2>2. active' = [active EXCEPT ![LaneOf[t]] = @ \ {t}]
      <3>1. CASE taskGeneration[t] = generation[LaneOf[t]]
        BY <1>2, <3>1 DEF CompleteTask
      <3>2. CASE taskGeneration[t] # generation[LaneOf[t]]
        <4>1. active' = active
          BY <1>2, <3>2 DEF CompleteTask
        <4>2. LaneOf[t] \in Lanes /\ t \notin active[LaneOf[t]]
          BY <1>0, <3>2 DEF SlotsAreRunningTasks
        <4>3. active[LaneOf[t]] \ {t} = active[LaneOf[t]]
          BY <4>2
        <4> QED
          BY <1>0, <4>1, <4>2, <4>3 DEF TypeOK
      <3> QED
        BY <3>1, <3>2
    <2>3. LS!Finish(t)
      BY <2>1, <2>2 DEF LS!Finish
    <2> QED
      BY <2>3 DEF LS!Next
  <1>3. ASSUME NEW t \in Tasks, EnqueueCommandInLane(t)
        PROVE  LS!Next
    <2>1. CASE gatewayDraining
      BY <1>3, <2>1 DEF EnqueueCommandInLane, LS!Next, LS!Refuse, LS!laneVars
    <2>2. CASE ~gatewayDraining
      BY <1>3, <2>2 DEF BehindAll, EnqueueCommandInLane, LS!Next, LS!Submit
    <2> QED
      BY <2>1, <2>2
  <1>4. ASSUME NEW l \in Lanes, ClearCommandLane(l)
        PROVE  LS!Next
    BY <1>4 DEF ClearCommandLane, Rejected, LS!Next, LS!Cancel
  <1>5. ASSUME NEW l \in Lanes, NEW n \in Concurrency,
               SetCommandLaneConcurrency(l, n)
        PROVE  LS!Next
    BY <1>5 DEF SetCommandLaneConcurrency, LS!Next, LS!Resize, taskVars
  <1>6. CASE ResetAllLanes
    BY <1>6 DEF ResetAllLanes, LS!Next, LS!Restart, taskVars
  <1>7. CASE \/ DrainLane \/ TaskYields \/ PumpReturn
             \/ \E l \in Lanes : ResetDrainsLane(l)
             \/ MarkGatewayDraining \/ WaitForActiveTasks \/ PollActiveTasks
             \/ UNCHANGED vars
    BY <1>7 DEF DrainLane, TaskYields, PumpReturn, ResetDrainsLane,
       MarkGatewayDraining, WaitForActiveTasks, PollActiveTasks, vars, laneVars,
       taskVars, LS!vars, LS!laneVars
  <1> QED
    BY <1>1, <1>2, <1>3, <1>4, <1>5, <1>6, <1>7 DEF Next, PumpStep

\* Seen by its callers, the re-entrant pump with its flags and generations is a
\* first-in first-out server with a bounded number of slots per lane.
THEOREM QueueImplementsScheduler == Spec => ImplementsLaneScheduler
  BY RefineInit, RefineStep, SlotInvInvariant, PTL
     DEF Spec, ImplementsLaneScheduler, LS!Spec

-----------------------------------------------------------------------------
(* The follow-up queue. *)

\* A sequence of messages in the order in which they were accepted.
Ascending(s, ear) == \A i, j \in 1..Len(s) : i < j => <<s[i], s[j]>> \in ear

\* What holds of a queue object q until a stop, when acc are the accepted messages in
\* the order ear, and pre were presented.
Orderly(q, acc, ear, pre) ==
    /\ Range(q.items) \subseteq acc /\ Range(q.batch) \subseteq acc
    /\ Ascending(q.items, ear)
    /\ q.pc # "turn" => q.batch = <<>> /\ Range(q.items) \cap pre = {}
    /\ \A i \in 1..Len(q.items) :
          q.items[i] \in pre => i <= TakenOut(q) /\ q.items[i] \in Range(q.batch)
    /\ \A m \in Range(q.batch) \cap pre, n \in Range(q.items) \ Range(q.batch) :
          <<m, n>> \in ear

\* Until a stop the map's object is the only one, and the others are unused.
Sole == \A o \in Objects \ {current} : queues[o] = Garbage

\* No message was accepted before itself, hence none stands twice in an ascending queue.
Irreflexive(ear) == \A m \in Msgs : <<m, m>> \notin ear

\* The inductive invariant behind InArrivalOrder and PresentedOnce.
Order ==
    ~stopped =>
        /\ Sole /\ Irreflexive(earlier)
        /\ \A o \in Objects : Orderly(queues[o], accepted, earlier, presented)

\* With the policy new, what a turn was started with stays at the front.
Unshed(q, pre) ==
    /\ q.drop = "new" /\ q.dropped = {}
    /\ q.pc = "turn" =>
         /\ q.kind \in {"single", "collect"}
         /\ TakenOut(q) <= Len(q.items)
         /\ Range(q.batch) \subseteq Range(q.items)
         /\ \A i \in 1..TakenOut(q) : q.items[i] \in pre

\* The inductive invariant behind NothingVanishesUnstopped, for the policy new.
Kept ==
    ~stopped =>
        /\ \A o \in Objects : Unshed(queues[o], presented)
        /\ NothingVanishes

-----------------------------------------------------------------------------
(* Queue objects. *)

LEMMA Suffix ==
    ASSUME NEW S, NEW s \in Seq(S), NEW n \in Nat, NEW t, t = SubSeq(s, n + 1, Len(s))
    PROVE  /\ t \in Seq(S) /\ Len(t) \in Nat
           /\ Len(t) = IF n <= Len(s) THEN Len(s) - n ELSE 0
           /\ \A i \in 1..Len(t) : t[i] = s[i + n] /\ i + n \in 1..Len(s)
  OBVIOUS

LEMMA Prefix ==
    ASSUME NEW S, NEW s \in Seq(S), NEW n \in Nat, n <= Len(s), NEW t, t = SubSeq(s, 1, n)
    PROVE  /\ t \in Seq(S)
           /\ Len(t) = n
           /\ \A i \in 1..Len(t) : t[i] = s[i] /\ i \in 1..Len(s)
  OBVIOUS

LEMMA GarbageState == Garbage \in QueueState
  BY DEF Garbage, QueueState

LEMMA WaitingState ==
    ASSUME NEW q \in QueueState
    PROVE  /\ Waiting(q) \in QueueState
           /\ Waiting(q).draining /\ Waiting(q).pc = "waiting" /\ Waiting(q).batch = <<>>
           /\ Waiting(q).items = q.items /\ Waiting(q).drop = q.drop
           /\ Waiting(q).dropped = q.dropped
  <1>1. Waiting(q) \in QueueState
    <2>1. <<>> \in Seq(Msgs) /\ {} \in SUBSET Msgs
      OBVIOUS
    <2> QED
      BY <2>1 DEF Waiting, QueueState
  <1> QED
    BY <1>1 DEF Waiting, QueueState

LEMMA StoppedState ==
    ASSUME NEW q \in QueueState
    PROVE  /\ Stopped(q) \in QueueState
           /\ ~Stopped(q).draining /\ Stopped(q).pc = "idle" /\ Stopped(q).batch = <<>>
           /\ Stopped(q).items = q.items /\ Stopped(q).drop = q.drop
           /\ Stopped(q).dropped = q.dropped
  <1>1. Stopped(q) \in QueueState
    <2>1. <<>> \in Seq(Msgs) /\ {} \in SUBSET Msgs
      OBVIOUS
    <2> QED
      BY <2>1 DEF Stopped, QueueState
  <1> QED
    BY <1>1 DEF Stopped, QueueState

LEMMA SettingsState ==
    ASSUME NEW q \in QueueState, NEW s \in Settings
    PROVE  /\ WithSettings(q, s) \in QueueState
           /\ WithSettings(q, s).drop = s.drop
           /\ \A f \in {"items", "dropped", "draining", "hasRun", "pc", "force", "batch",
                        "summary", "kind"} : WithSettings(q, s)[f] = q[f]
  BY FollowupQueueAssumption DEF WithSettings, QueueState

LEMMA EnqueuedState ==
    ASSUME NEW q \in QueueState, NEW m \in Msgs
    PROVE  /\ Enqueued(q, m) \in QueueState
           /\ Enqueued(q, m).items = Pushed(q, m)
           /\ \A f \in {"draining", "pc", "batch", "kind", "drop", "mode"} :
                 Enqueued(q, m)[f] = q[f]
  <1> DEFINE k == IF OverCap(q) /\ q.drop # "new" THEN Len(q.items) - q.cap + 1 ELSE 0
  <1>1. q.items \in Seq(Msgs) /\ q.cap \in Nat \ {0} /\ q.dropped \in SUBSET Msgs
    BY DEF QueueState
  <1>2. k \in Nat /\ k <= Len(q.items)
    BY <1>1 DEF OverCap
  <1>3. Overflow(q) \in Seq(Msgs) /\ Len(Overflow(q)) = k
    <2>1. CASE k = 0
      BY <1>1, <2>1 DEF Overflow, OverCap
    <2>2. CASE k # 0
      <3>1. Overflow(q) = SubSeq(q.items, 1, k)
        BY <2>2 DEF Overflow
      <3> HIDE DEF k
      <3> QED
        BY <1>1, <1>2, <3>1, Prefix
    <2> QED
      BY <2>1, <2>2
  <1> HIDE DEF k
  <1>4. Pushed(q, m) \in Seq(Msgs)
    BY <1>1, <1>2, <1>3, Suffix DEF Pushed
  <1>5. q.dropped \cup Range(Overflow(q)) \in SUBSET Msgs
    BY <1>1, <1>3 DEF Range
  <1> QED
    BY <1>4, <1>5 DEF Enqueued, QueueState

LEMMA AfterTurnState ==
    ASSUME NEW q \in QueueState
    PROVE  /\ AfterTurn(q) \in QueueState /\ TakenOut(q) \in Nat
           /\ AfterTurn(q).items = SubSeq(q.items, TakenOut(q) + 1, Len(q.items))
           /\ AfterTurn(q).drop = q.drop /\ AfterTurn(q).dropped \subseteq q.dropped
           /\ AfterTurn(q).pc = q.pc /\ AfterTurn(q).draining = q.draining
  <1>1. q.items \in Seq(Msgs) /\ q.batch \in Seq(Msgs) /\ {} \in SUBSET Msgs
    BY DEF QueueState
  <1>2. TakenOut(q) \in Nat
    BY <1>1 DEF TakenOut
  <1>3. SubSeq(q.items, TakenOut(q) + 1, Len(q.items)) \in Seq(Msgs)
    BY <1>1, <1>2, Suffix
  <1> QED
    BY <1>1, <1>2, <1>3 DEF AfterTurn, QueueState

-----------------------------------------------------------------------------
(* The map and its objects. *)

Tied(q) == q.draining <=> q.pc # "idle"

\* What FollowupTypeOK says of objects qs of which the map holds cur.
MapOK(qs, cur) ==
    /\ qs \in [Objects -> QueueState]
    /\ cur \in Objects \cup {NoQueue}
    /\ \A o \in Objects : Tied(qs[o])
    /\ \A o \in Objects \ {cur} : qs[o].pc = "idle" => qs[o] = Garbage

LEMMA LiveIsOK ==
    ASSUME NEW qs \in [Objects -> QueueState], \A o \in Objects : Tied(qs[o]),
           NEW cur \in Objects \cup {NoQueue}
    PROVE  MapOK(Live(qs, cur), cur)
  <1>1. ASSUME NEW o \in Objects
        PROVE  /\ Live(qs, cur)[o] \in QueueState /\ Tied(Live(qs, cur)[o])
               /\ o # cur /\ Live(qs, cur)[o].pc = "idle" => Live(qs, cur)[o] = Garbage
    <2>1. CASE o = cur \/ qs[o].draining
      <3>1. Live(qs, cur)[o] = qs[o]
        BY <2>1 DEF Live
      <3> QED
        BY <2>1, <3>1 DEF Tied
    <2>2. CASE ~(o = cur \/ qs[o].draining)
      <3>1. Live(qs, cur)[o] = Garbage
        BY <2>2 DEF Live
      <3> QED
        BY <3>1, GarbageState DEF Tied, Garbage
    <2> QED
      BY <2>1, <2>2
  <1>2. Live(qs, cur) \in [Objects -> QueueState]
    BY <1>1 DEF Live
  <1> QED
    BY <1>1, <1>2 DEF MapOK

LEMMA ScheduleIsOK ==
    ASSUME NEW qs \in [Objects -> QueueState], \A o \in Objects : Tied(qs[o]),
           current \in Objects \cup {NoQueue}, callback \in BOOLEAN,
           ScheduleFollowupDrain(qs)
    PROVE  MapOK(queues', current') /\ callback' \in BOOLEAN
  <1>1. CASE current = NoQueue \/ qs[current].draining
    BY <1>1, LiveIsOK DEF ScheduleFollowupDrain
  <1>2. CASE ~(current = NoQueue \/ qs[current].draining)
    <2> DEFINE rs == [qs EXCEPT ![current] = IF HasWork(@) THEN Waiting(@) ELSE @]
    <2>1. current \in Objects /\ callback' = TRUE /\ current' \in Objects \cup {NoQueue}
          /\ queues' = Live(rs, current')
      BY <1>2 DEF ScheduleFollowupDrain
    <2>2. rs \in [Objects -> QueueState] /\ \A o \in Objects : Tied(rs[o])
      BY <2>1, WaitingState DEF Tied
    <2> QED
      BY <2>1, <2>2, LiveIsOK
  <1> QED
    BY <1>1, <1>2

LEMMA EndDrainIsOK ==
    ASSUME MapOK(queues, current), callback \in BOOLEAN,
           NEW o \in Objects, NEW q \in QueueState, EndDrain(o, q)
    PROVE  MapOK(queues', current') /\ callback' \in BOOLEAN
  <1> DEFINE qs == [queues EXCEPT ![o] = Stopped(q)]
  <1>1. qs \in [Objects -> QueueState] /\ \A x \in Objects : Tied(qs[x])
    BY StoppedState DEF MapOK, Tied
  <1>2. CASE HasWork(q)
    <2>1. ScheduleFollowupDrain(qs)
      BY <1>2 DEF EndDrain
    <2> QED
      BY <1>1, <2>1, ScheduleIsOK DEF MapOK
  <1>3. CASE ~HasWork(q)
    BY <1>1, <1>3, LiveIsOK DEF EndDrain
  <1> QED
    BY <1>2, <1>3

-----------------------------------------------------------------------------
(* Types. *)

\* What FollowupTypeOK says of everything but the map.
RestTyped ==
    /\ recent \subseteq Msgs
    /\ phase \in [Msgs -> {"away", "running", "toQueue", "done"}]
    /\ accepted \subseteq Msgs /\ earlier \subseteq accepted \X accepted
    /\ presented \cup reported \cup shed \subseteq Msgs
    /\ stopped \in BOOLEAN

LEMMA TypeParts == FollowupTypeOK <=> MapOK(queues, current) /\ callback \in BOOLEAN /\ RestTyped
  BY DEF FollowupTypeOK, MapOK, RestTyped, Tied

LEMMA StartTurnIsOK ==
    ASSUME FollowupTypeOK, NEW o \in Objects, NEW q \in QueueState, q.draining,
           NEW kind \in {"single", "collect", "summary"},
           NEW batch \in Seq(Msgs), NEW summary \in SUBSET q.dropped,
           StartTurn(o, q, kind, batch, summary)
    PROVE  /\ MapOK(queues', current') /\ callback' \in BOOLEAN
           /\ presented' \cup reported' \subseteq Msgs
  <1> DEFINE r == [q EXCEPT !.pc = "turn", !.kind = kind, !.batch = batch, !.summary = summary]
  <1>1. summary \in SUBSET Msgs
    BY DEF QueueState
  <1>2. r \in QueueState /\ Tied(r)
    BY <1>1 DEF QueueState, Tied
  <1>3. queues' = [queues EXCEPT ![o] = r] /\ UNCHANGED <<current, callback>>
    BY DEF StartTurn
  <1>4. r.pc = "turn"
    BY DEF QueueState
  <1> HIDE DEF r
  <1>5. MapOK(queues', current') /\ callback' \in BOOLEAN
    BY <1>2, <1>3, <1>4, TypeParts DEF MapOK
  <1>6. presented' \cup reported' \subseteq Msgs
    <2>1. Range(batch) \subseteq Msgs
      BY DEF Range
    <2> QED
      BY <1>1, <2>1 DEF StartTurn, FollowupTypeOK
  <1> QED
    BY <1>5, <1>6

\* The drain of object o gives up with the state q, or starts a turn: with the items, or
\* the first of them.
Debounced(o, q) ==
    /\ \A f \in {"items", "dropped", "draining", "pc", "batch", "drop", "hasRun"} :
          q[f] = queues[o][f]
    /\ \/ BreakDrain(o, q)
       \/ \E kind \in {"single", "summary"}, summary \in SUBSET q.dropped :
             /\ q.items # <<>>
             /\ StartTurn(o, q, kind, SubSeq(q.items, 1, 1), summary)
             /\ kind = "summary" => summary # {}
       \/ \E summary \in SUBSET q.dropped :
             StartTurn(o, q, "collect", q.items, summary)

LEMMA DebounceCases ==
    ASSUME FollowupTypeOK, NEW o \in Objects, DebounceElapses(o)
    PROVE  \E q \in QueueState : Debounced(o, q)
  <1> DEFINE q == [queues[o] EXCEPT !.force = @ \/ IsCrossChannel(queues[o])]
  <1>1. queues[o] \in QueueState
    BY DEF FollowupTypeOK
  <1>2. q \in QueueState
    <2>1. (queues[o].force \/ IsCrossChannel(queues[o])) \in BOOLEAN
      BY DEF IsCrossChannel
    <2> QED
      BY <1>1, <2>1 DEF QueueState
  <1>3. \A f \in {"items", "dropped", "draining", "pc", "batch", "drop", "hasRun"} :
           q[f] = queues[o][f]
    BY <1>1 DEF QueueState
  <1>4. Summary(q) \in SUBSET q.dropped /\ Summary(queues[o]) \in SUBSET queues[o].dropped
    BY DEF Summary
  <1>5. CASE queues[o].mode = "collect"
    <2>1. CollectStep(o)
      BY <1>5 DEF DebounceElapses
    <2>2. \/ BreakDrain(o, q)
          \/ q.items # <<>> /\ StartTurn(o, q, "single", SubSeq(q.items, 1, 1), {})
          \/ StartTurn(o, q, "collect", q.items, Summary(q))
      BY <2>1 DEF CollectStep
    <2> QED
      BY <1>2, <1>3, <1>4, <2>2 DEF Debounced
  <1>6. CASE queues[o].mode # "collect"
    <2>1. SingleStep(o)
      BY <1>6 DEF DebounceElapses
    <2> DEFINE r == queues[o]
    <2>2. \/ BreakDrain(o, r)
          \/ /\ r.items # <<>>
             /\ StartTurn(o, r, "single", SubSeq(r.items, 1, 1), {})
          \/ /\ r.items # <<>> /\ Summary(r) # {}
             /\ StartTurn(o, r, "summary", SubSeq(r.items, 1, 1), Summary(r))
      BY <2>1 DEF SingleStep
    <2> QED
      BY <1>1, <1>4, <2>2 DEF Debounced
  <1> QED
    BY <1>5, <1>6

LEMMA EnqueueCases ==
    ASSUME FollowupTypeOK, NEW m \in Msgs, NEW o \in Objects, NEW s \in Settings,
           EnqueueFollowupRun(m, o, s)
    PROVE  LET q == WithSettings(queues[o], s)
           IN /\ current' = o
              /\ \/ UNCHANGED history /\ queues' = [queues EXCEPT ![o] = q]
                 \/ /\ UNCHANGED history
                    /\ queues' = [queues EXCEPT ![o] = [q EXCEPT !.hasRun = TRUE]]
                 \/ /\ m \notin Range(q.items) /\ (OverCap(q) => q.drop # "new")
                    /\ accepted' = accepted \cup {m} /\ earlier' = AcceptedLast(m)
                    /\ presented' = presented \ {m} /\ reported' = reported \ {m}
                    /\ shed' = (shed \ {m}) \cup Range(Overflow(q)) /\ stopped' = stopped
                    /\ \/ queues' = [queues EXCEPT ![o] = Enqueued(q, m)]
                       \/ ~q.draining /\ queues' = [queues EXCEPT ![o] = Waiting(Enqueued(q, m))]
  BY DEF EnqueueFollowupRun, IsRunAlreadyQueued, history

LEMMA EnqueueIsOK ==
    ASSUME FollowupTypeOK, NEW m \in Msgs, NEW o \in Objects, NEW s \in Settings,
           EnqueueFollowupRun(m, o, s)
    PROVE  FollowupTypeOK'
  <1> DEFINE q == WithSettings(queues[o], s)
  <1>1. MapOK(queues, current) /\ callback \in BOOLEAN /\ RestTyped
    BY TypeParts
  <1>2. queues[o] \in QueueState /\ q \in QueueState
        /\ q.draining = queues[o].draining /\ q.pc = queues[o].pc
    BY <1>1, SettingsState DEF MapOK
  <1>3. Tied(q)
    BY <1>1, <1>2 DEF MapOK, Tied
  <1>4. \A x \in Objects \ {o} : queues[x].pc = "idle" => queues[x] = Garbage
    BY <1>1, FollowupQueueAssumption DEF EnqueueFollowupRun, MapOK
  <1>5. \A r \in QueueState : Tied(r) /\ queues' = [queues EXCEPT ![o] = r] => MapOK(queues', o)
    BY <1>1, <1>4 DEF MapOK
  <1>6. Enqueued(q, m) \in QueueState /\ Tied(Enqueued(q, m))
    BY <1>2, <1>3, EnqueuedState DEF Tied
  <1>7. Waiting(Enqueued(q, m)) \in QueueState /\ Tied(Waiting(Enqueued(q, m)))
    BY <1>6, WaitingState DEF Tied
  <1>8. [q EXCEPT !.hasRun = TRUE] \in QueueState /\ Tied([q EXCEPT !.hasRun = TRUE])
    BY <1>2, <1>3 DEF QueueState, Tied
  <1>9. MapOK(queues', o)
    BY <1>2, <1>3, <1>5, <1>6, <1>7, <1>8, EnqueueCases
  <1>10. callback' = callback /\ current' = o
    BY DEF EnqueueFollowupRun, history
  <1>11. recent' \subseteq Msgs /\ phase' \in [Msgs -> {"away", "running", "toQueue", "done"}]
    BY <1>1 DEF EnqueueFollowupRun, RestTyped, history
  <1>12. Range(Overflow(q)) \subseteq Msgs
    <2>1. q.items \in Seq(Msgs) /\ q.cap \in Nat \ {0}
      BY <1>2 DEF QueueState
    <2>2. Overflow(q) \in Seq(Msgs)
      BY <2>1, Prefix DEF Overflow, OverCap
    <2> QED
      BY <2>2 DEF Range
  <1>13. /\ accepted' \subseteq Msgs /\ earlier' \subseteq accepted' \X accepted'
         /\ presented' \cup reported' \cup shed' \subseteq Msgs /\ stopped' \in BOOLEAN
    BY <1>1, <1>12, EnqueueCases DEF RestTyped, AcceptedLast, history
  <1> QED
    BY <1>1, <1>9, <1>10, <1>11, <1>13, TypeParts DEF FollowupTypeOK, MapOK, Tied

LEMMA FollowupTypeStep == FollowupTypeOK /\ [FollowupNext]_followupVars => FollowupTypeOK'
  <1> SUFFICES ASSUME FollowupTypeOK, [FollowupNext]_followupVars PROVE FollowupTypeOK'
    OBVIOUS
  <1>0. MapOK(queues, current) /\ callback \in BOOLEAN /\ RestTyped
    BY TypeParts
  <1>q. (MapOK(queues', current') /\ callback' \in BOOLEAN /\ RestTyped') => FollowupTypeOK'
    BY DEF FollowupTypeOK, MapOK, RestTyped, Tied
  <1>o. ASSUME NEW o \in Objects PROVE queues[o] \in QueueState /\ Tied(queues[o])
    BY <1>0 DEF MapOK
  <1>1. ASSUME NEW o \in Objects, DebounceElapses(o) PROVE FollowupTypeOK'
    <2>1. PICK q \in QueueState : Debounced(o, q)
      BY <1>1, DebounceCases
    <2> USE DEF Debounced
    <2>2. q.draining
      BY <1>1, <1>o, <2>1 DEF DebounceElapses, Tied
    <2>3. q.items \in Seq(Msgs) /\ (q.items # <<>> => SubSeq(q.items, 1, 1) \in Seq(Msgs))
      BY Prefix DEF QueueState
    <2>4. /\ MapOK(queues', current') /\ callback' \in BOOLEAN
          /\ presented' \cup reported' \subseteq Msgs
      <3>1. CASE BreakDrain(o, q)
        BY <1>0, <3>1, EndDrainIsOK DEF BreakDrain, RestTyped
      <3>2. CASE ~BreakDrain(o, q)
        <4>1. CASE \E kind \in {"single", "summary"}, summary \in SUBSET q.dropped :
                      /\ q.items # <<>>
                      /\ StartTurn(o, q, kind, SubSeq(q.items, 1, 1), summary)
          BY <2>2, <2>3, <4>1, StartTurnIsOK
        <4>2. CASE \E summary \in SUBSET q.dropped : StartTurn(o, q, "collect", q.items, summary)
          BY <2>2, <2>3, <4>2, StartTurnIsOK
        <4> QED
          BY <2>1, <3>2, <4>1, <4>2
      <3> QED
        BY <3>1, <3>2
    <2> QED
      BY <1>0, <1>1, <1>q, <2>4 DEF DebounceElapses, RestTyped
  <1>2. ASSUME NEW o \in Objects, TurnEnds(o) PROVE FollowupTypeOK'
    <2> DEFINE q == AfterTurn(queues[o])
    <2>1. q \in QueueState /\ Tied(Waiting(q)) /\ Waiting(q) \in QueueState
          /\ Waiting(q).pc # "idle"
      BY <1>o, AfterTurnState, WaitingState DEF Tied
    <2>2. MapOK(queues', current') /\ callback' \in BOOLEAN
      <3>1. CASE HasWork(q)
        <4>1. queues' = [queues EXCEPT ![o] = Waiting(q)] /\ UNCHANGED <<current, callback>>
          BY <1>2, <3>1 DEF TurnEnds, ContinueDrain
        <4> HIDE DEF q
        <4> QED
          BY <1>0, <2>1, <4>1 DEF MapOK
      <3>2. CASE ~HasWork(q)
        BY <1>0, <1>2, <2>1, <3>2, EndDrainIsOK DEF TurnEnds, ContinueDrain
      <3> QED
        BY <3>1, <3>2
    <2> QED
      BY <1>0, <1>2, <1>q, <2>2 DEF TurnEnds, RestTyped, history
  <1>3. ASSUME NEW o \in Objects, TurnFails(o) PROVE FollowupTypeOK'
    BY <1>0, <1>3, <1>o, <1>q, EndDrainIsOK DEF TurnFails, RestTyped
  <1>4. ASSUME NEW m \in Msgs, RunEnds(m) PROVE FollowupTypeOK'
    <2>1. MapOK(queues', current') /\ callback' \in BOOLEAN
      BY <1>0, <1>4, ScheduleIsOK DEF RunEnds, MapOK
    <2> QED
      BY <1>0, <1>4, <1>q, <2>1 DEF RunEnds, RestTyped, history
  <1>5. ASSUME NEW m \in Msgs, Arrive(m) \/ Redeliver(m) \/ ForgetId(m) PROVE FollowupTypeOK'
    <2>1. UNCHANGED <<queues, current, callback, history>>
      BY <1>5 DEF Arrive, Redeliver, ForgetId
    <2>2. recent' \subseteq Msgs /\ phase' \in [Msgs -> {"away", "running", "toQueue", "done"}]
      BY <1>0, <1>5 DEF Arrive, Redeliver, ForgetId, RestTyped
    <2> QED
      BY <1>0, <1>q, <2>1, <2>2 DEF RestTyped, history
  <1>6. ASSUME NEW m \in Msgs, NEW o \in Objects, NEW s \in Settings, EnqueueFollowupRun(m, o, s)
        PROVE  FollowupTypeOK'
    BY <1>6, EnqueueIsOK
  <1>7. CASE ClearSessionQueues
    <2> DEFINE c == [queues[current] EXCEPT !.items = <<>>, !.dropped = {}, !.hasRun = FALSE]
    <2>1. callback' \in BOOLEAN /\ current' = NoQueue /\ stopped' = TRUE
          /\ UNCHANGED <<recent, phase, accepted, earlier, presented, reported>>
      BY <1>7 DEF ClearSessionQueues
    <2>2. CASE current = NoQueue
      BY <1>0, <1>7, <1>q, <2>1, <2>2 DEF ClearSessionQueues, RestTyped
    <2>3. CASE current # NoQueue
      <3>1. current \in Objects /\ queues[current] \in QueueState /\ Tied(queues[current])
        BY <1>0, <2>3 DEF MapOK
      <3>2. queues' = Live([queues EXCEPT ![current] = c], NoQueue)
            /\ shed' = shed \cup Range(queues[current].items)
        BY <1>7, <2>3 DEF ClearSessionQueues
      <3>3. c \in QueueState /\ Tied(c)
        <4>1. <<>> \in Seq(Msgs) /\ {} \in SUBSET Msgs
          OBVIOUS
        <4> QED
          BY <3>1, <4>1 DEF QueueState, Tied
      <3>4. Range(queues[current].items) \subseteq Msgs
        BY <3>1 DEF QueueState, Range
      <3> HIDE DEF c
      <3>5. /\ [queues EXCEPT ![current] = c] \in [Objects -> QueueState]
            /\ \A o \in Objects : Tied([queues EXCEPT ![current] = c][o])
        BY <1>0, <3>1, <3>3 DEF MapOK
      <3>6. MapOK(queues', current')
        BY <2>1, <3>2, <3>5, LiveIsOK
      <3>7. RestTyped'
        BY <1>0, <2>1, <3>2, <3>4 DEF RestTyped
      <3> QED
        BY <1>q, <2>1, <3>6, <3>7
    <2> QED
      BY <2>2, <2>3
  <1>8. CASE UNCHANGED followupVars
    BY <1>0, <1>8, <1>q DEF followupVars, history, MapOK, RestTyped
  <1> QED
    BY <1>1, <1>2, <1>3, <1>4, <1>5, <1>6, <1>7, <1>8 DEF FollowupNext

LEMMA FollowupTypeInit == FollowupInit => FollowupTypeOK
  <1> SUFFICES ASSUME FollowupInit PROVE FollowupTypeOK
    OBVIOUS
  <1>1. Tied(Garbage)
    BY DEF Garbage, Tied
  <1>2. MapOK(queues, current)
    BY <1>1, GarbageState DEF FollowupInit, MapOK
  <1>3. callback \in BOOLEAN /\ RestTyped
    BY DEF FollowupInit, RestTyped
  <1> QED
    BY <1>2, <1>3, TypeParts

\* The queue's state has the type it should have, and every drain under way is of an object
\* whose flag is up (beginQueueDrain and the finally block of scheduleFollowupDrain).
THEOREM FollowupTypeCorrect == FollowupSpec => []FollowupTypeOK
  BY FollowupTypeInit, FollowupTypeStep, PTL DEF FollowupSpec

-----------------------------------------------------------------------------
(* What a drain leaves of the map until a stop. *)

LEMMA StoppedStays == stopped /\ [FollowupNext]_followupVars => stopped'
  BY DEF FollowupNext, followupVars, history, DebounceElapses, TurnEnds, TurnFails, Arrive,
         RunEnds, Redeliver, ForgetId, EnqueueFollowupRun, ClearSessionQueues

LEMMA SoleIsCurrent ==
    ASSUME Sole, NEW o \in Objects, queues[o].pc # "idle"
    PROVE  current = o
  BY DEF Sole, Garbage

LEMMA EndDrainResult ==
    ASSUME MapOK(queues, current), Sole, NEW o \in Objects, current = o,
           NEW q \in QueueState, EndDrain(o, q)
    PROVE  /\ \/ HasWork(q) /\ current' = o /\ queues'[o] = Waiting(Stopped(q))
              \/ ~HasWork(q) /\ current' = NoQueue
           /\ Sole'
  <1> DEFINE qs == [queues EXCEPT ![o] = Stopped(q)]
             rs == [qs EXCEPT ![o] = Waiting(@)]
  <1>0. queues \in [Objects -> QueueState] /\ o # NoQueue
    BY FollowupQueueAssumption DEF MapOK
  <1>1. qs[o] = Stopped(q) /\ ~qs[o].draining /\ (HasWork(q) <=> HasWork(qs[o]))
    BY <1>0, StoppedState DEF HasWork
  <1>2. \A x \in Objects \ {o} : qs[x] = Garbage /\ ~qs[x].draining
    BY <1>0 DEF Sole, Garbage
  <1>3. CASE HasWork(q)
    <2>1. ScheduleFollowupDrain(qs)
      BY <1>3 DEF EndDrain
    <2>2. current' = o /\ queues' = Live(rs, o)
      BY <1>0, <1>1, <1>3, <2>1 DEF ScheduleFollowupDrain
    <2>3. rs[o] = Waiting(Stopped(q)) /\ \A x \in Objects \ {o} : rs[x] = qs[x]
      BY <1>0, <1>1
    <2> HIDE DEF qs, rs
    <2>4. queues'[o] = Waiting(Stopped(q)) /\ \A x \in Objects \ {o} : queues'[x] = Garbage
      BY <1>2, <2>2, <2>3 DEF Live
    <2> QED
      BY <1>3, <2>2, <2>4 DEF Sole
  <1>4. CASE ~HasWork(q)
    <2>1. current' = NoQueue /\ queues' = Live(qs, NoQueue)
      BY <1>4 DEF EndDrain
    <2> HIDE DEF qs
    <2>2. \A x \in Objects : ~qs[x].draining
      BY <1>1, <1>2
    <2>3. \A x \in Objects : queues'[x] = Garbage
      BY <2>1, <2>2, FollowupQueueAssumption DEF Live
    <2> QED
      BY <1>4, <2>1, <2>3 DEF Sole
  <1> QED
    BY <1>3, <1>4

LEMMA ScheduleResult ==
    ASSUME MapOK(queues, current), Sole, ScheduleFollowupDrain(queues)
    PROVE  /\ \/ current' = current /\ \A x \in Objects : queues'[x] = queues[x]
              \/ /\ current \in Objects /\ queues[current].pc = "idle"
                 /\ \/ /\ HasWork(queues[current])
                       /\ current' = current /\ queues'[current] = Waiting(queues[current])
                    \/ ~HasWork(queues[current]) /\ current' = NoQueue
           /\ Sole'
  <1>0. queues \in [Objects -> QueueState] /\ NoQueue \notin Objects
    BY FollowupQueueAssumption DEF MapOK
  <1>1. CASE current = NoQueue \/ queues[current].draining
    <2>1. current' = current /\ queues' = Live(queues, current)
      BY <1>1 DEF ScheduleFollowupDrain
    <2>2. \A x \in Objects : queues'[x] = queues[x]
      BY <2>1 DEF Live, Sole
    <2> QED
      BY <2>1, <2>2 DEF Sole
  <1>2. CASE ~(current = NoQueue \/ queues[current].draining)
    <2> DEFINE q == queues[current]
               rs == [queues EXCEPT ![current] = IF HasWork(@) THEN Waiting(@) ELSE @]
    <2>1. current \in Objects /\ q.pc = "idle"
      BY <1>2 DEF MapOK, Tied
    <2>2. current' = (IF HasWork(q) THEN current ELSE NoQueue) /\ queues' = Live(rs, current')
      BY <1>2 DEF ScheduleFollowupDrain
    <2>3. rs[current] = (IF HasWork(q) THEN Waiting(q) ELSE q)
          /\ \A x \in Objects \ {current} : rs[x] = Garbage
      BY <1>0, <2>1 DEF Sole
    <2> HIDE DEF rs
    <2>4. CASE HasWork(q)
      <3>1. queues'[current] = Waiting(q) /\ \A x \in Objects \ {current} : queues'[x] = Garbage
        BY <2>1, <2>2, <2>3, <2>4 DEF Live
      <3> QED
        BY <2>1, <2>2, <2>4, <3>1 DEF Sole
    <2>5. CASE ~HasWork(q)
      <3>1. \A x \in Objects : ~rs[x].draining
        BY <1>2, <2>3, <2>5 DEF Garbage
      <3>2. \A x \in Objects : queues'[x] = Garbage
        BY <1>0, <2>2, <2>5, <3>1 DEF Live
      <3> QED
        BY <2>1, <2>2, <2>5, <3>2 DEF Sole
    <2> QED
      BY <2>4, <2>5
  <1> QED
    BY <1>1, <1>2

-----------------------------------------------------------------------------
(* Order. *)

LEMMA AtRest ==
    ASSUME NEW acc, NEW ear, NEW pre, NEW q \in QueueState, q.batch = <<>>,
           Range(q.items) \subseteq acc, Ascending(q.items, ear), Range(q.items) \cap pre = {}
    PROVE  Orderly(q, acc, ear, pre)
  <1>1. Range(q.batch) = {}
    BY DEF Range
  <1>2. \A i \in 1..Len(q.items) : q.items[i] \in Range(q.items)
    BY DEF Range, QueueState
  <1> QED
    BY <1>1, <1>2 DEF Orderly

LEMMA GarbageIsOrderly ==
    ASSUME NEW acc, NEW ear, NEW pre
    PROVE  Orderly(Garbage, acc, ear, pre)
  <1>1. Garbage.items = <<>> /\ Garbage.batch = <<>> /\ Range(<<>>) = {}
    BY DEF Garbage, Range
  <1>2. Ascending(<<>>, ear)
    BY DEF Ascending
  <1> QED
    BY <1>1, <1>2, GarbageState, AtRest

LEMMA OrderlyAfterTurn ==
    ASSUME NEW acc, NEW ear, NEW pre, NEW q \in QueueState, Orderly(q, acc, ear, pre)
    PROVE  /\ Range(AfterTurn(q).items) \subseteq acc \ pre
           /\ Ascending(AfterTurn(q).items, ear)
  <1> DEFINE n == TakenOut(q)
             t == SubSeq(q.items, n + 1, Len(q.items))
  <1>1. AfterTurn(q).items = t /\ n \in Nat /\ q.items \in Seq(Msgs)
    BY AfterTurnState DEF QueueState
  <1>a. t = SubSeq(q.items, n + 1, Len(q.items))
    OBVIOUS
  <1> HIDE DEF t, n
  <1>2. /\ t \in Seq(Msgs) /\ Len(t) \in Nat
        /\ \A i \in 1..Len(t) : t[i] = q.items[i + n] /\ i + n \in 1..Len(q.items)
    BY <1>1, <1>a, Suffix
  <1>3. ASSUME NEW i \in 1..Len(t) PROVE t[i] \in acc \ pre
    <2>1. t[i] = q.items[i + n] /\ i + n \in 1..Len(q.items) /\ ~(i + n <= n)
      BY <1>1, <1>2
    <2> QED
      BY <2>1 DEF Orderly, Range, n, QueueState
  <1>4. Range(t) \subseteq acc \ pre
    BY <1>2, <1>3 DEF Range
  <1>5. Ascending(t, ear)
    <2>1. Ascending(q.items, ear)
      BY DEF Orderly
    <2>2. ASSUME NEW i \in 1..Len(t), NEW j \in 1..Len(t), i < j PROVE <<t[i], t[j]>> \in ear
      <3>1. <<q.items[i + n], q.items[j + n]>> \in ear
        BY <1>1, <1>2, <2>1, <2>2 DEF Ascending
      <3> QED
        BY <1>2, <3>1
    <2> QED
      BY <2>2 DEF Ascending
  <1> QED
    BY <1>1, <1>4, <1>5

\* What StartTurn makes of q.
InTurn(q, kind, batch, summary) ==
    [q EXCEPT !.pc = "turn", !.kind = kind, !.batch = batch, !.summary = summary]

\* A turn is started with the items, or the first of them.
StartsWith(batch, q, kind) ==
    \/ kind = "collect" /\ batch = q.items
    \/ kind # "collect" /\ q.items # <<>> /\ batch = SubSeq(q.items, 1, 1)

LEMMA BatchIsFront ==
    ASSUME NEW q \in QueueState, NEW kind, NEW batch, StartsWith(batch, q, kind)
    PROVE  /\ batch \in Seq(Msgs) /\ Len(batch) \in Nat /\ Len(batch) <= Len(q.items)
           /\ \A i \in 1..Len(batch) : batch[i] = q.items[i]
           /\ Range(batch) \subseteq Range(q.items)
           /\ kind # "collect" => Len(batch) = 1
  <1>1. q.items \in Seq(Msgs)
    BY DEF QueueState
  <1>2. CASE kind = "collect"
    BY <1>1, <1>2 DEF StartsWith
  <1>3. CASE kind # "collect"
    <2>1. Len(q.items) \in Nat \ {0}
      BY <1>1, <1>3 DEF StartsWith
    <2>2. batch = SubSeq(q.items, 1, 1) /\ 1 <= Len(q.items)
      BY <1>3, <2>1 DEF StartsWith
    <2>3. /\ batch \in Seq(Msgs) /\ Len(batch) = 1
          /\ \A i \in 1..Len(batch) : batch[i] = q.items[i]
      BY <1>1, <2>2, Prefix
    <2>4. Range(batch) \subseteq Range(q.items)
      BY <1>1, <2>1, <2>3 DEF Range
    <2> QED
      BY <2>2, <2>3, <2>4
  <1> QED
    BY <1>2, <1>3

LEMMA TurnBatch ==
    ASSUME NEW q \in QueueState, NEW kind \in {"single", "collect", "summary"}, NEW batch,
           StartsWith(batch, q, kind), NEW summary
    PROVE  LET r == InTurn(q, kind, batch, summary)
           IN /\ r.items = q.items /\ r.batch = batch /\ r.kind = kind /\ r.pc = "turn"
              /\ r.drop = q.drop /\ r.dropped = q.dropped
              /\ TakenOut(r) = Len(batch)
  <1> DEFINE r == InTurn(q, kind, batch, summary)
  <1>1. r.items = q.items /\ r.batch = batch /\ r.kind = kind /\ r.pc = "turn"
        /\ r.drop = q.drop /\ r.dropped = q.dropped
    BY DEF QueueState, InTurn
  <1> HIDE DEF r
  <1>2. TakenOut(r) = Len(batch)
    BY <1>1, BatchIsFront DEF TakenOut
  <1> QED
    BY <1>1, <1>2 DEF r

LEMMA OrderlyTurn ==
    ASSUME NEW acc, NEW ear, NEW pre, NEW q \in QueueState, Orderly(q, acc, ear, pre),
           q.pc # "turn", Irreflexive(ear),
           NEW kind \in {"single", "collect", "summary"}, NEW batch, NEW summary,
           StartsWith(batch, q, kind),
           NEW r, r = InTurn(q, kind, batch, summary)
    PROVE  /\ Orderly(r, acc, ear, pre)
           /\ Orderly(r, acc, ear, pre \cup Range(batch))
  <1>1. q.items \in Seq(Msgs) /\ Range(q.items) \subseteq acc /\ Range(q.items) \cap pre = {}
        /\ Ascending(q.items, ear)
    BY DEF QueueState, Orderly
  <1>2. r.items = q.items /\ r.batch = batch /\ r.kind = kind /\ r.pc = "turn"
    BY DEF QueueState, InTurn
  <1>3. TakenOut(r) = Len(batch)
    BY TurnBatch
  <1>4. /\ batch \in Seq(Msgs) /\ Len(batch) \in Nat /\ Len(batch) <= Len(q.items)
        /\ \A i \in 1..Len(batch) : batch[i] = q.items[i]
    BY BatchIsFront
  <1>5. Range(batch) \subseteq Range(q.items) /\ Range(q.items) \subseteq Msgs
    BY <1>1, <1>4 DEF Range
  <1>6. ASSUME NEW i \in 1..Len(q.items), q.items[i] \in Range(batch)
        PROVE  i <= Len(batch)
    <2>1. PICK j \in 1..Len(batch) : q.items[i] = q.items[j] /\ j \in 1..Len(q.items)
      BY <1>1, <1>4, <1>6 DEF Range
    <2>2. ASSUME j < i PROVE FALSE
      <3>1. <<q.items[j], q.items[i]>> \in ear
        BY <1>1, <2>1, <2>2 DEF Ascending
      <3>2. q.items[i] \in Msgs
        BY <1>5, <1>6
      <3> QED
        BY <2>1, <3>1, <3>2 DEF Irreflexive
    <2> QED
      BY <1>1, <1>4, <2>1, <2>2
  <1>7. ASSUME NEW a \in Range(batch), NEW b \in Range(q.items) \ Range(batch)
        PROVE  <<a, b>> \in ear
    <2>1. PICK i \in 1..Len(batch) : a = q.items[i] /\ i \in 1..Len(q.items)
      BY <1>1, <1>4 DEF Range
    <2>2. PICK j \in 1..Len(q.items) : b = q.items[j]
      BY <1>1 DEF Range
    <2>3. ~(j <= Len(batch))
      BY <1>4, <2>2 DEF Range
    <2>4. i < j
      BY <1>1, <1>4, <2>1, <2>3
    <2> QED
      BY <1>1, <2>1, <2>2, <2>4 DEF Ascending
  <1>8. \A i \in 1..Len(q.items) : q.items[i] \in Range(q.items)
    BY <1>1 DEF Range
  <1>9. ASSUME NEW p, p = pre \/ p = pre \cup Range(batch)
        PROVE  Orderly(r, acc, ear, p)
    BY <1>1, <1>2, <1>3, <1>5, <1>6, <1>7, <1>8, <1>9 DEF Orderly
  <1> QED
    BY <1>9

LEMMA OrderlyEnqueued ==
    ASSUME NEW q \in QueueState, Orderly(q, accepted, earlier, presented),
           NEW m \in Msgs, m \notin Range(q.items)
    PROVE  Orderly(Enqueued(q, m), accepted \cup {m}, AcceptedLast(m), presented \ {m})
  <1> DEFINE k == Len(Overflow(q))
             t == SubSeq(q.items, k + 1, Len(q.items))
             r == Enqueued(q, m)
  <1>1. q.items \in Seq(Msgs) /\ q.batch \in Seq(Msgs) /\ q.cap \in Nat \ {0}
    BY DEF QueueState
  <1>2. k \in Nat
    <2>1. CASE OverCap(q) /\ q.drop # "new"
      BY <1>1, <2>1, Prefix DEF Overflow, OverCap
    <2>2. CASE ~(OverCap(q) /\ q.drop # "new")
      BY <2>2 DEF Overflow
    <2> QED
      BY <2>1, <2>2
  <1>3. /\ t \in Seq(Msgs) /\ Len(t) \in Nat
        /\ \A i \in 1..Len(t) : t[i] = q.items[i + k] /\ i + k \in 1..Len(q.items)
    BY <1>1, <1>2, Suffix
  <1>4. /\ r.items = Append(t, m) /\ r.pc = q.pc /\ r.batch = q.batch /\ r.kind = q.kind
        /\ TakenOut(r) = TakenOut(q)
    BY EnqueuedState DEF Pushed, TakenOut
  <1> HIDE DEF t, k, r
  <1>5. /\ Len(r.items) = Len(t) + 1 /\ r.items[Len(t) + 1] = m
        /\ \A i \in 1..Len(t) : r.items[i] = t[i]
    BY <1>3, <1>4
  <1>6. \A i \in 1..Len(r.items) : i \in 1..Len(t) \/ i = Len(t) + 1
    BY <1>3, <1>5
  <1>7. ASSUME NEW i \in 1..Len(t)
        PROVE  /\ r.items[i] = q.items[i + k] /\ i + k \in 1..Len(q.items)
               /\ r.items[i] \in Range(q.items)
    BY <1>1, <1>3, <1>5 DEF Range
  <1>8. Range(r.items) \subseteq Range(q.items) \cup {m}
    <2>1. r.items \in Seq(Msgs)
      BY <1>3, <1>4
    <2> QED
      BY <1>5, <1>6, <1>7, <2>1 DEF Range
  <1>9. /\ Range(q.items) \subseteq accepted /\ Range(q.batch) \subseteq accepted
        /\ Ascending(q.items, earlier)
    BY DEF Orderly
  <1>10. \A a, b \in accepted \ {m} : <<a, b>> \in earlier => <<a, b>> \in AcceptedLast(m)
    BY DEF AcceptedLast
  <1>11. \A a \in accepted \ {m} : <<a, m>> \in AcceptedLast(m)
    BY DEF AcceptedLast
  <1>12. Ascending(r.items, AcceptedLast(m))
    <2>1. ASSUME NEW i \in 1..Len(r.items), NEW j \in 1..Len(r.items), i < j
          PROVE  <<r.items[i], r.items[j]>> \in AcceptedLast(m)
      <3>1. i \in 1..Len(t) /\ r.items[i] \in accepted \ {m}
        BY <1>3, <1>5, <1>7, <1>9, <2>1
      <3>2. CASE j \in 1..Len(t)
        <4>1. r.items[j] \in accepted \ {m}
          BY <1>7, <1>9, <3>2
        <4>2. <<q.items[i + k], q.items[j + k]>> \in earlier
          BY <1>2, <1>3, <1>9, <2>1, <3>1, <3>2 DEF Ascending
        <4> QED
          BY <1>7, <1>10, <3>1, <3>2, <4>1, <4>2
      <3>3. CASE j = Len(t) + 1
        BY <1>5, <1>11, <3>1, <3>3
      <3> QED
        BY <1>6, <3>2, <3>3
    <2> QED
      BY <2>1 DEF Ascending
  <1>13. r.pc # "turn" => r.batch = <<>> /\ Range(r.items) \cap (presented \ {m}) = {}
    BY <1>4, <1>8 DEF Orderly
  <1>14. ASSUME NEW i \in 1..Len(r.items), r.items[i] \in presented \ {m}
         PROVE  i <= TakenOut(r) /\ r.items[i] \in Range(r.batch)
    <2>1. i \in 1..Len(t)
      BY <1>5, <1>6, <1>14
    <2>2. i + k <= TakenOut(q) /\ r.items[i] \in Range(q.batch)
      BY <1>7, <1>14, <2>1 DEF Orderly
    <2>3. TakenOut(q) \in Nat
      BY AfterTurnState
    <2> QED
      BY <1>2, <1>4, <2>1, <2>2, <2>3
  <1>15. ASSUME NEW a \in Range(r.batch) \cap (presented \ {m}),
                NEW b \in Range(r.items) \ Range(r.batch)
         PROVE  <<a, b>> \in AcceptedLast(m)
    <2>1. a \in Range(q.batch) \cap presented /\ a \in accepted \ {m}
      BY <1>4, <1>9
    <2>2. CASE b = m
      BY <1>11, <2>1, <2>2
    <2>3. CASE b # m
      <3>1. b \in Range(q.items) \ Range(q.batch) /\ b \in accepted \ {m}
        BY <1>4, <1>8, <1>9, <2>3
      <3>2. <<a, b>> \in earlier
        BY <2>1, <3>1 DEF Orderly
      <3> QED
        BY <1>10, <2>1, <3>1, <3>2
    <2> QED
      BY <2>2, <2>3
  <1> QED
    BY <1>4, <1>8, <1>9, <1>12, <1>13, <1>14, <1>15 DEF Orderly, r

\* Of the other objects there is nothing to show.
LEMMA OrderOfCurrent ==
    ASSUME Sole', Irreflexive(earlier'),
           current' \in Objects
              => Orderly(queues'[current'], accepted', earlier', presented')
    PROVE  Order'
  <1>1. ASSUME NEW o \in Objects
        PROVE  Orderly(queues'[o], accepted', earlier', presented')
    BY GarbageIsOrderly DEF Sole
  <1> QED
    BY <1>1 DEF Order

LEMMA OrderEndDrain ==
    ASSUME FollowupTypeOK, Order, ~stopped, NEW o \in Objects, queues[o].pc # "idle",
           NEW q \in QueueState, EndDrain(o, q), UNCHANGED <<accepted, earlier>>,
           Range(q.items) \subseteq accepted \ presented', Ascending(q.items, earlier)
    PROVE  Order'
  <1>1. Sole /\ MapOK(queues, current) /\ Irreflexive(earlier)
    BY TypeParts DEF Order
  <1>2. current = o
    BY <1>1, SoleIsCurrent
  <1>3. /\ \/ HasWork(q) /\ current' = o /\ queues'[o] = Waiting(Stopped(q))
           \/ ~HasWork(q) /\ current' = NoQueue
        /\ Sole'
    BY <1>1, <1>2, EndDrainResult
  <1> DEFINE r == Waiting(Stopped(q))
  <1>4. r \in QueueState /\ r.batch = <<>> /\ r.items = q.items
    BY StoppedState, WaitingState
  <1> HIDE DEF r
  <1>5. Orderly(r, accepted', earlier', presented')
    BY <1>4, AtRest
  <1> QED
    BY <1>1, <1>3, <1>5, OrderOfCurrent, FollowupQueueAssumption DEF r

LEMMA OrderStep == FollowupTypeOK /\ Order /\ [FollowupNext]_followupVars => Order'
  <1> SUFFICES ASSUME FollowupTypeOK, Order, [FollowupNext]_followupVars, ~stopped PROVE Order'
    BY StoppedStays DEF Order
  <1>0. /\ Sole /\ Irreflexive(earlier) /\ MapOK(queues, current)
        /\ \A o \in Objects : /\ Orderly(queues[o], accepted, earlier, presented)
                              /\ queues[o] \in QueueState
    BY TypeParts DEF Order, MapOK
  <1>1. ASSUME NEW o \in Objects, DebounceElapses(o) PROVE Order'
    <2>1. PICK q \in QueueState : Debounced(o, q)
      BY <1>1, DebounceCases
    <2> USE DEF Debounced
    <2>2. /\ q.pc = "waiting" /\ queues[o].pc = "waiting"
          /\ UNCHANGED <<accepted, earlier>>
      BY <1>1, <2>1 DEF DebounceElapses
    <2>3. q.batch = <<>> /\ Range(q.items) \subseteq accepted \ presented
          /\ Ascending(q.items, earlier)
      BY <1>0, <2>1, <2>2 DEF Orderly
    <2>4. Orderly(q, accepted, earlier, presented)
      BY <2>3, AtRest
    <2>5. CASE BreakDrain(o, q)
      BY <2>2, <2>3, <2>5, OrderEndDrain DEF BreakDrain
    <2>6. ASSUME NEW kind \in {"single", "summary", "collect"}, NEW batch, NEW summary,
                 StartsWith(batch, q, kind),
                 StartTurn(o, q, kind, batch, summary)
          PROVE  Order'
      <3> DEFINE r == InTurn(q, kind, batch, summary)
      <3>1. /\ queues' = [queues EXCEPT ![o] = r] /\ current' = current
            /\ presented' = presented \/ presented' = presented \cup Range(batch)
        BY <2>6 DEF StartTurn, InTurn
      <3>2. /\ Orderly(r, accepted, earlier, presented)
            /\ Orderly(r, accepted, earlier, presented \cup Range(batch))
        BY <1>0, <2>2, <2>4, <2>6, OrderlyTurn
      <3> HIDE DEF r
      <3>3. queues'[o] = r /\ \A x \in Objects \ {o} : queues'[x] = queues[x]
        BY <1>0, <3>1 DEF MapOK
      <3>4. current = o
        BY <1>0, <2>2, SoleIsCurrent
      <3>5. Sole'
        BY <1>0, <3>1, <3>3, <3>4 DEF Sole
      <3> QED
        BY <1>0, <2>2, <3>1, <3>2, <3>3, <3>4, <3>5, OrderOfCurrent
    <2> QED
      BY <2>1, <2>5, <2>6 DEF StartsWith
  <1>2. ASSUME NEW o \in Objects, TurnEnds(o) PROVE Order'
    <2> DEFINE q == AfterTurn(queues[o])
    <2>1. /\ q \in QueueState /\ queues[o].pc = "turn"
          /\ UNCHANGED history /\ UNCHANGED <<accepted, earlier, presented>>
      BY <1>0, <1>2, AfterTurnState DEF TurnEnds, history
    <2>2. Range(q.items) \subseteq accepted \ presented /\ Ascending(q.items, earlier)
      BY <1>0, OrderlyAfterTurn
    <2>3. CASE EndDrain(o, q)
      BY <2>1, <2>2, <2>3, OrderEndDrain
    <2>4. CASE ~EndDrain(o, q)
      <3>1. queues' = [queues EXCEPT ![o] = Waiting(q)] /\ current' = current
        BY <1>2, <2>4 DEF TurnEnds, ContinueDrain
      <3>2. /\ Waiting(q) \in QueueState /\ Waiting(q).batch = <<>>
            /\ Waiting(q).items = q.items
        BY <2>1, WaitingState
      <3> HIDE DEF q
      <3>3. Orderly(Waiting(q), accepted', earlier', presented')
        BY <2>1, <2>2, <3>2, AtRest
      <3>4. current = o
        BY <1>0, <2>1, SoleIsCurrent
      <3>5. queues'[o] = Waiting(q) /\ \A x \in Objects \ {o} : queues'[x] = queues[x]
        BY <1>0, <3>1 DEF MapOK
      <3>6. Sole'
        BY <1>0, <3>1, <3>4, <3>5 DEF Sole
      <3> QED
        BY <1>0, <2>1, <3>1, <3>3, <3>4, <3>5, <3>6, OrderOfCurrent
    <2> QED
      BY <2>3, <2>4
  <1>3. ASSUME NEW o \in Objects, TurnFails(o) PROVE Order'
    <2> DEFINE q == queues[o]
    <2>1. /\ q.pc = "turn" /\ EndDrain(o, q) /\ presented' = presented \ Range(q.batch)
          /\ UNCHANGED <<accepted, earlier>>
      BY <1>3 DEF TurnFails
    <2>2. Range(q.items) \subseteq accepted /\ Ascending(q.items, earlier)
      BY <1>0 DEF Orderly
    <2>3. Range(q.items) \cap presented' = {}
      <3>1. ASSUME NEW i \in 1..Len(q.items), q.items[i] \in presented
            PROVE  q.items[i] \in Range(q.batch)
        BY <1>0, <3>1 DEF Orderly
      <3>2. q.items \in Seq(Msgs)
        BY <1>0 DEF QueueState
      <3> QED
        BY <2>1, <3>1, <3>2 DEF Range
    <2> QED
      BY <1>0, <2>1, <2>2, <2>3, OrderEndDrain
  <1>4. ASSUME NEW m \in Msgs, RunEnds(m) PROVE Order'
    <2>1. ScheduleFollowupDrain(queues) /\ UNCHANGED <<accepted, earlier, presented>>
      BY <1>4 DEF RunEnds, history
    <2>2. Sole'
      BY <1>0, <2>1, ScheduleResult
    <2>3. ASSUME current' \in Objects
          PROVE  Orderly(queues'[current'], accepted, earlier, presented)
      <3>1. CASE current' = current /\ queues'[current] = queues[current]
        BY <1>0, <2>3, <3>1
      <3>2. CASE ~(current' = current /\ queues'[current] = queues[current])
        <4>1. /\ current \in Objects /\ queues[current].pc = "idle" /\ current' = current
              /\ queues'[current] = Waiting(queues[current])
          BY <1>0, <2>1, <2>3, <3>2, ScheduleResult, FollowupQueueAssumption
        <4>2. /\ Range(queues[current].items) \subseteq accepted \ presented
              /\ Ascending(queues[current].items, earlier)
          BY <1>0, <4>1 DEF Orderly
        <4>3. /\ Waiting(queues[current]) \in QueueState
              /\ Waiting(queues[current]).batch = <<>>
              /\ Waiting(queues[current]).items = queues[current].items
          BY <1>0, <4>1, WaitingState
        <4> QED
          BY <4>1, <4>2, <4>3, AtRest
      <3> QED
        BY <3>1, <3>2
    <2> QED
      BY <1>0, <2>1, <2>2, <2>3, OrderOfCurrent
  <1>5. ASSUME NEW m \in Msgs, Arrive(m) \/ Redeliver(m) \/ ForgetId(m) PROVE Order'
    <2>1. UNCHANGED <<queues, current, accepted, earlier, presented>>
      BY <1>5 DEF Arrive, Redeliver, ForgetId, history
    <2> QED
      BY <1>0, <2>1 DEF Order, Sole
  <1>6. ASSUME NEW m \in Msgs, NEW o \in Objects, NEW s \in Settings, EnqueueFollowupRun(m, o, s)
        PROVE  Order'
    <2> DEFINE q == WithSettings(queues[o], s)
    <2>1. /\ current' = o
          /\ \/ UNCHANGED history /\ queues' = [queues EXCEPT ![o] = q]
             \/ UNCHANGED history /\ queues' = [queues EXCEPT ![o] = [q EXCEPT !.hasRun = TRUE]]
             \/ /\ m \notin Range(q.items)
                /\ accepted' = accepted \cup {m} /\ earlier' = AcceptedLast(m)
                /\ presented' = presented \ {m}
                /\ \/ queues' = [queues EXCEPT ![o] = Enqueued(q, m)]
                   \/ ~q.draining /\ queues' = [queues EXCEPT ![o] = Waiting(Enqueued(q, m))]
      BY <1>6, EnqueueCases
    <2>2. \A x \in Objects \ {o} : queues[x] = Garbage
      BY <1>0, <1>6, FollowupQueueAssumption DEF EnqueueFollowupRun, Sole
    <2>3. \A r : queues' = [queues EXCEPT ![o] = r] => queues'[o] = r /\ Sole'
      BY <1>0, <2>1, <2>2 DEF MapOK, Sole
    <2>4. /\ q \in QueueState /\ q.items = queues[o].items /\ q.batch = queues[o].batch
          /\ q.pc = queues[o].pc /\ q.kind = queues[o].kind /\ q.draining = queues[o].draining
      BY <1>0, SettingsState
    <2>5. Orderly(q, accepted, earlier, presented)
      BY <1>0, <2>4 DEF Orderly, TakenOut
    <2> HIDE DEF q
    <2>6. ASSUME UNCHANGED history, NEW r \in {q, [q EXCEPT !.hasRun = TRUE]},
                 queues' = [queues EXCEPT ![o] = r]
          PROVE  Order'
      <3>1. UNCHANGED <<accepted, earlier, presented>>
        BY <2>6 DEF history
      <3>2. r.items = q.items /\ r.batch = q.batch /\ r.pc = q.pc /\ r.kind = q.kind
        BY <2>4, <2>6 DEF QueueState
      <3>3. Orderly(r, accepted, earlier, presented)
        BY <2>5, <3>2 DEF Orderly, TakenOut
      <3> QED
        BY <1>0, <2>1, <2>3, <2>6, <3>1, <3>3, OrderOfCurrent
    <2>7. ASSUME m \notin Range(q.items),
                 accepted' = accepted \cup {m}, earlier' = AcceptedLast(m),
                 presented' = presented \ {m},
                 \/ queues' = [queues EXCEPT ![o] = Enqueued(q, m)]
                 \/ ~q.draining /\ queues' = [queues EXCEPT ![o] = Waiting(Enqueued(q, m))]
          PROVE  Order'
      <3> DEFINE r == Enqueued(q, m)
      <3>1. /\ Orderly(r, accepted', earlier', presented') /\ r \in QueueState
            /\ r.pc = q.pc /\ r.batch = q.batch
        BY <2>4, <2>5, <2>7, OrderlyEnqueued, EnqueuedState
      <3>2. ~q.draining => Orderly(Waiting(r), accepted', earlier', presented')
        <4> SUFFICES ASSUME ~q.draining
                     PROVE  Orderly(Waiting(r), accepted', earlier', presented')
          OBVIOUS
        <4>1. r.pc # "turn"
          BY <1>0, <2>4, <3>1 DEF MapOK, Tied
        <4>2. Waiting(r) \in QueueState /\ Waiting(r).batch = <<>> /\ Waiting(r).items = r.items
          BY <3>1, WaitingState
        <4> HIDE DEF r
        <4>3. /\ Range(r.items) \subseteq accepted' /\ Range(r.items) \cap presented' = {}
              /\ Ascending(r.items, earlier')
          BY <3>1, <4>1 DEF Orderly
        <4> QED
          BY <4>2, <4>3, AtRest
      <3>3. Irreflexive(earlier')
        BY <1>0, <2>7 DEF Irreflexive, AcceptedLast
      <3>4. CASE queues' = [queues EXCEPT ![o] = r]
        BY <2>1, <2>3, <3>1, <3>3, <3>4, OrderOfCurrent
      <3>5. CASE ~q.draining /\ queues' = [queues EXCEPT ![o] = Waiting(r)]
        BY <2>1, <2>3, <3>2, <3>3, <3>5, OrderOfCurrent
      <3> QED
        BY <2>7, <3>4, <3>5
    <2> QED
      BY <2>1, <2>6, <2>7
  <1>7. CASE ClearSessionQueues
    BY <1>7 DEF ClearSessionQueues, Order
  <1>8. CASE UNCHANGED followupVars
    <2>1. UNCHANGED <<queues, current, accepted, earlier, presented, stopped>>
      BY <1>8 DEF followupVars, history
    <2> QED
      BY <1>0, <2>1 DEF Order, Sole
  <1> QED
    BY <1>1, <1>2, <1>3, <1>4, <1>5, <1>6, <1>7, <1>8 DEF FollowupNext

LEMMA OrderInit == FollowupInit => Order
  <1> SUFFICES ASSUME FollowupInit PROVE Order
    OBVIOUS
  <1>1. \A o \in Objects : queues[o] = Garbage
    BY DEF FollowupInit
  <1>2. earlier = {}
    BY DEF FollowupInit
  <1> QED
    BY <1>1, <1>2, GarbageIsOrderly DEF Order, Sole, Irreflexive

LEMMA OrderInvariant == FollowupSpec => [](FollowupTypeOK /\ Order)
  BY FollowupTypeInit, FollowupTypeStep, OrderInit, OrderStep, PTL DEF FollowupSpec

\* Until a stop messages wait in the order enqueueFollowupRun accepted them, none of them
\* twice, and a turn of scheduleFollowupDrain gets the oldest.
THEOREM FollowupsKeepOrder == FollowupSpec => []InArrivalOrder
  <1>1. Order => InArrivalOrder
    BY DEF Order, Orderly, Ascending, InArrivalOrder
  <1> QED
    BY <1>1, OrderInvariant, PTL

-----------------------------------------------------------------------------
(* Turns. *)

LEMMA TurnStep ==
    ASSUME FollowupTypeOK, Order, ~stopped, [FollowupNext]_followupVars,
           NEW o \in Objects, TurnStarts(o)
    PROVE  Range(queues'[o].batch) \cap presented = {}
  <1>0. /\ Sole /\ MapOK(queues, current) /\ queues[o] \in QueueState
        /\ Orderly(queues[o], accepted, earlier, presented)
    BY TypeParts DEF Order, MapOK
  <1>1. queues[o].pc = "waiting" /\ queues'[o].pc = "turn" /\ current = o
    BY <1>0, SoleIsCurrent DEF TurnStarts
  <1>2. Range(queues[o].items) \cap presented = {}
    BY <1>0, <1>1 DEF Orderly
  <1>3. ASSUME NEW x \in Objects, DebounceElapses(x)
        PROVE  Range(queues'[o].batch) \cap presented = {}
    <2>1. PICK q \in QueueState : Debounced(x, q)
      BY <1>3, DebounceCases
    <2> USE DEF Debounced
    <2>2. x = o
      BY <1>0, <1>1, <1>3, SoleIsCurrent DEF DebounceElapses
    <2>3. ~BreakDrain(x, q)
      <3>1. ASSUME BreakDrain(x, q) PROVE FALSE
        <4>1. /\ Sole'
              /\ \/ current' = o /\ queues'[o] = Waiting(Stopped(q))
                 \/ current' = NoQueue
          BY <1>0, <1>1, <2>2, <3>1, EndDrainResult DEF BreakDrain
        <4>2. Waiting(Stopped(q)).pc = "waiting" /\ Garbage.pc = "idle"
          BY StoppedState, WaitingState DEF Garbage
        <4> QED
          BY <1>1, <4>1, <4>2, FollowupQueueAssumption DEF Sole
      <3> QED
        BY <3>1
    <2>4. ASSUME NEW kind \in {"single", "summary", "collect"}, NEW batch, NEW summary,
                 StartsWith(batch, q, kind),
                 StartTurn(x, q, kind, batch, summary)
          PROVE  Range(queues'[o].batch) \cap presented = {}
      <3> DEFINE r == InTurn(q, kind, batch, summary)
      <3>1. queues' = [queues EXCEPT ![o] = r]
        BY <2>2, <2>4 DEF StartTurn, InTurn
      <3>2. r.batch = batch
        BY <2>1 DEF QueueState, InTurn
      <3>4. Range(batch) \subseteq Range(q.items)
        BY <2>4, BatchIsFront
      <3>5. q.items = queues[o].items
        BY <2>1, <2>2
      <3> HIDE DEF r
      <3>3. queues'[o] = r
        BY <1>0, <3>1 DEF MapOK
      <3> QED
        BY <1>2, <3>2, <3>3, <3>4, <3>5
    <2> QED
      BY <2>1, <2>3, <2>4 DEF StartsWith
  <1>4. ASSUME NEW x \in Objects, TurnEnds(x) \/ TurnFails(x) PROVE FALSE
    BY <1>0, <1>1, <1>4, SoleIsCurrent DEF TurnEnds, TurnFails
  <1>5. ASSUME NEW m \in Msgs, RunEnds(m) PROVE FALSE
    <2>1. queues'[o] = queues[o]
      BY <1>0, <1>1, <1>5, ScheduleResult DEF RunEnds
    <2> QED
      BY <1>1, <2>1
  <1>6. ASSUME NEW m \in Msgs, Arrive(m) \/ Redeliver(m) \/ ForgetId(m) PROVE FALSE
    BY <1>1, <1>6 DEF Arrive, Redeliver, ForgetId
  <1>7. ASSUME NEW m \in Msgs, NEW x \in Objects, NEW s \in Settings, EnqueueFollowupRun(m, x, s)
        PROVE  FALSE
    <2> DEFINE q == WithSettings(queues[x], s)
    <2>1. \/ queues' = [queues EXCEPT ![x] = q]
          \/ queues' = [queues EXCEPT ![x] = [q EXCEPT !.hasRun = TRUE]]
          \/ queues' = [queues EXCEPT ![x] = Enqueued(q, m)]
          \/ queues' = [queues EXCEPT ![x] = Waiting(Enqueued(q, m))]
      BY <1>7, EnqueueCases
    <2>2. x = o
      BY <1>0, <1>1, <1>7, FollowupQueueAssumption DEF EnqueueFollowupRun, MapOK
    <2>3. q \in QueueState /\ q.pc = "waiting"
      BY <1>0, <1>1, <2>2, SettingsState
    <2> HIDE DEF q
    <2>4. [q EXCEPT !.hasRun = TRUE].pc = "waiting"
      BY <2>3 DEF QueueState
    <2>5. Enqueued(q, m).pc = "waiting" /\ Waiting(Enqueued(q, m)).pc = "waiting"
      BY <2>3, EnqueuedState, WaitingState
    <2>6. queues'[o].pc = "waiting"
      BY <1>0, <2>1, <2>2, <2>3, <2>4, <2>5 DEF MapOK
    <2> QED
      BY <1>1, <2>6
  <1>8. CASE ClearSessionQueues
    <2> DEFINE c == [queues[o] EXCEPT !.items = <<>>, !.dropped = {}, !.hasRun = FALSE]
    <2>1. queues' = Live([queues EXCEPT ![o] = c], NoQueue)
      BY <1>1, <1>8, FollowupQueueAssumption DEF ClearSessionQueues
    <2>2. c.pc = "waiting"
      BY <1>0, <1>1 DEF QueueState
    <2> HIDE DEF c
    <2>3. queues'[o] = c \/ queues'[o] = Garbage
      BY <1>0, <2>1 DEF Live, MapOK
    <2> QED
      BY <1>1, <2>2, <2>3 DEF Garbage
  <1>9. CASE UNCHANGED followupVars
    BY <1>1, <1>9 DEF followupVars
  <1> QED
    BY <1>3, <1>4, <1>5, <1>6, <1>7, <1>8, <1>9 DEF FollowupNext

\* Until a stop a message given to the agent in a turn that did not fail is not given to
\* it again (the shift and splice of drainNextQueueItem and scheduleFollowupDrain).
THEOREM FollowupsPresentOnce == FollowupSpec => PresentedOnce
  <1>1. FollowupTypeOK /\ Order /\ [FollowupNext]_followupVars
        => [\A o \in Objects :
              ~stopped /\ TurnStarts(o) /\ queues'[o].kind # "summary"
                 => Range(queues'[o].batch) \cap presented = {}]_followupVars
    BY TurnStep
  <1> QED
    BY <1>1, OrderInvariant, PTL DEF FollowupSpec, PresentedOnce

-----------------------------------------------------------------------------
(* With the policy new, nothing vanishes. *)

LEMMA GarbageIsUnshed == ASSUME NEW pre PROVE Unshed(Garbage, pre)
  BY DEF Garbage, Unshed

\* To show that Kept goes on, it is enough to look at the object o, and at what was in it
\* or presented.
LEMMA KeptOfCurrent ==
    ASSUME Kept, ~stopped, NEW o \in Objects, \A x \in Objects \ {o} : queues[x] = Garbage,
           Sole', current' \in {o, NoQueue}, current' = o => Unshed(queues'[o], presented'),
           \A m \in accepted' :
              \/ current' = o /\ m \in Range(queues'[o].items)
              \/ /\ m \in accepted /\ (m \in shed => m \in shed')
                 /\ m \in Range(queues[o].items) \cup presented
                       => \/ current' = o /\ m \in Range(queues'[o].items)
                          \/ m \in presented'
    PROVE  Kept'
  <1>1. ASSUME NEW x \in Objects PROVE Unshed(queues'[x], presented')
    BY GarbageIsUnshed, FollowupQueueAssumption DEF Sole
  <1>2. ASSUME NEW m \in accepted'
        PROVE  Queued(m)' \/ m \in presented' \/ m \in shed'
    <2>1. CASE current' = o /\ m \in Range(queues'[o].items)
      BY <2>1 DEF Queued
    <2>2. CASE ~(current' = o /\ m \in Range(queues'[o].items))
      <3>1. m \in accepted /\ (m \in shed => m \in shed')
            /\ (m \in Range(queues[o].items) \cup presented => m \in presented')
        BY <2>2
      <3>2. Queued(m) \/ m \in presented \/ m \in shed
        BY <3>1 DEF Kept, NothingVanishes
      <3>3. Queued(m) => m \in Range(queues[o].items)
        BY DEF Queued, Garbage, Range
      <3> QED
        BY <3>1, <3>2, <3>3
    <2> QED
      BY <2>1, <2>2
  <1> QED
    BY <1>1, <1>2 DEF Kept, NothingVanishes

LEMMA KeptEndDrain ==
    ASSUME FollowupTypeOK, Order, Kept, ~stopped, NEW o \in Objects, queues[o].pc # "idle",
           NEW q \in QueueState, q.drop = "new", q.dropped = {}, EndDrain(o, q),
           UNCHANGED <<accepted, shed>>,
           Range(queues[o].items) \cup presented \subseteq Range(q.items) \cup presented'
    PROVE  Kept'
  <1>1. Sole /\ MapOK(queues, current)
    BY TypeParts DEF Order
  <1>2. current = o
    BY <1>1, SoleIsCurrent
  <1>3. /\ \/ HasWork(q) /\ current' = o /\ queues'[o] = Waiting(Stopped(q))
           \/ ~HasWork(q) /\ current' = NoQueue
        /\ Sole'
    BY <1>1, <1>2, EndDrainResult
  <1> DEFINE r == Waiting(Stopped(q))
  <1>4. /\ r.items = q.items /\ r.drop = "new" /\ r.dropped = {} /\ r.pc = "waiting"
    BY StoppedState, WaitingState
  <1> HIDE DEF r
  <1>5. Unshed(r, presented')
    BY <1>4 DEF Unshed
  <1>6. ~HasWork(q) => Range(q.items) = {}
    BY DEF HasWork, Range
  <1>7. \A x \in Objects \ {o} : queues[x] = Garbage
    BY <1>1, <1>2 DEF Sole
  <1>8. CASE HasWork(q)
    <2>1. current' = o /\ queues'[o] = r
      BY <1>3, <1>8 DEF r
    <2> QED
      BY <1>3, <1>4, <1>5, <1>7, <2>1, KeptOfCurrent
  <1>9. CASE ~HasWork(q)
    <2>1. current' = NoQueue /\ NoQueue # o
      BY <1>3, <1>9, FollowupQueueAssumption
    <2> QED
      BY <1>3, <1>6, <1>7, <1>9, <2>1, KeptOfCurrent
  <1> QED
    BY <1>8, <1>9

LEMMA KeptStep ==
    ASSUME \A s \in Settings : s.drop = "new"
    PROVE  FollowupTypeOK /\ Order /\ Kept /\ [FollowupNext]_followupVars => Kept'
  <1> SUFFICES ASSUME FollowupTypeOK, Order, Kept, [FollowupNext]_followupVars, ~stopped
               PROVE  Kept'
    BY StoppedStays DEF Kept
  <1>0. /\ Sole /\ MapOK(queues, current)
        /\ \A o \in Objects : Unshed(queues[o], presented) /\ queues[o] \in QueueState
    BY TypeParts DEF Order, Kept, MapOK
  <1>1. ASSUME NEW o \in Objects, DebounceElapses(o) PROVE Kept'
    <2>1. PICK q \in QueueState : Debounced(o, q)
      BY <1>1, DebounceCases
    <2> USE DEF Debounced
    <2>2. /\ queues[o].pc = "waiting" /\ UNCHANGED <<accepted, shed>>
      BY <1>1 DEF DebounceElapses
    <2>3. q.items = queues[o].items /\ q.drop = "new" /\ q.dropped = {}
      BY <1>0, <2>1 DEF Unshed
    <2>4. CASE BreakDrain(o, q)
      BY <2>2, <2>3, <2>4, KeptEndDrain DEF BreakDrain
    <2>5. ASSUME NEW kind \in {"single", "collect"}, NEW batch, NEW summary,
                 StartsWith(batch, q, kind),
                 StartTurn(o, q, kind, batch, summary)
          PROVE  Kept'
      <3> DEFINE r == InTurn(q, kind, batch, summary)
      <3>1. /\ queues' = [queues EXCEPT ![o] = r] /\ current' = current
            /\ presented' = presented \cup Range(batch)
        BY <2>5 DEF StartTurn, InTurn
      <3>2. /\ r.items = q.items /\ r.kind = kind /\ r.pc = "turn" /\ r.batch = batch
            /\ r.drop = "new" /\ r.dropped = {}
        BY <2>3 DEF QueueState, InTurn
      <3>3. TakenOut(r) = Len(batch)
        BY <2>5, TurnBatch
      <3>4. /\ batch \in Seq(Msgs) /\ Len(batch) \in Nat /\ Len(batch) <= Len(q.items)
            /\ \A i \in 1..Len(batch) : batch[i] = q.items[i]
            /\ Range(batch) \subseteq Range(q.items)
        BY <2>5, BatchIsFront
      <3> HIDE DEF r
      <3>5. \A i \in 1..TakenOut(r) : r.items[i] \in presented'
        BY <3>1, <3>2, <3>3, <3>4 DEF Range
      <3>6. Unshed(r, presented')
        BY <2>5, <3>2, <3>3, <3>4, <3>5 DEF Unshed
      <3>7. queues'[o] = r /\ \A x \in Objects \ {o} : queues'[x] = queues[x]
        BY <1>0, <3>1 DEF MapOK
      <3>8. current = o /\ \A x \in Objects \ {o} : queues[x] = Garbage
        BY <1>0, <2>2, SoleIsCurrent DEF Sole
      <3>9. Sole'
        BY <3>1, <3>7, <3>8 DEF Sole
      <3> QED
        BY <2>2, <2>3, <3>1, <3>2, <3>6, <3>7, <3>8, <3>9, KeptOfCurrent
    <2> QED
      BY <2>1, <2>3, <2>4, <2>5 DEF StartsWith
  <1>2. ASSUME NEW o \in Objects, TurnEnds(o) PROVE Kept'
    <2> DEFINE q == AfterTurn(queues[o])
    <2>1. /\ q \in QueueState /\ queues[o].pc = "turn" /\ TakenOut(queues[o]) \in Nat
          /\ q.items = SubSeq(queues[o].items, TakenOut(queues[o]) + 1, Len(queues[o].items))
          /\ q.drop = "new" /\ q.dropped = {}
          /\ UNCHANGED history /\ UNCHANGED <<accepted, presented, shed>>
      <3>1. /\ q \in QueueState /\ TakenOut(queues[o]) \in Nat
            /\ q.items = SubSeq(queues[o].items, TakenOut(queues[o]) + 1, Len(queues[o].items))
            /\ q.drop = queues[o].drop /\ q.dropped \subseteq queues[o].dropped
        BY <1>0, AfterTurnState
      <3>2. queues[o].drop = "new" /\ queues[o].dropped = {}
        BY <1>0 DEF Unshed
      <3>3. queues[o].pc = "turn" /\ UNCHANGED history /\ UNCHANGED <<accepted, presented, shed>>
        BY <1>2 DEF TurnEnds, history
      <3> HIDE DEF q
      <3> QED
        BY <3>1, <3>2, <3>3
    <2>2. Range(queues[o].items) \subseteq Range(q.items) \cup presented
      <3> DEFINE s == queues[o].items
                 n == TakenOut(queues[o])
      <3>1. s \in Seq(Msgs) /\ n \in Nat
        BY <1>0, <2>1 DEF QueueState
      <3>2. \A i \in 1..Len(s) : i <= n => s[i] \in presented
        BY <1>0, <2>1 DEF Unshed
      <3>3. q.items = SubSeq(s, n + 1, Len(s))
        BY <2>1
      <3> HIDE DEF s, n, q
      <3>4. /\ q.items \in Seq(Msgs) /\ Len(q.items) = IF n <= Len(s) THEN Len(s) - n ELSE 0
            /\ \A i \in 1..Len(q.items) : q.items[i] = s[i + n]
        BY <3>1, <3>3, Suffix
      <3>5. ASSUME NEW i \in 1..Len(s), ~(i <= n) PROVE s[i] \in Range(q.items)
        <4>1. i - n \in 1..Len(q.items) /\ (i - n) + n = i
          BY <3>1, <3>4, <3>5
        <4>2. q.items[i - n] = s[i]
          BY <3>4, <4>1
        <4> QED
          BY <3>4, <4>1, <4>2 DEF Range
      <3>6. Range(s) \subseteq Range(q.items) \cup presented
        BY <3>1, <3>2, <3>5 DEF Range
      <3> QED
        BY <3>6 DEF s
    <2>3. CASE EndDrain(o, q)
      BY <2>1, <2>2, <2>3, KeptEndDrain
    <2>4. CASE ~EndDrain(o, q)
      <3>1. queues' = [queues EXCEPT ![o] = Waiting(q)] /\ current' = current
        BY <1>2, <2>4 DEF TurnEnds, ContinueDrain
      <3>2. /\ Waiting(q).items = q.items /\ Waiting(q).pc = "waiting"
            /\ Waiting(q).drop = "new" /\ Waiting(q).dropped = {}
        BY <2>1, WaitingState
      <3> HIDE DEF q
      <3>3. Unshed(Waiting(q), presented')
        BY <3>2 DEF Unshed
      <3>4. current = o /\ \A x \in Objects \ {o} : queues[x] = Garbage
        BY <1>0, <2>1, SoleIsCurrent DEF Sole
      <3>5. queues'[o] = Waiting(q) /\ \A x \in Objects \ {o} : queues'[x] = queues[x]
        BY <1>0, <3>1 DEF MapOK
      <3>6. Sole'
        BY <3>1, <3>4, <3>5 DEF Sole
      <3> QED
        BY <2>1, <2>2, <3>1, <3>2, <3>3, <3>4, <3>5, <3>6, KeptOfCurrent
    <2> QED
      BY <2>3, <2>4
  <1>3. ASSUME NEW o \in Objects, TurnFails(o) PROVE Kept'
    <2> DEFINE q == queues[o]
    <2>1. /\ q.pc = "turn" /\ EndDrain(o, q) /\ presented' = presented \ Range(q.batch)
          /\ UNCHANGED <<accepted, shed>>
      BY <1>3 DEF TurnFails
    <2>2. Range(q.batch) \subseteq Range(q.items) /\ q.drop = "new" /\ q.dropped = {}
      BY <1>0, <2>1 DEF Unshed
    <2> QED
      BY <1>0, <2>1, <2>2, KeptEndDrain
  <1>4. ASSUME NEW m \in Msgs, RunEnds(m) PROVE Kept'
    <2>1. /\ ScheduleFollowupDrain(queues) /\ UNCHANGED history
          /\ UNCHANGED <<accepted, presented, shed>>
      BY <1>4 DEF RunEnds, history
    <2>2. Sole'
      BY <1>0, <2>1, ScheduleResult
    <2>3. CASE current' = current /\ \A x \in Objects : queues'[x] = queues[x]
      <3>1. NothingVanishes /\ NothingVanishes'
        BY <2>1, <2>3 DEF Kept, NothingVanishes, Queued
      <3> QED
        BY <1>0, <2>1, <2>3, <3>1 DEF Kept
    <2>4. CASE ~(current' = current /\ \A x \in Objects : queues'[x] = queues[x])
      <3> DEFINE o == current
                 q == queues[o]
      <3>1. /\ o \in Objects
            /\ \/ current' = o /\ queues'[o] = Waiting(q)
               \/ ~HasWork(q) /\ current' = NoQueue /\ NoQueue # o
        BY <1>0, <2>1, <2>4, ScheduleResult, FollowupQueueAssumption
      <3>2. \A x \in Objects \ {o} : queues[x] = Garbage
        BY <1>0 DEF Sole
      <3>3. ~HasWork(q) => Range(q.items) = {}
        BY DEF HasWork, Range
      <3>4. CASE current' = o /\ queues'[o] = Waiting(q)
        <4>1. q \in QueueState /\ Unshed(q, presented)
          BY <1>0, <3>1
        <4>2. Waiting(q).items = q.items /\ Unshed(Waiting(q), presented')
          BY <4>1, WaitingState DEF Unshed
        <4> HIDE DEF q
        <4>3. /\ queues'[o].items = q.items /\ Unshed(queues'[o], presented')
          BY <3>4, <4>2
        <4> QED
          BY <2>1, <2>2, <3>1, <3>2, <3>4, <4>3, KeptOfCurrent DEF q
      <3>5. CASE ~HasWork(q) /\ current' = NoQueue /\ NoQueue # o
        BY <2>1, <2>2, <3>1, <3>2, <3>3, <3>5, KeptOfCurrent
      <3> QED
        BY <3>1, <3>4, <3>5
    <2> QED
      BY <2>3, <2>4
  <1>5. ASSUME NEW m \in Msgs, Arrive(m) \/ Redeliver(m) \/ ForgetId(m) PROVE Kept'
    <2>1. UNCHANGED <<queues, current, accepted, presented, shed>>
      BY <1>5 DEF Arrive, Redeliver, ForgetId, history
    <2> QED
      BY <1>0, <2>1 DEF Kept, NothingVanishes, Queued
  <1>6. ASSUME NEW m \in Msgs, NEW o \in Objects, NEW s \in Settings, EnqueueFollowupRun(m, o, s)
        PROVE  Kept'
    <2> DEFINE q == WithSettings(queues[o], s)
    <2>1. /\ current' = o
          /\ \/ UNCHANGED history /\ queues' = [queues EXCEPT ![o] = q]
             \/ UNCHANGED history /\ queues' = [queues EXCEPT ![o] = [q EXCEPT !.hasRun = TRUE]]
             \/ /\ m \notin Range(q.items)
                /\ accepted' = accepted \cup {m} /\ presented' = presented \ {m}
                /\ shed' = (shed \ {m}) \cup Range(Overflow(q))
                /\ \/ queues' = [queues EXCEPT ![o] = Enqueued(q, m)]
                   \/ ~q.draining /\ queues' = [queues EXCEPT ![o] = Waiting(Enqueued(q, m))]
      BY <1>6, EnqueueCases
    <2>2. \A x \in Objects \ {o} : queues[x] = Garbage
      BY <1>0, <1>6, FollowupQueueAssumption DEF EnqueueFollowupRun, Sole
    <2>3. \A r : queues' = [queues EXCEPT ![o] = r] => queues'[o] = r /\ Sole'
      BY <1>0, <2>1, <2>2 DEF MapOK, Sole
    <2>4. /\ q \in QueueState /\ q.items = queues[o].items /\ q.batch = queues[o].batch
          /\ q.pc = queues[o].pc /\ q.kind = queues[o].kind /\ q.draining = queues[o].draining
          /\ q.dropped = queues[o].dropped /\ q.drop = "new"
      BY <1>0, SettingsState
    <2>5. Unshed(q, presented) /\ q.items \in Seq(Msgs)
      BY <1>0, <2>4 DEF Unshed, TakenOut, QueueState
    <2> HIDE DEF q
    <2>6. ASSUME UNCHANGED history, NEW r \in {q, [q EXCEPT !.hasRun = TRUE]},
                 queues' = [queues EXCEPT ![o] = r]
          PROVE  Kept'
      <3>1. UNCHANGED <<accepted, presented, shed>>
        BY <2>6 DEF history
      <3>2. /\ r.items = q.items /\ r.batch = q.batch /\ r.pc = q.pc /\ r.kind = q.kind
            /\ r.drop = q.drop /\ r.dropped = q.dropped
        BY <2>4, <2>6 DEF QueueState
      <3>3. Unshed(r, presented')
        BY <2>5, <3>1, <3>2 DEF Unshed, TakenOut
      <3> QED
        <4>1. queues'[o] = r /\ Sole' /\ r.items = queues[o].items
          BY <2>3, <2>4, <2>6, <3>2
        <4>2. ASSUME NEW n \in accepted'
              PROVE  /\ n \in accepted /\ (n \in shed => n \in shed')
                     /\ n \in Range(queues[o].items) \cup presented
                          => n \in Range(queues'[o].items) \/ n \in presented'
          BY <3>1, <4>1
        <4> QED
          BY <2>1, <2>2, <3>3, <4>1, <4>2, KeptOfCurrent
    <2>7. ASSUME m \notin Range(q.items), accepted' = accepted \cup {m},
                 presented' = presented \ {m}, shed' = (shed \ {m}) \cup Range(Overflow(q)),
                 NEW w \in {Enqueued(q, m), Waiting(Enqueued(q, m))},
                 w.pc = "turn" => w = Enqueued(q, m) /\ q.pc = "turn",
                 queues' = [queues EXCEPT ![o] = w]
          PROVE  Kept'
      <3> DEFINE r == Enqueued(q, m)
      <3>1. Overflow(q) = <<>>
        BY <2>4 DEF Overflow
      <3>2. r.items = Append(q.items, m)
        <4>1. r.items = Append(SubSeq(q.items, 0 + 1, Len(q.items)), m)
          BY <2>4, <3>1, EnqueuedState DEF Pushed
        <4>2. SubSeq(q.items, 1, Len(q.items)) = q.items
          BY <2>5, SubSeqFull
        <4> QED
          BY <4>1, <4>2
      <3>3. /\ r \in QueueState /\ r.pc = q.pc /\ r.batch = q.batch /\ r.kind = q.kind
            /\ r.drop = "new"
        BY <2>4, EnqueuedState
      <3>4. r.dropped = {}
        BY <2>4, <2>5 DEF Enqueued, Unshed, QueueState
      <3> HIDE DEF r
      <3>5. /\ w.items = r.items /\ w.drop = "new" /\ w.dropped = {}
            /\ w.pc = "turn" => w = r /\ q.pc = "turn"
        BY <2>7, <3>3, <3>4, WaitingState DEF r
      <3>6. Range(w.items) = Range(q.items) \cup {m}
        BY <2>5, <3>2, <3>5 DEF Range
      <3>7. ASSUME w.pc = "turn"
            PROVE  /\ w.kind \in {"single", "collect"} /\ TakenOut(w) <= Len(w.items)
                   /\ Range(w.batch) \subseteq Range(w.items)
                   /\ \A i \in 1..TakenOut(w) : w.items[i] \in presented'
        <4>1. /\ w.kind = q.kind /\ w.batch = q.batch /\ q.pc = "turn" /\ TakenOut(w) = TakenOut(q)
          BY <3>3, <3>5, <3>7 DEF TakenOut
        <4>2. /\ q.kind \in {"single", "collect"} /\ TakenOut(q) <= Len(q.items)
              /\ Range(q.batch) \subseteq Range(q.items) /\ TakenOut(q) \in Nat
              /\ \A i \in 1..TakenOut(q) : q.items[i] \in presented
          BY <2>4, <2>5, <4>1, AfterTurnState DEF Unshed
        <4>3. ASSUME NEW i \in 1..TakenOut(q)
              PROVE  w.items[i] \in presented'
          <5>1. i \in 1..Len(q.items)
            BY <2>5, <4>2
          <5>2. w.items[i] = q.items[i] /\ q.items[i] # m
            BY <2>5, <2>7, <3>2, <3>5, <5>1 DEF Range
          <5> QED
            BY <2>7, <4>2, <5>2
        <4>4. Len(w.items) = Len(q.items) + 1 /\ Len(q.items) \in Nat
          BY <2>5, <3>2, <3>5
        <4> QED
          BY <3>6, <4>1, <4>2, <4>3, <4>4
      <3>8. Unshed(w, presented')
        BY <3>5, <3>7 DEF Unshed
      <3>9. queues'[o] = w /\ Sole'
        BY <2>3, <2>7
      <3>10. ASSUME NEW n \in accepted'
             PROVE  \/ n \in Range(queues'[o].items)
                    \/ /\ n \in accepted /\ (n \in shed => n \in shed')
                       /\ n \in Range(queues[o].items) \cup presented
                            => n \in Range(queues'[o].items) \/ n \in presented'
        BY <2>4, <2>7, <3>6, <3>9
      <3> QED
        BY <2>1, <2>2, <3>8, <3>9, <3>10, KeptOfCurrent
    <2>8. ASSUME m \notin Range(q.items), accepted' = accepted \cup {m},
                 presented' = presented \ {m}, shed' = (shed \ {m}) \cup Range(Overflow(q)),
                 \/ queues' = [queues EXCEPT ![o] = Enqueued(q, m)]
                 \/ queues' = [queues EXCEPT ![o] = Waiting(Enqueued(q, m))]
          PROVE  Kept'
      <3>1. /\ Enqueued(q, m).pc = "turn" => q.pc = "turn"
            /\ Waiting(Enqueued(q, m)).pc # "turn"
        BY <2>4, EnqueuedState, WaitingState
      <3> QED
        BY <2>7, <2>8, <3>1
    <2> QED
      BY <2>1, <2>6, <2>8
  <1>7. CASE ClearSessionQueues
    BY <1>7 DEF ClearSessionQueues, Kept
  <1>8. CASE UNCHANGED followupVars
    <2>1. UNCHANGED <<queues, current, accepted, presented, shed, stopped>>
      BY <1>8 DEF followupVars, history
    <2> QED
      BY <1>0, <2>1 DEF Kept, NothingVanishes, Queued
  <1> QED
    BY <1>1, <1>2, <1>3, <1>4, <1>5, <1>6, <1>7, <1>8 DEF FollowupNext

LEMMA KeptInit == FollowupInit => Kept
  <1> SUFFICES ASSUME FollowupInit PROVE Kept
    OBVIOUS
  <1>1. /\ \A o \in Objects : queues[o] = Garbage
        /\ accepted = {}
    BY DEF FollowupInit
  <1> QED
    BY <1>1, GarbageIsUnshed DEF Kept, NothingVanishes

\* With the policy new (the others take messages out amid a turn, and its end then removes
\* others in their place) a message that enqueueFollowupRun took waits until it is given
\* to the agent, unless the session is stopped.
THEOREM FollowupsAreKept ==
    ASSUME \A s \in Settings : s.drop = "new"
    PROVE  FollowupSpec => []NothingVanishesUnstopped
  <1>1. FollowupTypeOK /\ Order /\ Kept /\ [FollowupNext]_followupVars => Kept'
    BY KeptStep
  <1>2. Kept => NothingVanishesUnstopped
    BY DEF Kept, NothingVanishesUnstopped
  <1> QED
    BY <1>1, <1>2, KeptInit, OrderInvariant, PTL DEF FollowupSpec
=============================================================================
