# Verification of the PropAi Sync gateway

TLA+ specifications of the gateway (`src/src/` of the repository, a TypeScript
program on Node), small instances that TLC checks, and proofs that TLAPS checks.
Paths below are relative to the repository; modules are in this directory.

    tlc -workers 2 -config CommandQueue_lanes.cfg MCCommandQueue.tla     one run
    tlapm QueueProofs.tla                                                proofs

Proofs are in the eight modules `*Proofs.tla`; `QueueProofs` has those of both queues
in memory, `HeartbeatProofs` those of the wake layer and of the runner.

`PROJECT.json` lists the runs with their properties, the source lines each
definition translates, the mutants, the hazards and what was found.

## 1. The system

The gateway is one Node process. It receives messages from channels (WhatsApp,
Telegram, web, ...), decides per session whether and when an agent runs, runs the
agent, and sends replies back. Schedulers (cron, heartbeats) start agent runs on
their own. State is kept in the memory of the process and in files next to it;
command line processes use the same files.

JavaScript interleaves only at an `await`, a timer or a callback, so the hard
behaviour is: state read before an await and used after it, callbacks that run
nested in a loop, objects replaced in a map while a coroutine still holds the
old one, timers that race answers, crashes between two file operations, and
other processes on the same files.

| Part | State | Operations | Works with | What is hard | What makes it correct |
|---|---|---|---|---|---|
| **Command queue** `process/command-queue.ts` | per lane: queue, active task ids, width, draining flag, generation | enqueue, pump, complete, resize, clear, drain mark, reset, wait for active | every agent run (session lane, then global lane), cron's manual runs | tasks start inside the pump's loop and re-enter it; completions after a reset | no slot leaked or overfilled, no lane with work and room left idle, first in first out |
| **Follow-up queue** `auto-reply/reply/queue/`, `utils/queue-helpers.ts` | per session: queue object (items, dropped count, mode, cap, policy), cached callback, ids seen | enqueue, overflow policy, debounce, collect, single and summary turns, retry, stop | fed by the reply pipeline while a run is active; its turns are agent runs | the queue changes under a turn; a stop replaces the object a drain holds | no message vanishes or is answered twice, order, caps |
| **Delivery queue** `infra/outbound/delivery-queue.ts`, `deliver.ts` | one file per message, retry count, `failed/` | write ahead, send, acknowledge, fail, recover, give up | replies of all channels; recovery at gateway start | crashes between file operations; recovery beside live senders | no message lost, none replayed after its acknowledgement, retries end |
| **Heartbeat wake layer** `infra/heartbeat-wake.ts` | pending wakes, one timer, running flag, handler generation | request, timer, handler call, retry, replace handler | heartbeat runner; cron and exec events request wakes | requests during a run; handlers replaced during a run | no wake lost or downgraded, none stranded, cooldown kept |
| **Heartbeat runner** `infra/heartbeat-runner.ts` | agents with due times, one alarm, enabled flag | alarm, handler call per wake, reload, stop | wake layer, main lane of the command queue | skips, retries and reloads during a call | next heartbeat is always ahead, none repeated, each due one served |
| **Agent runs** `agents/pi-embedded-runner/`, `agents/model-fallback.ts` | a command in a session lane holding one in a global lane; registry of active runs | run, retry, fall back, compact, stop | command queue twice | holding one lane while waiting for another | one run per session, no circular wait |
| **Cron service** `cron/service/` | job store file and its copy in memory, running marks, timer | timer tick, manual run, add, update, remove, restart | cron lane, agent runs, heartbeats | the store is reloaded between the phases of a run; marks left by crashes | a job runs once per slot and not twice at once |
| **Lock files** `agents/session-write-lock.ts`, `plugin-sdk/file-lock.ts` (`infra/gateway-lock.ts` is not modelled) | lock file with owner and date; locks held by this process | acquire, reenter, reclaim stale, release, watchdog | session transcripts, plugin and auth stores | check, then remove by path; owners that die | mutual exclusion, no lock held for ever |
| **Exec approvals** `gateway/exec-approval-manager.ts`, `agents/bash-tools.exec-host-node.ts` | pending map, decision, timers | register, resolve, expire, await, consume | node invocations, chat approvals | decision races expiry; grace period | a decision is used at most once |
| **Subagent registry** `agents/subagent-registry*.ts` | run records, cleanup claims, retry counts, file | register, complete, announce, defer, retry, steer, restore | agent runs, follow-up queue | several claims of one cleanup; restart between them | announced once if the call is answered, cleaned up once, never suppressed for ever |
| Pairing stores `infra/device-pairing.ts`, `pairing/` | pending and paired records in files | request, approve, reject, rotate, expire | gateway authentication, channels | several processes on one file | an approval is not lost |
| Reply dispatcher, inbound debounce `auto-reply/` | send chain, pending count; buffers per sender | enqueue reply, idle, flush | pipeline, delivery queue | completion and idle signals out of order | replies in order, idle exactly when all are sent |
| **Node registry** `gateway/node-registry.ts` | connected nodes, pending invocations | invoke, result, timeout, disconnect | exec approvals | late results | every invocation is answered once |

Parts in bold are modelled. The remaining parts (gateway protocol and rate limits, restart coordination,
ACP control plane, process supervision, configuration and sessions, agents and
providers, channels, memory and media, browser, plugins and hooks, secrets,
command line, licensing services, native apps) are listed in `PROJECT.json`
with the reason why each is not modelled: I/O, translation of data, sequential
code, or a later candidate.

How the modelled parts interact: a message becomes a command in a lane
(command queue); if a run of its session is active it waits in the follow-up
queue, whose turns are again such commands; replies pass through the delivery
queue; the heartbeat runner asks the wake layer for calls, each of which finds
the main lane busy (a size of the command queue) or runs the agent.
`HeartbeatRunner` extends `HeartbeatWake`, so those two are checked composed, and
`NodeExec` holds exec approvals, the exec tool and the node registry together.
The others meet through an interface that the models keep open: the command
queue accepts any command at any time, the follow-up queue may find a run active
or not, a send or an announcement may work or fail, and an execution of a cron
job takes any time and ends in any way. `AgentRuns` has runs of several lanes, manual
cron runs and agents that ask agents in one model, over lanes as `LaneScheduler` says.

## 2. The modules

Each component has a specification, a module with its properties
(`...Properties`), and a small instance (`MC...`) with its configurations.
Operators named `...Faulty` (also `ExhaustedLate`, `ExhaustedEarly`, `TakenOutAll`) are wrong versions of the operator they precede,
as a plausible bug would make them. No specification uses them: they are put in
its place, one at a time, to see that each property can fail.

### CommandQueue, LaneScheduler

`CommandQueue` translates `command-queue.ts` function by function. The pump
calls `entry.task()` inside its loop, so a task's code before its first await
runs on top of the pump and may enqueue in the same or in another lane. The
variable `stack` is that call stack: one frame per call of `drainLane` or `pump`,
with the task whose body is running. A new turn of the event loop (a caller, a
completion, the wait's poll) needs `Idle`. `EnqueueCommandInLane` is a turn of
its own or a call from a task's body. `CompleteTask` is `completeTask` with the
`.then` or `catch` around it, which do the same bookkeeping.
`resetAllLanes` is `ResetAllLanes` (first pass) and `ResetDrainsLane` (second
pass), with no other turn in between.

`LaneScheduler` is what the queue promises (docs/concepts/queue.md): a
first-in first-out server per lane with a bounded number of slots. It has
neither draining flag, pump, stack nor generation.

In this repository `markGatewayDraining`, `resetAllLanes` and
`waitForActiveTasks` are exported and tested but have no other caller; the
model lets them be called at any turn.

### FollowupQueue

One session. `FOLLOWUP_QUEUES` maps its key to an object; a drain holds on to
the object it began with. Hence queue objects have identities, `current` is the
one in the map, and an object nothing refers to is collected (`Live`). A drain is
suspended at two places only, the debounce (`pc = "waiting"`) and the agent turn
(`"turn"`); everything from one to the next is one action, the drain's loop and
its `finally` included. `EnqueueFollowupRun` is the whole handler: settings
taken over, duplicates, overflow policy, push, restart of the drain.
`Arrive`, `RunEnds` and the `phase` of a message model the pipeline's decision to
queue (`get-reply-run.ts`), which reads whether a run is active and awaits
before it queues. `ForgetId` is the expiry of an id in the cache of recent ids.
Prompts are abstracted to the messages in them, a summary to the messages it
counts. Mode `steer` and its relatives drain as `followup` does. `accepted`,
`earlier` (which message was accepted before which), `presented`, `reported` and
`shed` are history. The names of the specification and its state (`FollowupSpec`,
`followupVars`, ...) let one module extend it and `CommandQueue`.

### DeliveryQueue

Files outlive processes. Every await is a step: each send and each rename,
unlink, read and write. Senders run in the gateway or in a command line process
of their own (`by`). The gateway may die at any step (all its senders and the
recovery with it), a command too. Recovery lists the files, reads them one by
one in any order (`listed`, as a directory has none), and takes the oldest of
what it read (`todo`), which it retries, defers for backoff or gives up, until
none is left or its time budget is used up. Partial failures, `bestEffort`, `onError`, aborts and a
failing transcript mirror are the paths of `deliverOutboundPayloads`. The
upgrade of entries in an older format while loading is left out.

### HeartbeatWake, HeartbeatRunner

`HeartbeatWake` is `heartbeat-wake.ts`: `pending` holds the best priority per
target, one `timer` is normal or a retry cooldown. A run is the timer's callback,
suspended only while it awaits the handler. Time is ticks left on a timer; a due
timer may fire late. `owed` is history: what was requested and not yet answered.
The operators take the state as parameters so that the runner can use them in
actions of its own.

`HeartbeatRunner` extends it by `startHeartbeatRunner`: due times, alarm, the
call that walks over the agents (`walk`), reload of the configuration (new agent
objects under a call that walks over the old ones), stop, set-heartbeats.
Between awaits answered at once (microtasks) no timer fires: `Settled` guards
everything else. `runHeartbeatOnce` is abstracted to its answers: disabled,
skipped, main lane busy, ran or failed. Three variables are history: `quiet`, the
ticks until an agent's next interval heartbeat is no repetition, `lapsed`, the runners
that skipped a call because heartbeats were disabled, and `overlapped`, those that had
two calls under way.

### CronService

`service/timer.ts`, `ops.ts`, `jobs.ts` and `store.ts`. Whatever touches the store
runs inside `locked()`; such sections exclude one another and write the file once,
at their end, so each is one action. Jobs execute outside, and only the running
mark (`mark`) in a job's record keeps its executions apart. `disk` and `mem` are
the file and `state.store`; a section that reloads takes `disk` over, as the code
does. `execs` are executions from the moment a section decides on them until one
applies their outcome: of a tick (by `Concurrency` workers), of the catch-up and of
manual runs. `start()` is four sections (`StartLoads`, `PlanStartupCatchup`,
`ApplyStartupCatchup`, `StartArms`) with executions in between. Time is ticks. An
armed timer may fire at any moment, because the code wakes at least once a
minute. `Crash` may come between any two sections and leaves the file. Left out:
payloads and delivery, failure alerts, schedules that cannot be computed, the
sweep of old sessions, failing writes, and hot reloads, which replace the service
while a tick of the old one goes on.

### LockFile

One path and the two protocols over it (`kind`): session transcripts
(`session-write-lock.ts`) and plugin and auth stores (`file-lock.ts`). The code's
awaits separate creating the file, writing the payload (`Write`), entering the lock into
the table of the process (`Enter`), reading the payload, reading the modification time,
and removing the file by path; so do the actions. `at` is how far a
task has come, `seen` the lock it holds or the file it judged. `held` is
`HELD_LOCKS`, shared by the tasks of one process. Removing a path removes whatever
file is there: `misfired` remembers when that was another one than was meant,
`lapsed` the locks that the code lets others take from their owner: those that grew too
old, that the watchdog released, that a signal released though the process goes on, that
a cleanup met before their payload, and that a task of the same process took for orphans
before they were in the table. A process ends by dying (`Dies`), or by leaving
(`Exits`, which removes what its table holds); at a signal a gateway does neither, as it
has listeners of its own (`src/entry.ts:134`): `Signalled` releases its locks while its
tasks go on until the server is closed. Each task takes
the lock once, so a lock can have the name of the task that created it. The
gateway's own lock (`gateway-lock.ts`), kept open for its whole life, is not
modelled, nor are disk errors other than a failing write of the payload.

### NodeExec

A command of an agent on a paired node: `exec.approval.request` in two phases,
forwarding to operators, decision, expiry, the 15 seconds an entry is kept for late
waiters, `waitDecision` of the tool and its fallbacks, the check of `system.run`
calls that claim an approval, and the registry through which calls reach the node.
Tool, operator and node talk to the gateway by messages, so each handler is an
action and messages may be delayed; the age of an approval is the clock as far as
it matters. `Others` are calls of other clients that name the same run, with and
without claims. Abstracted: what a call must have in common with what was approved
(arguments, directory, device) is a refusal that may happen; a command denied as
obfuscated is one whose fallback is deny; waking a node is its outcome. Left out:
commands on the gateway's own host, requests answered in one phase, the first
request failing, the queue of actions for an iOS node in the background, allowlists.

### SubagentRegistry

`subagent-registry.ts` and its companions, with `subagent-announce.ts`. A run is a
session and a number (the number changes when the session is steered or woken).
`reg[s].e` is the run's record, `reg[s].m` what is in memory about it (`resumedRuns`,
timers, waits); `disk` is `runs.json`, written where the code calls
`persistSubagentRuns`. `flow` are calls of `runSubagentAnnounceFlow` under way,
suspended before they check, wake, deliver and finalise. A delivery is a call of the
agent of who asked, which awaits the end of the run it starts (`Ask`): it is answered
(`Deliver`), or left without an answer (`Unanswered`: "gateway timeout", a lost
connection, an error after the run was started) and then made again, up to `MaxAsks`
times in one try, handed to a steered run or the announce queue (`FallBack`), or given
up for this try (`DeliveryFails`). `announced` counts the tellings of a result, less those
whose call was left without an answer: who was called may have told it all the same, but
the code goes on as if not. The gateway remembers the idempotency key of such a call for
five minutes and not over a restart (`gateway/server-methods/agent.ts:208`); the model
lets it forget at any time. What a helper does to a
record is an operator on records (`Started`, `Resumed`, `Retried`, `Completed`), so
that each handler is one action that composes them as the code does. Every run is of
mode `run` and expects a completion message, as the spawn tool's are. Left out:
mode `session`, hooks and attachments, the announce queue's own work. Simplified:
two completions of a run under way at once are one; the backoff between tries is the
timer set for it; the expiry of half an hour is only met by runs that were put off, as
the tries of others end in minutes. A kill during a steer may in the code lead to two
records of one session; the model bounds that out in `Wake`.

### AgentRuns

`runEmbeddedPiAgent` is a command in the lane of its session which enqueues one in a
global lane and waits for it (`run.ts:273`); `compactEmbeddedPiSession` is the same
shape. A manual run of a cron job is a command in the cron lane that waits for such a
run. `stage` is how far a run is: in line for the cron, session or global lane, between
two attempts, in one, waiting there for another agent's answer (`asking`). Lanes are
`line` and `serving`, as in `LaneScheduler`, which the refinement justifies; a lane's
slots and line are known by the run. `active` is `ACTIVE_EMBEDDED_RUNS`, keyed by
session. `aborted` and `late` are the flags of the attempt under way (`aborted`,
`timedOut`), `signalled` the abort signal of a cron job that timed out. `Repeat` is the
`continue`s of the loop in `run.ts` that an aborted attempt does not reach (unless its
time ran out), `RefreshToken` the one that it does: a refused copilot token is refreshed
and the attempt repeated, aborted or not (`run.ts:1372`), though not twice in a row
(`refreshed`, the code's `authRetryPending`). `FallBack` is the next candidate of
`runWithModelFallback`, for which the run gives its lanes back and queues anew, and
`PromptAgain` the second prompt of a cron job whose run only said that it would begin
(`cron/isolated-agent/run.ts:684`), for which it does so too and has all models again. `Stop`
is what /stop, an interrupting message, `sessions.reset` and the kill of a subagent have
in common: the active run is aborted and the session's lane cleared. The cleared runs
that have a model left are back in line at once, in any order, as chains of promises of
different lengths lead from the queue to the model fallback. `stopped` is history: who
was found by a stop, less those for whom one of the exceptions below came to pass since.
Left out: what an attempt does with model and tools; the one retry of a whole reply after
a transient HTTP error, which a stopped run does not reach
(`auto-reply/reply/agent-runner-execution.ts:596`); draining before a restart; and runs
given an `enqueue` of their own. The flush of memory before a reply is a run of its own.


## 3. The runs

| Run | Instance | Shows |
|---|---|---|
| `command_queue` | 3 commands, 2 lanes, widths 0 and 2 requested, one reset | slots are the running tasks; no stalled lane; a wait's answer is honest; refines `LaneScheduler`; every queued command is served |
| `followup_safety` | 4 messages, 1 redelivered, 1 from another chat, 1 unroutable; policies summarize, old, new; caps 1 and 2 | arrival order, no message waits twice, presented once |
| `followup_stops` | 4 messages, 2 queue objects, stops, policy new, fairness | nothing vanishes from a session that was not stopped; what waits is drained once a callback is cached |
| `delivery_crashes` | 2 messages (2 payloads, 1 payload), one left by an earlier process, a fault, `MaxRetries` 2 | nothing lost, given up only for cause, never replayed once acknowledged |
| `delivery_settles` | the same, d1 with best effort and onError, no faults but any number of restarts between recoveries, fairness | every entry is settled in the end |
| `heartbeat_wake` | 2 targets, 2 priorities, 2 handlers, 2 runs at once | runs exclude one another, wakes are kept, none stranded |
| `heartbeat_interval` | 1 agent, interval 2, wakes for it and for all, fairness | the chain of heartbeats does not repeat; due ones are served |
| `cron_ticks` | 2 jobs, one added later (one-shot and cron, or interval and one-shot); times 0 to 2, one crash, two requests | executions of a job exclude one another, marks are always taken back, the timer stays armed, due jobs are not skipped, one-shots run once, backoff holds across restarts |
| `lock_files` | 4 tasks in 3 processes (2 share one), both protocols, 2 faults (deaths, signals, lapses, failing writes, cleanups), symmetry of the processes that are alike | who holds the lock beside another one, and which file is left behind, has a cause the code accepts |
| `node_exec` | 1 execution, 1 call of another client, 2 connections, every fallback, fairness | allow-once lets one call pass and deny none, no call waits for nobody, every execution ends |
| `subagent_announces` | a subagent with a subagent of its own (deleted afterwards), 2 tries of 1 call, one steer or wake each, one trouble, fairness | announced again only after a call without an answer, cleaned up for a cause, and settled in the end unless a stop abandoned it |
| `agent_runs` | a message, a /compact (one session), a manual cron run, a step of another agent (another session); lanes of 1 slot, 1 retry, 0 or 1 fallback model, fairness | one run per session, no circular wait, a stopped run calls the model no more (with four exceptions), what was requested ends |

Deadlock is checked, except in `cron_ticks` (time is bounded), `lock_files` (all
tasks done or dead), `node_exec` (all calls answered), `subagent_announces` (all
runs settled) and `agent_runs` (all runs done), where the system may stop.

**Bounds.** Each constant is the least at which the interesting case happens.
- *Command queue.* Two commands in one lane and one in the other give nested pumps
  of the same lane and of two lanes, a full lane, and a command that waits across a
  reset; `MaxGeneration` 1 gives a completion from a past generation. `Concurrency`
  has 0 for the clamp and 2 for a lane wider than one. First-in first-out order
  among three waiting commands is beyond that instance and covered by the proof.
- *Follow-up queue.* Four messages overflow a cap of 2 with one in a turn and a new
  one arriving; two queue objects are an old one that drains and the one in the map.
- *Delivery queue.* `MaxRetries` 2 separates the first failure, the last retry and
  giving up; one fault is a crash amid a recovery or a command, or a disk error. (A
  gateway that dies while no recovery is at work does so any number of times,
  whatever its senders are doing.)
- *Heartbeats.* `CoalesceMs` 1 and `RetryMs` 2 keep the order the code's delays
  have. Two handlers are one restart during a run. `heartbeat_interval` has one
  handler, so no restart, and one run: there `DueIsServed` is of one lifecycle of the
  gateway. `RunnerTypeOK`, `StaysScheduled` and `NoRepetition` were also checked with
  two handlers and two runs (390,946 states, outside the listed runs), where overlapping
  calls do occur; the proofs are for any number of both.
- *Cron.* Times 0, 1 and 2 are before, at and after a slot, and the stuck bound,
  the refire gap and the backoffs (1 and 2 ticks) can each end or not; one crash can
  fall into a tick, a catch-up or a manual run; two requests are an edit during a
  manual run, or an addition and a removal. `MaxImmediate` 1 puts one of two missed
  jobs off.
- *Lock files.* Three processes: one that holds or dies, one that judged, one that
  comes in between. Two tasks share the lock in one of them. Two faults are a death or
  a signal and a lapse. A process that dies may be one whose pid is given away.
- *Node exec.* Two connections are a node that comes back before its old connection
  closes; the second call is what a replay of the approval would be.
- *Subagents.* Two generations: the announcement of one waits for the other. One
  trouble (a failed run or wait, a kill, a steer, a sweep, a crash) at any place; with
  two (`MaxTroubles = 2` and `MaxAsks = 0`, 3,636,939 states, outside the listed runs) the
  safety properties hold as well. One call in each try can be answered or not; with two
  (`MaxAsks = 2`, 604,302 states, outside the listed runs) all properties hold as well.

- *Agent runs.* The four runs are one of each kind; the message and the compaction meet
  in their session's lane and in `main`, the cron run and the step in `nested` and in
  their session's lane, and the message may ask the step. Width 1 is the least, at which
  waiting in a circle would show first. One retry and one fallback model bring a run
  back to its lanes. The message's models may be served by Copilot; with all runs' models
  so (`Copilot` all, 840,092 states, outside the listed runs) all properties hold as well.

The type invariants of `FollowupQueue` (`FollowupTypeOK`), `HeartbeatRunner`
(`RunnerTypeOK`), `HeartbeatWake`, `NodeExec` and `AgentRuns` (`TypeOK`) hold in the
instances above as well; adding them to the configuration checks them. `lock_files` was
also checked with `StartTimes` false, three tasks in one process and one in another
(1,681,326 states, outside the listed runs); there, if a lock taken for an orphan before
it is in the table were not counted as doubtful, two tasks would hold the lock.

Symmetry is used only in runs without liveness, over sets whose members the
instance does not tell apart.

**Fairness.**
- `CommandQueue`: a turn that began ends, as JavaScript runs to completion
  (weak, `PumpStep` and `ResetDrainsLane`). A running task settles: agent
  runs have a timeout. It is strong because other turns keep interrupting.
- `FollowupQueue`: timers fire and runs end (weak); a turn that fails is tried
  again and succeeds some time (strong). Without the latter the code retries
  for ever, and that is all one can say.
- `DeliveryQueue`: promises settle and the gateway is restarted (weak). An entry
  that is first again and again finds its backoff over and time left in some
  recovery (strong, `RetryEntry` and `GiveUp`): the budget is a minute and
  entries are taken oldest first. No send need ever succeed.
- `HeartbeatRunner`: timers fire. Strong, because they are blocked for the length
  of a microtask between steps and so are enabled again and again, not
  continuously. Heartbeats end (weak). For each target the main lane is found
  free at some retry (strong): a lane busy for ever starves heartbeats.
- `NodeExec`: messages are handled and timers fire (weak). Operators, node and
  connections need never do anything.
- `SubagentRegistry`: what the gateway has begun goes on and its timers fire (weak,
  per session, as each is a chain of promises of its own). Runs need not end, and a
  gateway that crashed need not come back.

- `AgentRuns`: lanes are pumped (which `CommandQueue` shows), timers fire, attempts and
  compactions have a limit of time (weak, per run). No attempt need succeed, no answer
  need come, and a cron job need not time out.

`CronService` and `LockFile` state no liveness: a job is delayed for as long as
other jobs execute, and a contender may lose every race until it gives up.

### Departures from what the repository says

With each of the following configurations TLC finds the property violated. They are
no listed runs, to keep that list short.

| Configuration | Property | What happens | What says otherwise |
|---|---|---|---|
| `DeliveryQueue_besteffort` | `NothingLost` | recovery retries a best-effort entry without `onError`, so the error is swallowed and the entry acknowledged unsent (`deliver.ts:463`, `delivery-queue.ts:378-391`) | deliver.ts:459-461, "We track whether any payload failed so we can call failDelivery instead of ackDelivery" |
| `FollowupQueue_stop_race` | `NothingVanishes` | a drain that outlives a stop deletes the new queue object from the map (`queue/drain.ts:167`) | docs/concepts/queue.md:30 |
| `HeartbeatRunner_reenabled` | `EnabledMeansOn` | a wake skipped while heartbeats are disabled sets no timer, so enabling does not bring them back (`heartbeat-runner.ts:1126`); `StaysScheduled` says that nothing else stops them | docs/cli/system.md:41, "`enable`: turn heartbeats back on" |
| `CronService_interrupted` | `InterruptedIsNotReplayed` | an interrupted one-shot is left out of the catch-up, but the first tick runs it (`cron/service/ops.ts:119`) | service.restart-catchup.test.ts:200, "does not replay interrupted one-shot jobs on startup" |
| `NodeExec_fallback` | `FullAllows` | the fallback full does not allow a command on a node: the call is refused without an approval | docs/tools/exec-approvals.md:99-105 |
| `LockFile_race` | `Exclusive` | a file gone between reading and its modification time counts as stale, and another process's new lock is removed (`file-lock.ts:79-81`) | CHANGELOG.md:1897, "serialize ... writes with shared file locks" |
| `SubagentRegistry_announces`, with `Spec` and this property instead | `DeletedForCause` | a failed delivery of a session to be deleted deletes it all the same, and the retry prunes the run as an orphan | subagent-registry.ts:932, "Delete-mode is finalized only after announce succeeds or give-up triggers" |
| `AgentRuns_stop` | `StopIsFinal` | with fallback models, a run that a stop cleared from its session's lane has failed for the model fallback, which queues it again with the next model (`model-fallback.ts:707`) | docs/concepts/session.md:285, "abort the current run, clear queued followups for that session" |

Other departures were seen while modelling. The models have this behaviour, and
the properties are stated so as to allow it:
- *Follow-up queue*: a summary turn uses the first item for routing and then
  removes it unread (`queue/drain.ts:139`); drops counted during a summary turn
  are cleared unreported (`:127`); with policy old and a cap of 1, a drain removes
  after its turn a message that took the place of the one it processed; a followup
  drain with dropped messages and no items reschedules itself without end (`:169`);
  a collect queue whose policy changes from summarize runs empty turns
  (`queue-helpers.ts:199`); a message queued behind a run that ended meanwhile waits
  for the next callback (`get-reply-run.ts:453`).
- *Delivery queue*: `failDelivery` writes back an entry that another sender
  acknowledged after it was read (`delivery-queue.ts:179`); recovery takes entries
  of live senders (`:187`), for which `NeverReplayed` excepts overlapped deliveries
  and `TypeOK` allows one counted failure more; a crash between a send and the
  rename of its acknowledgement sends the message again (`:378`).
- *Heartbeats*: a wake put off while a normal timer is set gets no cooldown
  (`heartbeat-wake.ts:123`); after a restart the old run's end clears the flag of
  the new one, which `RunsExclude` states with its exact bound, and an alarm that
  rang meanwhile then begins an interval heartbeat beside the one under way, also
  when the old runner was stopped before the new one started (so `NoRepetition`
  excepts a runner that had two calls under way, `overlapped`); a targeted wake
  that finds the lane busy advances the agent's schedule
  (`heartbeat-runner.ts:1171`); a reload during a heartbeat repeats it (`:1178`).
- *Cron*: `add` recomputes all jobs and moves due ones on without running them; the
  outcome of a one-shot that was rescheduled while it ran disables or deletes the
  rescheduled job; a job that a start put off has its next run overwritten although
  it ran meanwhile; backoff in the catch-up counts from the start of the failed run.
  Not modelled: after a hot reload the old service's tick goes on re-arming its timer,
  and `telegram/target-writeback.ts:173` rewrites the store outside `locked()`.
- *Exec*: the answer to a request without a route is null even if an operator
  decided meanwhile; a `waitDecision` later than the 15 seconds of grace loses the
  decision; closing an old connection unregisters the node although it has a newer
  one; a call failed by a disconnect or a timeout is reported as denied although the
  node may have run it.
- *Lock files*: a signal releases all session locks of a gateway at once, while its tasks
  go on until the server is closed (`session-write-lock.ts:229`, `src/entry.ts:134`;
  session-write-lock.test.ts:348 asserts that the process is not ended), so another
  process may take a lock whose holder is still writing; where start times cannot be had,
  a task may take a lock of its own process for an orphan in the moment between the
  writing of the payload and the entry into the table (`:493`, `:501`, `:372`). Such locks
  are `lapsed`, and `SoleHolder` makes an exception of them (`Doubtful`).
- *Subagents*: a crash during an announcement leaves the claim in the file, so the
  run is never announced and its parent waits for it until the expiry; a crash
  between the mark of a steer and its replacement leaves the run suppressed
  (`Abandoned` names both; docs/tools/subagents.md:290 calls announcements best
  effort); a call that was accepted and ends in a "gateway timeout"
  (`subagent-announce.ts:110`) counts as failed, so it is made again, the announce queue
  takes over, or a later try calls again, and the result may be told twice once the
  gateway has forgotten the call's key; a kill during a steer is undone when the steer succeeds; and a run that
  does not expect a completion message has no timer for its retries (not modelled).
- *Agent runs*: a stop does not reach a run that waits in a global lane or is between
  two attempts, as it is neither in its session's lane nor registered; an attempt that
  was stopped and whose timer fires before its end is repeated on another profile
  (`run.ts:1403`); one that was stopped and whose token was refused is repeated with a
  refreshed one, as that `continue` has no `!aborted` in its condition (`run.ts:1372`); a
  cron job whose run was stopped after it only said that it would begin prompts it again,
  as it asks its own signal alone (`cron/isolated-agent/run.ts:657`); a stop during the
  flush of memory before a reply aborts the flush, and the reply's run follows
  (`agent-runner-memory.ts:499`, `agent-runner.ts:227`); an agent that runs in the nested lane (an isolated cron run, a step
  of another agent) and asks another agent cannot get its answer before its patience
  ends, as the answer waits for the lane it holds, and the same holds for one that asks
  back a session that waits for it (docs/tools/index.md:487 has it wait for an answer).


## 4. The proofs

`QueueProofs` on `CommandQueue`, for every set of lanes, every finite set of tasks, every
`LaneOf`, every set of widths and any number of resets
(`CommandQueueAssumption`):

| Theorem | States |
|---|---|
| `TypeCorrect` | `Spec => []TypeOK` |
| `NoLaneStalls` | `Spec => []NoStalledLane` |
| `SlotsNeverLeak` | `Spec => []SlotsAreRunningTasks` |
| `StartsAreBounded` | `Spec => StartsIntoFreeSlot`, an action property (no run checks it) |
| `DrainedIsHonest` | `Spec => []DrainedMeansSettled` |
| `QueueImplementsScheduler` | `Spec => ImplementsLaneScheduler`, the refinement |

None of these is inductive as it stands. The argument:

- *Stack.* Five lemmas say what pushing, popping and changing the top frame do to
  the sequence; every later step cites them rather than opening sequences.
- *No lane stalls.* `NoStalledLane` speaks only of `Idle` states, so it must
  be carried through the turn. `StallIsTemporary` does: a lane with work and room
  has a frame on the stack or is still to be drained by a reset. When `drainLane`
  returns early because the lane is draining, its frame goes, so one needs
  `DrainingIsPumped`: a draining flag has its pump below on the stack. This is
  where a flag left behind would show.
- *Slots.* `SlotsAreRunningTasks` needs that what the pump shifts off is a task
  of that lane that has not started (`QueuesHoldQueued`: entries are the lane's,
  queued, and distinct) and that no task was started in a generation to come
  (`NoFutureGeneration`), or a reset might adopt an old task.
- *Waiting.* A snapshot consists of started tasks (`SnapshotWasStarted`), and slots
  are running tasks, so a task of the snapshot that holds no slot has finished or
  is of an earlier generation.
- *Refinement.* With those invariants each action is a step of `LaneScheduler` or
  a stutter: pump bookkeeping stutters, `PumpStart` is `Start`, `CompleteTask` is
  `Finish` whether or not it gives back a slot, a refused enqueue is `Refuse`.

`QueueProofs` on `FollowupQueue`, for every set of messages and of queue objects, any
settings that change from message to message, and stops at any time
(`FollowupQueueAssumption`):

| Theorem | States |
|---|---|
| `FollowupTypeCorrect` | `FollowupSpec => []FollowupTypeOK` |
| `FollowupsKeepOrder` | `FollowupSpec => []InArrivalOrder` |
| `FollowupsPresentOnce` | `FollowupSpec => PresentedOnce`, an action property |
| `FollowupsAreKept` | policy new throughout: `FollowupSpec => []NothingVanishesUnstopped` |

The argument. Until a stop only the map's object is in use (`Sole`), as no other call
replaces it under a drain. In its items the messages ascend in `earlier`; as no message
is accepted before itself, this also says that none waits twice, which is the duty of
the dedupe by content once an id has expired. What breaks most easily is that items are
added and taken off the front while a turn works on a copy of them, and that its end
takes off as many as it had. `Orderly` therefore says where a message that was presented
can still wait: among the first `TakenOut` items, in a turn, and in that turn's batch.
So the end of the turn removes all of them, whatever the overflow policy did meanwhile,
and the next turn finds none. TLC had checked `Order` with stops and two objects.
`FollowupsAreKept` needs the other direction, that the end of a turn removes nothing
else. This holds where nothing is removed amid a turn (`Unshed`: what the turn was
started with stays at the front), hence the hypothesis: with the policies old and
summarize the code removes others in their place, a departure listed above.

`LockFileProofs`, for any finite sets of tasks and processes, any number of faults,
both protocols, and with or without start times of processes (`LockFileAssumption`):

| Theorem | States |
|---|---|
| `LockTypeCorrect` | `Spec => []TypeOK` |
| `LockHasSoleHolder` | `Spec => []SoleHolder` |
| `LockIsNotLeaked` | `Spec => []NoLeakedLock` |

The argument. A lock has the name of the task that created its file. `Order` ties the
tasks to the table of their process: who writes or enters sees its own lock, the table
and the holders have locks of their own process whose files are written, and a process
that is not alive does nothing. `Marks` says which locks are in doubt when the file is old or
the watchdog has taken one. `Tidiness` is the heart: for every lock not in doubt, and as
long as no path was removed by mistake, its owners have their file at the path, the count
in `HELD_LOCKS` is that of the holders, the last one to release is alone, and whoever is
about to remove the file has a cause the invariant names (a dead owner; without start
times also a lock its process does not hold any more). Two holders would then have the
same file, so they are tasks of one process that share it. `CalmFirst` says that session
locks need none of those exceptions before the first fault: no file is ever judged stale.
For `NoLeakedLock`, `NoneLeft` says that a complete file of a living process is in its
table or about to be removed, unless something misfired or lapsed.

`AgentRunsProofs`, for any finite set of runs, any sessions, any number of slots of the
global lanes, any number of retries and fallback models (`AgentRunsAssumption`):

| Theorem | States |
|---|---|
| `SessionsRunOneByOne` | `Spec => []OneRunPerSession` |
| `RunsNeverWaitInACircle` | `Spec => []NoCircularWait` |
| `TypeCorrect` | `Spec => []TypeOK` (no run checks it) |
| `StoppedRunsAreOver` | `Spec => StoppedCallsNoMore` |

The argument. The stage of a run says which slots it holds (`SessionSlots`,
`GlobalSlots`, `CronSlots`): that is the invariant, and it needs nothing of the lines.
A session's lane has one slot, so a run enters it when nobody holds it (`Alone`).
Whoever waits in a global lane waits for runs at work; whoever waits in a session's lane
for runs at work or in a global lane; a cron job for runs in any of the others. This
order is what the rule of `lanes.ts:10` buys, that the run of a cron job does not take
the cron lane. A run in `stopped` is in an aborted attempt (`StoppedIsOver`), after which
neither `Repeat` nor `FallBack` is possible; `RefreshToken` and `PromptAgain` are, and
take it out of `stopped`. `TypeOK` says besides types that the runs in
line are those that wait, once each and in the lane of their stage (`Lines`): what a stop
clears and what comes back are the same runs, and a run joins a line only from a stage
in which it is in none.

`NodeExecProofs`, for any executions, other clients' calls and connections
(`NodeExecAssumption`):

| Theorem | States |
|---|---|
| `ExecTypeCorrect` | `Spec => []TypeOK` |
| `OnceIsOnce` | `Spec => []OnceMeansOnce` |
| `CallsWaitForANode` | `Spec => []WaitsForANode` |

The argument. `KeptOf` goes with one execution: its approval is unknown, undecided or
settled; it is requested once, before anything else happens for it; nothing passes as
approved before somebody decided; and what is left of the decision in the entry allows
no more than what was decided: an allowance for once is in the entry only as long as no
call has passed, a denial never becomes an allowance, and an entry that somebody decided
never looks as if the timer had settled it. The last is what keeps the fallback for
undecided approvals from letting a used allowance pass again. `Waiting` strengthens
`WaitsForANode` with `SessionIsNotClosed`: the registered connection is not a closed one.

`HeartbeatProofs` on `HeartbeatWake`, for any finite set of targets, any handlers, runs
and delays (`HeartbeatWakeAssumption`):

| Theorem | States |
|---|---|
| `RunsOverlapByRestarts` | `WakeSpec => []RunsExclude` |
| `PendingIsNeverStranded` | `WakeSpec => []PendingIsScheduled` |
| `FlagHasARun` | `WakeSpec => [](running => UnderWay # {})` |
| `WakesAreNeverLost` | `WakeSpec => []WakesAreKept` |
| `TypeCorrect` | `WakeSpec => []TypeOK` |

The argument. `RunsExclude` counts runs against handlers registered so far, which no
step keeps by itself: `OverlapsAreRestarts` adds that while the running flag is down the
runs are strictly fewer, so that the next timer may start one. A run that ends leaves the
flag down whoever raised it, which is why the bound is not one. For the wakes, every way
a run can end (`Ended`) sets a timer if anything is pending, and a timer that fires
either begins a run or sets itself again. What a run works on plays no part there:
`RunsTyped` only says that there are such sets. `WakesAreKept` is inductive with the types
(`WakesTyped`). A timer that fires moves all that is pending into its batch, which is a
bijection with the targets that have something pending (`BatchResult`, by counting), and
forgives only the wake at its head; a run that goes on moves what comes one place forward;
and one whose handler throws queues all of its batch again, which raises every target to
the highest of what it had and what came (`QueuedResult`). Runs of replaced handlers do the
same beside it, which is why the invariant speaks of all of them (`KeptIn`).

`HeartbeatProofs` on `HeartbeatRunner`, for any agents, any interval and any number of
runners, restarts and runs (`HeartbeatRunnerAssumption`):

| Theorem | States |
|---|---|
| `RunnerImplementsWakeLayer` | `Spec => WakeSpec`, so all of the above holds of it |
| `RunnerTypeCorrect` | `Spec => []RunnerTypeOK` |
| `HeartbeatsStayScheduled` | `Spec => []StaysScheduled` (no run checks it) |
| `HeartbeatsDoNotRepeat` | `Spec => NoRepetition`, an action property |

The argument. Each action of the runner is a step of the wake layer or a stutter (a tick
of which only the runner's alarm takes notice stutters there), so the layer's invariant
carries over. `WalkOK` ties a run of the layer to the call it awaits. `StaysScheduled` is
kept because every way out of a call sets the alarm, unless heartbeats were disabled;
that the alarm is the least of the due times (`MinResult`) takes the least-number
principle, for a set. `NoRepetition` relates two clocks: `quiet`, which counts down from
where an interval heartbeat was begun, and an agent's due time, which the code sets from
the beginning of the *call* when the heartbeat ends, ticks later. `DueIsQuiet` says that
`quiet` is at most the ticks left, unless the heartbeat is at work; `AdvanceIsQuiet` that
at work it is at most what the end will set. Both speak of one call at a time, hence
`CallsFollow`: the calls of a runner follow one another, unless it is in `overlapped`.
A reload under a call gives the call old agents, whose due times nobody reads any more.

`CronServiceProofs`, for any jobs, schedules and bounds (`CronAssumption`):

| Theorem | States |
|---|---|
| `JobsRunOneByOne` | `Spec => []OneRunAtATime` |
| `TypeCorrect` | `Spec => []TypeOK` |
| `SchedulerStaysAlive` | `Spec => []SchedulerLives` |
| `OneShotsRunOnce` | `Spec => OneShotRunsOnce`, an action property |
| `BackoffIsHonoured` | `Spec => BackoffHonoured`, an action property |
| `PastDueJobsAreKept` | `WaitsPositive`: `Spec => PastDueIsKept`, an action property |

The argument for the first. `OneRunAtATime` counts; `Alone` says the same of pairs. It is kept because
an execution begins only where the record has no mark, in the file or in the memory the
section works on, and `Protected` says that a job in execution has its mark in both,
unless it is excused (disabled meanwhile, or longer under way than `STUCK_RUN_MS`). So
each section of the service has to be shown to keep the marks of all jobs but those whose
execution it ends (`Keeps`): normalising, recomputing, maintenance, deferring, reloading
and applying outcomes each have a lemma. `NoReuse` is needed because a removed job may
still be executing: a new one must not get its id. `DownIsIdle` lets a start plan its
catch-up with nothing in execution.

`DeliveryQueueProofs`, for any deliveries and payloads, any number of retries and
faults, and any finite set of entries left behind (`DeliveryQueueAssumption`):

| Theorem | States |
|---|---|
| `NothingIsLost` | `BestEffort = {}`: `Spec => []NothingLost` |
| `GivenUpOnlyForCause` | `Spec => []GivenUpForCause` |
| `AcknowledgedStaysSo` | `Spec => []NeverReplayed` |
| `TypeCorrect` | `Spec => []TypeOK` |

The argument. `NothingLost` is about files, which only an acknowledgement takes away for
good, so what must be kept is a fact about places (`Ahead`): a sender that is at payload
n has sent those before n, and one about to acknowledge has sent all, or was aborted.
Payloads stay sent whoever sent them, so neither crashes nor a second sender of the same
entry disturb it. The premise is needed: a best-effort attempt passes payloads that
failed, and recovery then acknowledges (the departure under
`DeliveryQueue_besteffort.cfg`). `GivenUpForCause` compares a counter in the file with
attempts, and the file is read and rewritten in two steps by two senders. `CountedFor`
carries the strengthening: the count in the file, plus one for everybody between the
failure and its rewrite (`Outstanding`), is at most the failures there were; and so is
the count each of them has read. An update that overwrites another loses a failure, so
an entry may be tried more often than `MAX_RETRIES`, never less. `ReadFor` says the same
of what recovery has read, `MovedForCause` of the entry it is about to move.

`NeverReplayed` is about one file and two senders, each of which may put it back after
the other has renamed it. What keeps them apart is that a sender once done stays so
(`DoneStays`), and that recovery has an entry in hand once: listed, read or at work
(`HeldOnce`). Unless they overlapped, the sender was done when recovery listed the
entry, so it is done whenever recovery has it in hand (`Orphaned`). An acknowledgement
by the one then finds that the other is not at it, and leaves nobody who could write or
send it (`Over`): not even a recovery that is about to turn to it, as its list is empty
whenever none runs (`RecoveryUp`). Where they did overlap, the property fails in the
code too, and says so. `TypeOK` holds a bound that is not a type: the retry count of a
file passes `MAX_RETRIES` by one at most, although recovery checks a count that it read
earlier. The count together with the failure a live sender may still add is at most
`MAX_RETRIES` while recovery may count one itself (`Bounded`, `Retried`); a stale count
that a live sender writes back is never above the one in the file.

`SubagentRegistryProofs`, for any finite set of sessions, any parents, any number of
tries, calls in a try, steers, wakes and troubles (`SubagentRegistryAssumption`):

| Theorem | States |
|---|---|
| `TypeCorrect` | `Spec => []TypeOK` |
| `ToldOnce` | `Spec => []AnnouncedOnce` |
| `SettledForACause` | `Spec => []SettledForCause` |

The argument. `AnnouncedOnce` and the claim (`cleanupHandled`) are in different places,
and the claim is taken back on failures, kills and restarts, so the invariant says of
every record, in memory and on disk alike (`RecordOK`): a run of which a telling counts
(its call is under way, was cut off or was answered), or which is being announced, is
claimed, and not by a kill; while it is being announced it is not complete; no telling
counts of the runs that will take its place; a record that is complete has a cause. A
call left without an answer takes its telling back before the claim can be freed. That memory and disk satisfy
the same is what makes `Crash` and `Restart` harmless, and it holds because a step that
begins an announcement always writes the claim (`ChangesAreWritten`). A completion after
a kill frees the cleanup of a run of which, as it was the kill's, no telling counts. What
helpers make of a record (`Started`, `Resumed`, `Retried`, `Completed`) is shown once for
any record (`Sound`), so that each action cites it for all the sessions it touches.
`SteeringOK` says that a steer restarts the last run of its session, or the number of the
next one might be taken.

Every safety property that a listed run checks is so proved, three of them under the
premise that its theorem states (`NothingLost`, `PastDueIsKept`,
`NothingVanishesUnstopped`). Only model-checked is liveness: of `CommandQueue`,
`FollowupQueue`, `DeliveryQueue`, `HeartbeatRunner`, `NodeExec`, `SubagentRegistry` and
`AgentRuns`. Out of the proof system's reach are liveness under fairness and `ENABLED`,
induction over data (what a fold or a recursive function computes for every input), and
modules with RECURSIVE operators; no module here declares one.

## 5. The plan

In this order. A module marked * composes others.

1. `CommandQueue`, `LaneScheduler`, proofs: done.
2. `FollowupQueue`, `DeliveryQueue`, `HeartbeatWake`, `HeartbeatRunner`*: done,
   with proofs.
3. `CronService`, `LockFile`, `NodeExec`* (exec approvals, exec tool, node
   registry), `SubagentRegistry`: done, with proofs.
4. `AgentRuns`*: over `LaneScheduler` in place of the queue: done, with proofs.
5. Proofs left: none of a safety property that a listed run checks. Worth stating next
   are abstractions: a session as one server that runs visit in turn, for `AgentRuns`, and
   a lock with one owner, for `LockFile` without faults.
6. `ReplyDispatcher`, `PairingStore`, the gateway's lock: small, as the above allow.

**Not modelled**, and why, is in `PROJECT.json` with each component. In short: most
of the repository is adapters to services, translation of messages and
configuration, user interfaces, and prompts; there a step is a call to the outside
or a pure function of data, and a model would repeat the code without an
interleaving to check. What is left with a protocol of its own is the list above.
