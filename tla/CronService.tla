----------------------------- MODULE CronService -----------------------------
(***************************************************************************)
(* The cron service of the gateway (src/cron/service/): jobs kept in one   *)
(* JSON file, a timer that runs the due ones, manual runs, edits, and the  *)
(* catch-up of a starting gateway.                                         *)
(*                                                                         *)
(* Everything that touches the store runs inside locked(): such sections   *)
(* exclude each other and write the file at most once, at their end, so    *)
(* each is one action.  Jobs are executed outside of them, and what holds  *)
(* two executions of a job apart is the running mark in its record.        *)
(*                                                                         *)
(* Time is counted in ticks from 0 to MaxTime.  An armed timer may fire at *)
(* any moment: it wakes at least once a minute whatever it was armed for.  *)
(* Sections without a reload work on the copy in memory, as the code does. *)
(***************************************************************************)
EXTENDS Integers, FiniteSets, FiniteSetsExt

CONSTANTS
    Jobs,             \* job ids; an id is never given out twice
    Fresh,            \* those that do not exist at first
    Kinds,            \* the schedule kinds the jobs may have
    Times,            \* the times a one-shot can be set to
    Period,           \* of an "every" schedule, and between cron slots
    DeletesAfterRun,  \* one-shots with deleteAfterRun
    Outcomes,         \* how executions may end
    Backoff,          \* backoff after the n-th error in a row
    RefireGap,        \* MIN_REFIRE_GAP_MS
    StuckAfter,       \* STUCK_RUN_MS
    MaxAttempts,      \* retries of a one-shot after transient errors
    MaxImmediate,     \* maxMissedJobsPerRestart
    Stagger,          \* missedJobStaggerMs
    Concurrency,      \* maxConcurrentRuns
    MaxTime, MaxCrashes, MaxRequests,   \* bounds of the model
    None              \* undefined

ASSUME CronAssumption ==
    /\ Fresh \cup DeletesAfterRun \subseteq Jobs
    /\ Kinds \subseteq [Jobs -> {"at", "every", "cron"}]
    /\ Outcomes \subseteq {"ok", "skipped", "error", "transient"}
    /\ Times \subseteq Nat
    /\ Period \in Nat \ {0} /\ Concurrency \in Nat \ {0}
    /\ {RefireGap, StuckAfter, MaxAttempts, MaxImmediate, Stagger, MaxTime,
        MaxCrashes, MaxRequests} \subseteq Nat
    /\ DOMAIN Backoff = 1..(MaxAttempts + 1) /\ \A n \in DOMAIN Backoff : Backoff[n] \in Nat
    /\ None \notin Nat

VARIABLES
    now,
    kind,      \* the schedule kind of each job
    disk,      \* the store file: a record for each job there is
    mem,       \* state.store
    unused,    \* ids not given out yet
    phase,     \* how far start() has come
    timer,     \* state.timer is set
    running,   \* state.running
    execs,     \* executions begun, queued, or ended but not applied
    plan,      \* what start() has to remember
    crashes, requests,   \* how many there were
    touched,   \* history: jobs a user edited since their last result
    putOff,   \* history: jobs a start put off since their last result
    excused    \* history: jobs whose executions the mark stopped protecting

store == <<disk, mem>>
control == <<phase, timer, running, plan>>
history == <<touched, putOff, excused>>
vars == <<now, kind, store, unused, control, execs, crashes, requests, history>>

NewJob(time) == [enabled |-> TRUE, time |-> time, next |-> None, mark |-> None,
                 lastRun |-> None, status |-> "none", errors |-> 0]

NoPlan == [skip |-> {}, deferred |-> {}]

Before(s, t) == s # None /\ s < t
Reached(t) == t # None /\ t <= now
Later(s, t) == IF s > t THEN s ELSE t
-----------------------------------------------------------------------------
(* When a job runs next. *)

\* Cron slots are the multiples of Period.
SlotAfter(t) == ((t \div Period) + 1) * Period
SlotBefore(t) == ((t - 1) \div Period) * Period

\* computeNextRunAtMs for "every": the grid point at or after t, but the anchor
\* itself only before it is reached.
GridPoint(anchor, t) ==
    IF t < anchor THEN anchor
    ELSE anchor + Period * Later(1, (t - anchor + Period - 1) \div Period)

ComputeJobNextRunAt(j, r, t) ==
    IF ~r.enabled THEN None
    ELSE CASE kind[j] = "every" -> IF r.lastRun # None /\ r.lastRun + Period > t
                                   THEN r.lastRun + Period ELSE GridPoint(r.time, t)
           [] kind[j] = "cron"  -> SlotAfter(t)
           [] kind[j] = "at"    -> IF r.status = "ok" /\ ~Before(r.lastRun, r.time)
                                   THEN None ELSE r.time

\* normalizeJobTickState: a disabled job has neither a next run nor a mark, and
\* a mark that is too old is stuck.
NormalizeJobTickState(r) ==
    [r EXCEPT !.next = IF r.enabled THEN @ ELSE None,
              !.mark = IF ~r.enabled \/ Before(@, now - StuckAfter) THEN None ELSE @]

\* recomputeNextRuns
RecomputeNextRuns(s) ==
    [j \in DOMAIN s |->
        LET r == NormalizeJobTickState(s[j])
        IN IF r.enabled /\ (r.next = None \/ Reached(r.next))
           THEN [r EXCEPT !.next = ComputeJobNextRunAt(j, r, now)] ELSE r]

MaintainedFaulty(s, expired) == RecomputeNextRuns(s)

\* recomputeNextRunsForMaintenance: repairs what is missing; of what is past due
\* it advances (if expired) only slots that were executed.
Maintained(s, expired) ==
    [j \in DOMAIN s |->
        LET r == NormalizeJobTickState(s[j])
            executed == r.mark = None /\ r.lastRun # None /\ r.next # None
                            /\ Reached(r.next) /\ r.lastRun >= r.next
        IN IF r.enabled /\ (r.next = None \/ (expired /\ executed))
           THEN [r EXCEPT !.next = ComputeJobNextRunAt(j, r, now)] ELSE r]

\* nextWakeAtMs is defined, so armTimer sets a timer.
HasNextWake(s) == \E j \in DOMAIN s : s[j].enabled /\ s[j].next # None

-----------------------------------------------------------------------------
(* What the outcome of an execution makes of its job: applyJobResult. *)

ErrorBackoff(n) == Backoff[Max({1, Min({n, MaxAttempts + 1})})]

DisablesFaulty(j, e, errors) == kind[j] = "at" /\ e.outcome \notin {"ok", "transient"}

\* A one-shot that is done, failed for good, or failed once too often.
Disables(j, e, errors) ==
    /\ kind[j] = "at"
    /\ e.outcome = "transient" => errors > MaxAttempts

NextAfterFaulty(j, r, e, errors) == ComputeJobNextRunAt(j, r, e.end)

\* The next run of a job that goes on: a retry of a one-shot, or the next time of
\* its schedule, but not before the backoff after an error has passed.
NextAfter(j, r, e, errors) ==
    LET retry == e.end + ErrorBackoff(errors)
        natural == ComputeJobNextRunAt(j, r, e.end)
    IN IF kind[j] = "at" THEN retry
       ELSE IF ~r.enabled THEN None
       ELSE CASE errors > 0                       -> Later(natural, retry)
              [] errors = 0 /\ kind[j] = "cron"   -> Later(natural, e.end + RefireGap)
              [] errors = 0 /\ kind[j] = "every"  -> natural

\* The record of job j after execution e of it.  A forced run of an "every" job
\* keeps its rhythm: the next run is computed from the previous one.
ApplyJobResult(j, r, e) ==
    LET failed == e.outcome \in {"error", "transient"}
        errors == IF failed THEN Min({r.errors, MaxAttempts}) + 1 ELSE 0
        done == [r EXCEPT !.mark = None, !.lastRun = e.start, !.errors = errors,
                          !.status = IF failed THEN "error" ELSE e.outcome]
        basis == IF e.via = "force" /\ kind[j] = "every"
                 THEN [done EXCEPT !.lastRun = r.lastRun] ELSE done
    IN IF Disables(j, e, errors)
       THEN [done EXCEPT !.enabled = FALSE, !.next = None]
       ELSE [done EXCEPT !.next = NextAfter(j, basis, e, errors)]

Deletes(j, e) == kind[j] = "at" /\ j \in DeletesAfterRun /\ e.outcome = "ok"

\* applyOutcomeToStoredJob for each of the results (of different jobs) es; those
\* of jobs that are gone are discarded.
Applied(s, es) ==
    LET result(j) == CHOOSE e \in es : e.job = j
        jobs == {e.job : e \in es}
    IN [j \in {k \in DOMAIN s : ~(k \in jobs /\ Deletes(k, result(k)))} |->
            IF j \in jobs THEN ApplyJobResult(j, s[j], result(j)) ELSE s[j]]

-----------------------------------------------------------------------------
(* Executions. *)

Exec(j, via, state, start) ==
    [job |-> j, via |-> via, state |-> state, start |-> start,
     end |-> None, outcome |-> "none", live |-> via = "tick"]

Of(via) == {e \in execs : e.via = via}

Settled(js) == touched' = touched \ js /\ putOff' = putOff \ js

\* A reload replaces the job objects that queued executions of a tick hold.
Reloaded(es) == {[e EXCEPT !.live = FALSE] : e \in es}

IsErrorBackoffPending(j, r) ==
    /\ kind[j] # "at" /\ r.status = "error" /\ r.lastRun # None
    /\ now < r.lastRun + ErrorBackoff(r.errors)

IsRunnableFaulty(j, r) == r.enabled /\ Reached(r.next)

\* isRunnableJob for a tick.
IsRunnable(j, r) == r.enabled /\ r.mark = None /\ Reached(r.next)

\* isRunnableJob for the catch-up of a start: not what was interrupted, no
\* one-shot that is done, but also cron jobs with a slot missed since they ran.
IsMissed(j, r) ==
    /\ r.enabled /\ r.mark = None /\ j \notin plan.skip
    /\ IF kind[j] = "at" /\ r.status # "none"
       THEN r.status = "error" /\ r.next # None /\ r.next > r.lastRun /\ Reached(r.next)
       ELSE \/ Reached(r.next)
            \/ /\ kind[j] = "cron" /\ r.lastRun # None
               /\ r.next = None \/ ~IsErrorBackoffPending(j, r)
               /\ Before(r.lastRun, SlotBefore(now))

Marked(s, js) == [j \in DOMAIN s |-> IF j \in js THEN [s[j] EXCEPT !.mark = now] ELSE s[j]]

\* Executions of a job that is disabled, or that outlast the bound, lose the
\* protection of the mark until they are over.
Excused ==
    {j \in {e.job : e \in execs'} :
        \/ j \in excused
        \/ \E s \in {disk', mem'} : j \in DOMAIN s
              /\ (~s[j].enabled \/ Before(s[j].mark, now' - StuckAfter))}

-----------------------------------------------------------------------------
(* A starting gateway: start() in four sections. *)

Init ==
    /\ now = 0
    /\ kind \in Kinds
    /\ unused = Fresh
    /\ \E times \in [Jobs -> Times] :
         disk = [j \in Jobs \ Fresh |->
                    LET r == NewJob(IF kind[j] = "at" THEN times[j] ELSE 0)
                    IN [r EXCEPT !.next = ComputeJobNextRunAt(j, r, 0)]]
    /\ mem = <<>>
    /\ phase = "down" /\ plan = NoPlan
    /\ timer = FALSE /\ running = FALSE
    /\ execs = {}
    /\ crashes = 0 /\ requests = 0
    /\ touched = {} /\ putOff = {} /\ excused = {}

StartLoadsFaulty ==
    /\ phase = "down"
    /\ mem' = disk
    /\ plan' = [NoPlan EXCEPT !.skip = {j \in DOMAIN disk : disk[j].mark # None}]
    /\ phase' = "planning"
    /\ UNCHANGED <<now, kind, disk, unused, timer, running, execs, crashes, requests,
                   touched, putOff>>

\* The store's first load; executions that a crash interrupted lose their marks.
StartLoads ==
    /\ phase = "down"
    /\ disk' = [j \in DOMAIN disk |-> [disk[j] EXCEPT !.mark = None]]
    /\ mem' = disk'
    /\ plan' = [NoPlan EXCEPT !.skip = {j \in DOMAIN disk : disk[j].mark # None}]
    /\ phase' = "planning"
    /\ UNCHANGED <<now, kind, unused, timer, running, execs, crashes, requests, touched, putOff>>

\* planStartupCatchup: the first few of the missed jobs are to run at once.
PlanStartupCatchup ==
    LET missed == {j \in DOMAIN mem : IsMissed(j, mem[j])}
    IN /\ phase = "planning"
       /\ IF missed = {} THEN phase' = "arming" /\ UNCHANGED <<store, execs, plan>>
          ELSE \E first \in SUBSET missed :
                 /\ Cardinality(first) = Min({MaxImmediate, Cardinality(missed)})
                 /\ \A j \in first, k \in missed \ first : ~Before(mem[k].next, mem[j].next)
                 /\ mem' = Marked(mem, first)
                 /\ disk' = mem'
                 /\ execs' = execs \cup {Exec(j, "catchup", "queued", None) : j \in first}
                 /\ plan' = [plan EXCEPT !.deferred = missed \ first]
                 /\ phase' = "catchup"
       /\ UNCHANGED <<now, kind, unused, timer, running, crashes, requests, touched, putOff>>

\* Missed jobs beyond the first few get later turns, one Stagger after another.
Deferred(s) ==
    LET todo == {j \in plan.deferred \cap DOMAIN s : s[j].enabled}
    IN {[j \in DOMAIN s |-> IF j \in todo THEN [s[j] EXCEPT !.next = now + Stagger * turn[j]]
                            ELSE s[j]] :
           turn \in {f \in [todo -> 1..Cardinality(todo)] :
                        \A j, k \in todo : j # k => f[j] # f[k]}}

\* applyStartupCatchupOutcomes
ApplyStartupCatchup ==
    /\ phase = "catchup"
    /\ \A e \in Of("catchup") : e.state = "ended"
    /\ \E s \in Deferred(Applied(disk, Of("catchup"))) : mem' = Maintained(s, FALSE)
    /\ disk' = mem'
    /\ execs' = Reloaded(execs \ Of("catchup"))
    /\ phase' = "arming"
    /\ touched' = touched \ {e.job : e \in Of("catchup")}
    /\ putOff' = (putOff \ {e.job : e \in Of("catchup")}) \cup plan.deferred
    /\ UNCHANGED <<now, kind, unused, timer, running, plan, crashes, requests>>

\* The end of start(): past-due jobs that did not run are moved on, and the
\* timer is armed.
StartArms ==
    /\ phase = "arming"
    /\ mem' = RecomputeNextRuns(disk)
    /\ disk' = mem'
    /\ timer' = HasNextWake(mem')
    /\ execs' = Reloaded(execs)
    /\ phase' = "started"
    /\ UNCHANGED <<now, kind, unused, running, plan, crashes, requests, touched, putOff>>

\* The gateway dies, between two sections.
Crash ==
    /\ crashes < MaxCrashes /\ phase # "down"
    /\ crashes' = crashes + 1
    /\ phase' = "down" /\ plan' = NoPlan
    /\ timer' = FALSE /\ running' = FALSE
    /\ mem' = <<>> /\ execs' = {}
    /\ UNCHANGED <<now, kind, disk, unused, requests, touched, putOff>>

-----------------------------------------------------------------------------
(* The timer: onTimer. *)

\* The first section: reload, and mark what is due.  With nothing due, the tick
\* is over; while another tick is running it only sets the timer again.
TimerFires ==
    LET due == {j \in DOMAIN disk : IsRunnable(j, disk[j])}
    IN /\ timer /\ ~running
       /\ IF due = {}
          THEN /\ mem' = Maintained(disk, TRUE)
               /\ timer' = HasNextWake(mem')
               /\ execs' = Reloaded(execs)
               /\ UNCHANGED running
          ELSE /\ mem' = Marked(disk, due)
               /\ timer' = TRUE
               /\ execs' = Reloaded(execs) \cup {Exec(j, "tick", "queued", None) : j \in due}
               /\ running' = TRUE
       /\ disk' = mem'
       /\ UNCHANGED <<now, kind, unused, phase, plan, crashes, requests, touched, putOff>>

Executing(via) == Cardinality({e \in Of(via) : e.state = "running"})

\* A worker of a tick, or the loop of a catch-up, takes up the next job.  (They
\* do so in the order of the store; here in any.)  A tick's job gets a new mark,
\* in the object the tick holds.
ExecBegins(e) ==
    /\ e.state = "queued"
    /\ Executing(e.via) < IF e.via = "tick" THEN Concurrency ELSE 1
    /\ execs' = (execs \ {e}) \cup {[e EXCEPT !.state = "running", !.start = now]}
    /\ mem' = IF e.live THEN Marked(mem, {e.job}) ELSE mem
    /\ UNCHANGED <<now, kind, disk, unused, control, crashes, requests, touched, putOff>>

\* An execution ends, fails or times out.
ExecEnds(e, outcome) ==
    /\ e.state = "running"
    /\ execs' = (execs \ {e}) \cup
                  {[e EXCEPT !.state = "ended", !.end = now, !.outcome = outcome]}
    /\ UNCHANGED <<now, kind, store, unused, control, crashes, requests, touched, putOff>>

TickEndsFaulty ==
    /\ running
    /\ \A e \in Of("tick") : e.state = "ended"
    /\ mem' = Maintained(Applied(disk, Of("tick")), FALSE)
    /\ disk' = mem'
    /\ execs' = Reloaded(execs \ Of("tick"))
    /\ timer' = HasNextWake(mem')
    /\ Settled({e.job : e \in Of("tick")})
    /\ UNCHANGED <<now, kind, unused, running, phase, plan, crashes, requests>>

\* The last section of a tick: reload, apply the results, arm the timer.  (The
\* sweep of old sessions before running is reset is left out.)
TickEnds ==
    /\ running
    /\ \A e \in Of("tick") : e.state = "ended"
    /\ mem' = Maintained(Applied(disk, Of("tick")), FALSE)
    /\ disk' = mem'
    /\ execs' = Reloaded(execs \ Of("tick"))
    /\ running' = FALSE
    /\ timer' = HasNextWake(mem')
    /\ Settled({e.job : e \in Of("tick")})
    /\ UNCHANGED <<now, kind, unused, phase, plan, crashes, requests>>

-----------------------------------------------------------------------------
(* Requests, once the store is loaded.  None of them reloads it. *)

\* (Bound: MaxRequests of those that change something.)
Request == requests < MaxRequests /\ requests' = requests + 1

Persisted(s) == mem' = s /\ disk' = s /\ timer' = HasNextWake(s)

\* add: recomputes all jobs, whatever is past due.
Add(j, time) ==
    LET new == NewJob(IF kind[j] = "at" THEN time ELSE now)
    IN /\ phase # "down" /\ Request /\ j \in unused
       /\ unused' = unused \ {j}
       /\ Persisted(RecomputeNextRuns([k \in DOMAIN mem \cup {j} |->
            IF k = j THEN [new EXCEPT !.next = ComputeJobNextRunAt(j, new, now)] ELSE mem[k]]))
       /\ UNCHANGED <<now, kind, phase, running, execs, plan, crashes, touched, putOff>>

\* update, with a patch of the schedule or of enabled.  (Of the others it only
\* repairs a missing next run, as ListJobs does.)
Update(j, enabled, time) ==
    LET r == [mem[j] EXCEPT !.enabled = enabled, !.time = time]
    IN /\ phase # "down" /\ Request /\ j \in DOMAIN mem
       /\ kind[j] # "at" => time = mem[j].time
       /\ Persisted([mem EXCEPT ![j] =
            IF enabled THEN [r EXCEPT !.next = ComputeJobNextRunAt(j, r, now)]
            ELSE [r EXCEPT !.next = None, !.mark = None]])
       /\ touched' = touched \cup {j}
       /\ UNCHANGED <<now, kind, unused, phase, running, execs, plan, crashes, putOff>>

Remove(j) ==
    /\ phase # "down" /\ Request /\ j \in DOMAIN mem
    /\ Persisted([k \in DOMAIN mem \ {j} |-> mem[k]])
    /\ UNCHANGED <<now, kind, unused, phase, running, execs, plan, crashes, touched, putOff>>

\* list, status and the like (ensureLoadedForRead): persists what it repaired.
ListJobs ==
    /\ phase # "down" /\ mem # Maintained(mem, FALSE)
    /\ mem' = Maintained(mem, FALSE)
    /\ disk' = mem'
    /\ UNCHANGED <<now, kind, unused, control, execs, crashes, requests, touched, putOff>>

\* inspectManualRunDisposition, and a manual run that is refused: repairs the
\* copy in memory only.
RefuseManualRun ==
    /\ phase # "down" /\ mem # Maintained(mem, FALSE)
    /\ mem' = Maintained(mem, FALSE)
    /\ UNCHANGED <<now, kind, disk, unused, control, execs, crashes, requests, touched, putOff>>

\* prepareManualRun, mode "due" or "force".  (Bound: no two manual runs of the
\* same job at once.)
PrepareManualRun(j, mode) ==
    LET s == Maintained(mem, FALSE)
    IN /\ phase # "down" /\ Request /\ j \in DOMAIN mem
       /\ s[j].mark = None
       /\ mode = "due" => s[j].enabled /\ Reached(s[j].next)
       /\ ~\E e \in execs : e.job = j /\ e.via \in {"due", "force"}
       /\ mem' = Marked(s, {j})
       /\ disk' = mem'
       /\ execs' = execs \cup {Exec(j, mode, "running", now)}
       /\ UNCHANGED <<now, kind, unused, control, crashes, touched, putOff>>

\* finishPreparedManualRun: the outcome is applied to the job in memory, and what
\* becomes of the job is put into the reloaded store, if it is still there.
FinishManualRun(e) ==
    LET r == ApplyJobResult(e.job, mem[e.job], e)
    IN /\ e.via \in {"due", "force"} /\ e.state = "ended"
       /\ IF e.job \notin DOMAIN mem
          THEN execs' = execs \ {e} /\ UNCHANGED <<store, timer>>
          ELSE /\ execs' = Reloaded(execs \ {e})
               /\ Persisted(Maintained(
                    IF Deletes(e.job, e) THEN [j \in DOMAIN disk \ {e.job} |-> disk[j]]
                    ELSE [j \in DOMAIN disk |->
                            IF j = e.job THEN [r EXCEPT !.time = disk[j].time] ELSE disk[j]], TRUE))
       /\ Settled({e.job})
       /\ UNCHANGED <<now, kind, unused, phase, running, plan, crashes, requests>>

-----------------------------------------------------------------------------
TimePasses ==
    /\ now < MaxTime
    /\ now' = now + 1
    /\ UNCHANGED <<kind, store, unused, control, execs, crashes, requests, touched, putOff>>

Next ==
    /\ \/ StartLoads \/ PlanStartupCatchup \/ ApplyStartupCatchup \/ StartArms \/ Crash
       \/ TimerFires \/ TickEnds \/ ListJobs \/ RefuseManualRun \/ TimePasses
       \/ \E e \in execs : ExecBegins(e) \/ FinishManualRun(e)
       \/ \E e \in execs, outcome \in Outcomes : ExecEnds(e, outcome)
       \/ \E j \in Jobs, time \in Times : Add(j, time)
       \/ \E j \in DOMAIN mem : \E time \in Times \cup {mem[j].time}, enabled \in BOOLEAN :
            Update(j, enabled, time)
       \/ \E j \in Jobs : Remove(j)
       \/ \E j \in Jobs, mode \in {"due", "force"} : PrepareManualRun(j, mode)
    /\ excused' = Excused

Spec == Init /\ [][Next]_vars
=============================================================================
