------------------------- MODULE CronServiceProperties -------------------------
(* What the cron service promises. *)
EXTENDS CronService

JobRecord ==
    [enabled : BOOLEAN, time : Nat, next : Nat \cup {None}, mark : Nat \cup {None},
     lastRun : Nat \cup {None}, status : {"none", "ok", "skipped", "error"},
     errors : 0..(MaxAttempts + 1)]

Execution ==
    [job : Jobs, via : {"tick", "catchup", "due", "force"},
     state : {"queued", "running", "ended"}, start : Nat \cup {None},
     end : Nat \cup {None}, outcome : Outcomes \cup {"none"}, live : BOOLEAN]

\* Types; executions of a tick exist exactly while the running flag is up.
TypeOK ==
    /\ now \in 0..MaxTime
    /\ kind \in Kinds
    /\ \A s \in {disk, mem} : DOMAIN s \subseteq Jobs /\ \A j \in DOMAIN s : s[j] \in JobRecord
    /\ unused \subseteq Jobs
    /\ phase \in {"down", "planning", "catchup", "arming", "started"}
    /\ timer \in BOOLEAN /\ running \in BOOLEAN
    /\ execs \subseteq Execution
    /\ plan.skip \subseteq Jobs /\ plan.deferred \subseteq Jobs
    /\ crashes \in 0..MaxCrashes /\ requests \in 0..MaxRequests
    /\ touched \cup putOff \cup excused \subseteq Jobs
    /\ running <=> Of("tick") # {}

\* The running mark keeps executions of one job apart, those of ticks, of the
\* catch-up and of manual runs, as long as it may: a job that was disabled
\* meanwhile or ran longer than STUCK_RUN_MS is excused until it is over.
OneRunAtATime ==
    \A j \in Jobs \ excused : Cardinality({e \in execs : e.job = j}) <= 1

\* The scheduler does not die, nor forget a job ("silently killing the scheduler
\* until the next gateway restart", timer.ts:577): once started, and between two
\* ticks, the timer is armed if an enabled job has a next run; and a running mark
\* is in the file only while an execution will take it out again, but for the
\* time between a crash and the next start.
SchedulerLives ==
    /\ phase = "started" /\ ~running /\ HasNextWake(disk) => timer
    /\ phase # "down" => \A j \in DOMAIN disk :
         disk[j].mark # None => \E e \in execs : e.job = j

Begins(e) == e \in execs' /\ ~\E f \in execs : f.job = e.job /\ f.via = e.via

Automatic(e) == e.via \in {"tick", "catchup"}

\* "The full recomputeNextRuns would silently skip those jobs" (timer.ts:676): a
\* job that is due is not moved to a later time but by its own execution, by a
\* user's edit of it, or by what recomputes on purpose: add and start.
PastDueIsKept ==
    [][\A j \in DOMAIN disk \cap DOMAIN disk' :
         /\ disk[j].enabled /\ disk[j].mark = None /\ Reached(disk[j].next)
         /\ disk'[j].next # disk[j].next
         => \/ \E e \in execs \ execs' : e.job = j
            \/ j \in touched' \/ unused' # unused \/ phase' # phase]_vars

\* A one-shot that completed is not executed again by the scheduler, unless a
\* user edited it since.
OneShotRunsOnce ==
    [][\A e \in execs' :
         Begins(e) /\ Automatic(e) /\ kind[e.job] = "at" /\ disk[e.job].status \in {"ok", "skipped"}
         => e.job \in touched]_vars

\* The scheduler leaves a job that failed alone for the time of its backoff, also
\* across restarts, counted from when the failed run began.  (A start that puts
\* a job off sets its next run even if it ran and failed in the meantime.)
BackoffHonoured ==
    [][\A e \in execs' :
         Begins(e) /\ Automatic(e) /\ disk[e.job].status = "error"
         => \/ e.job \in touched \cup putOff
            \/ now >= disk[e.job].lastRun + ErrorBackoff(disk[e.job].errors)]_vars

\* "does not replay interrupted one-shot jobs on startup"
\* (service.restart-catchup.test.ts:200).
InterruptedIsNotReplayed ==
    [][\A e \in execs' :
         Begins(e) /\ Automatic(e) /\ kind[e.job] = "at" /\ e.job \in plan.skip
         => e.job \in touched]_vars
=============================================================================
