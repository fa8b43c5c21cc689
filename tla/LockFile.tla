------------------------------- MODULE LockFile -------------------------------
(***************************************************************************)
(* The lock files that keep processes apart: those of session transcripts  *)
(* (src/agents/session-write-lock.ts) and those which plugins and the auth *)
(* stores use (src/plugin-sdk/file-lock.ts), here of one path.             *)
(*                                                                         *)
(* A lock is a file created exclusively, into which its creator then       *)
(* writes its pid and the time.  A contender that finds a file reads it,   *)
(* judges by what it read whether the lock is stale, and removes the file  *)
(* by its path, each in a step of its own: the file may be gone by then,   *)
(* or be another one.  Tasks of one process share a lock by a count in a   *)
(* table of that process.                                                  *)
(*                                                                         *)
(* Each task takes the lock at most once, so a lock (a file and the entry  *)
(* in the table) has the name of the task that created it.                 *)
(***************************************************************************)
EXTENDS Naturals

CONSTANTS
    Procs, Tasks,
    ProcOf,           \* the process of each task
    Kinds,            \* "session", "file": which of the two protocols
    StartTimes,       \* the platform tells when a process started (Linux)
    MaxFaults,        \* bound: of deaths, signals, failing writes, lapses, cleanups
    None              \* no file, no entry

ASSUME LockFileAssumption ==
    /\ ProcOf \in [Tasks -> Procs]
    /\ Kinds \subseteq {"session", "file"}
    /\ StartTimes \in BOOLEAN
    /\ MaxFaults \in Nat
    /\ None \notin Tasks

VARIABLES
    kind,
    file,      \* the lock at the path, or None
    written,   \* it has its payload
    old,       \* it is older than the stale bound
    proc,      \* of each process: alive, dead, or its pid given to another one
    held,      \* of each process: HELD_LOCKS at the path, a lock and a count
    at,        \* how far each task has come
    seen,      \* the lock a task holds or releases, or the file it judged
    forced,    \* of each process: the lock its watchdog is releasing
    sweep,     \* the lock that a cleanup of the directory found stale
    faults,
    lapsed,    \* history: locks that grew too old, that the watchdog or a signal
               \* released, that met a cleanup before their payload was written, or
               \* were taken for orphans before they were in the table
    misfired   \* history: a lock was released, or its file removed, for another one

disk == <<file, written, old>>
history == <<lapsed, misfired>>
vars == <<kind, disk, proc, held, at, seen, forced, sweep, faults, history>>

NotHeld == [lock |-> None, count |-> 0]

Init ==
    /\ kind \in Kinds
    /\ file = None /\ written = FALSE /\ old = FALSE
    /\ proc = [p \in Procs |-> "alive"]
    /\ held = [p \in Procs |-> NotHeld]
    /\ at = [t \in Tasks |-> "idle"]
    /\ seen = [t \in Tasks |-> None]
    /\ forced = [p \in Procs |-> None] /\ sweep = None
    /\ faults = 0
    /\ lapsed = {} /\ misfired = FALSE

Goes(t, from, to) == at[t] = from /\ at' = [at EXCEPT ![t] = to]

Sees(t, lock) == seen' = [seen EXCEPT ![t] = lock]

\* fs.rm of the path by somebody who means lock.
Unlink(lock) ==
    /\ file' = None /\ written' = FALSE /\ old' = FALSE
    /\ misfired' = (misfired \/ file \notin {lock, None})

(* Taking the lock *)

\* A process that holds the lock shares it.
Acquire(t) ==
    LET p == ProcOf[t]
    IN /\ IF held[p].lock # None
          THEN /\ Goes(t, "idle", "holding")
               /\ held' = [held EXCEPT ![p].count = @ + 1]
               /\ Sees(t, held[p].lock)
          ELSE Goes(t, "idle", "trying") /\ UNCHANGED <<held, seen>>
       /\ UNCHANGED <<kind, disk, proc, forced, sweep, faults, history>>

\* fs.open(lockPath, "wx")
Open(t) ==
    /\ IF file = None
       THEN /\ Goes(t, "trying", "writing")
            /\ file' = t /\ written' = FALSE /\ old' = FALSE
            /\ Sees(t, t)
       ELSE Goes(t, "trying", "reading") /\ UNCHANGED <<disk, seen>>
    /\ UNCHANGED <<kind, proc, held, forced, sweep, faults, history>>

\* The payload is written, to the file opened, be it still there or not.
Write(t) ==
    /\ Goes(t, "writing", "entering")
    /\ written' = (written \/ file = t)
    /\ UNCHANGED <<kind, file, old, proc, held, seen, forced, sweep, faults, history>>

\* The writer has its turn again, and enters the lock into the table, whatever is
\* there by now.
Enter(t) ==
    /\ Goes(t, "entering", "holding")
    /\ held' = [held EXCEPT ![ProcOf[t]] = [lock |-> t, count |-> 1]]
    /\ UNCHANGED <<kind, disk, proc, seen, forced, sweep, faults, history>>

Fault == faults < MaxFaults /\ faults' = faults + 1

\* Writing fails.  Only the session lock removes the file then.
WriteFails(t) ==
    /\ Fault
    /\ Goes(t, "writing", "done")
    /\ IF kind = "session" THEN Unlink(t) ELSE UNCHANGED <<disk, misfired>>
    /\ UNCHANGED <<kind, proc, held, seen, forced, sweep, lapsed>>

-----------------------------------------------------------------------------
(* Judging a lock that is there *)

\* The creator is dead.  The session lock notices also that its pid was given to
\* another process, where start times can be had.
CreatorIsGone(lock) ==
    \/ proc[ProcOf[lock]] = "dead"
    \/ proc[ProcOf[lock]] = "recycled" /\ kind = "session" /\ StartTimes

\* shouldTreatAsOrphanSelfLock: a lock of this very process that is not in its
\* table, where start times cannot be had.
IsOrphanSelf(t, lock) ==
    /\ kind = "session" /\ ~StartTimes
    /\ ProcOf[lock] = ProcOf[t] /\ held[ProcOf[t]].lock = None

\* What reading the payload leads to.  A payload that is not there yet, or not
\* any more, says nothing.
VerdictFaulty(t) ==
    IF file = None \/ ~written THEN "removing"
    ELSE IF CreatorIsGone(file) \/ old \/ IsOrphanSelf(t, file) THEN "removing"
    ELSE IF kind = "session" THEN "waiting" ELSE "statting"

Verdict(t) ==
    IF file = None \/ ~written THEN "statting"
    ELSE IF CreatorIsGone(file) \/ old \/ IsOrphanSelf(t, file) THEN "removing"
    ELSE IF kind = "session" THEN "waiting" ELSE "statting"

ReadPayload(t) ==
    /\ Goes(t, "reading", Verdict(t))
    /\ Sees(t, file)
    /\ lapsed' = IF file # None /\ written /\ at[file] = "entering" /\ IsOrphanSelf(t, file)
                 THEN lapsed \cup {file} ELSE lapsed
    /\ UNCHANGED <<kind, disk, proc, held, forced, sweep, faults, misfired>>

\* The time of the last modification.  If there is no file, the session lock
\* waits and tries again, the file lock takes it for stale.
StatFile(t) ==
    /\ Goes(t, "statting", IF old \/ (file = None /\ kind = "file") THEN "removing" ELSE "waiting")
    /\ Sees(t, file)
    /\ UNCHANGED <<kind, disk, proc, held, forced, sweep, faults, history>>

RemoveStale(t) ==
    /\ Goes(t, "removing", "trying")
    /\ Unlink(seen[t])
    /\ UNCHANGED <<kind, proc, held, seen, forced, sweep, faults, lapsed>>

TryAgain(t) ==
    /\ Goes(t, "waiting", "trying")
    /\ UNCHANGED <<kind, disk, proc, held, seen, forced, sweep, faults, history>>

\* The time, or the attempts, are used up.
GiveUp(t) ==
    /\ at[t] \in {"waiting", "trying"}
    /\ at' = [at EXCEPT ![t] = "done"]
    /\ UNCHANGED <<kind, disk, proc, held, seen, forced, sweep, faults, history>>

-----------------------------------------------------------------------------
(* Giving the lock back: releaseHeldLock *)

IsMineFaulty(t) == held[ProcOf[t]].lock = t

\* The session lock leaves a lock alone that is not the one it took.
IsMine(t) ==
    LET lock == held[ProcOf[t]].lock
    IN IF kind = "session" THEN lock = seen[t] ELSE lock # None

IsLastFaulty(p) == held[p].count = 0

IsLast(p) == held[p].count = 1

Release(t) ==
    LET p == ProcOf[t]
    IN /\ \/ /\ ~IsMine(t)
             /\ Goes(t, "holding", "done")
             /\ UNCHANGED <<held, seen>>
          \/ /\ IsMine(t) /\ ~IsLast(p)
             /\ Goes(t, "holding", "done")
             /\ held' = [held EXCEPT ![p].count = @ - 1]
             /\ UNCHANGED seen
          \/ /\ IsMine(t) /\ IsLast(p)
             /\ Goes(t, "holding", "releasing")
             /\ held' = [held EXCEPT ![p] = NotHeld]
             /\ Sees(t, held[p].lock)
       /\ misfired' = (misfired \/ (IsMine(t) /\ held[p].lock # seen[t]))
       /\ UNCHANGED <<kind, disk, proc, forced, sweep, faults, lapsed>>

RemoveReleased(t) ==
    /\ Goes(t, "releasing", "done")
    /\ Unlink(seen[t])
    /\ UNCHANGED <<kind, proc, held, seen, forced, sweep, faults, lapsed>>

\* runLockWatchdogCheck of the session locks: a lock held too long is released,
\* whoever goes on believing in it.
Watchdog(p) ==
    /\ kind = "session" /\ proc[p] = "alive"
    /\ held[p].lock # None /\ forced[p] = None
    /\ held' = [held EXCEPT ![p] = NotHeld]
    /\ forced' = [forced EXCEPT ![p] = held[p].lock]
    /\ Fault /\ lapsed' = lapsed \cup {held[p].lock}
    /\ UNCHANGED <<kind, disk, proc, at, seen, sweep, misfired>>

RemoveForced(p) ==
    /\ forced[p] # None
    /\ Unlink(forced[p])
    /\ forced' = [forced EXCEPT ![p] = None]
    /\ UNCHANGED <<kind, proc, held, at, seen, sweep, faults, lapsed>>

\* cleanStaleLockFiles, when a gateway starts: here a lock without a payload is
\* stale at once.
CleanupJudges ==
    /\ kind = "session" /\ sweep = None
    /\ file # None /\ (~written \/ CreatorIsGone(file) \/ old)
    /\ Fault
    /\ sweep' = file
    /\ lapsed' = IF written THEN lapsed ELSE lapsed \cup {file}
    /\ UNCHANGED <<kind, disk, proc, held, at, seen, forced, misfired>>

CleanupRemoves ==
    /\ sweep # None
    /\ Unlink(sweep)
    /\ sweep' = None
    /\ UNCHANGED <<kind, proc, held, at, seen, forced, faults, lapsed>>

-----------------------------------------------------------------------------
(* Time, and processes that end *)

Ages ==
    /\ file # None /\ ~old
    /\ old' = TRUE
    /\ Fault /\ lapsed' = lapsed \cup {file}
    /\ UNCHANGED <<kind, file, written, proc, held, at, seen, forced, sweep, misfired>>

Ends(p) ==
    /\ proc[p] = "alive"
    /\ Fault
    /\ proc' = [proc EXCEPT ![p] = "dead"]
    /\ held' = [held EXCEPT ![p] = NotHeld]
    /\ at' = [t \in Tasks |-> IF ProcOf[t] = p THEN "done" ELSE at[t]]
    /\ forced' = [forced EXCEPT ![p] = None]
    /\ UNCHANGED <<kind, seen, sweep, lapsed>>

Dies(p) == Ends(p) /\ UNCHANGED <<disk, misfired>>

\* releaseAllLocksSync removes what the table holds: at an exit, or at a signal to
\* a process that has no other listener of it and so ends.
Exits(p) ==
    /\ kind = "session" /\ held[p].lock # None
    /\ Ends(p)
    /\ Unlink(held[p].lock)

\* handleTerminationSignal in a gateway, which listens itself and goes on until its
\* server is closed: its tasks still believe in the lock.
Signalled(p) ==
    /\ kind = "session" /\ proc[p] = "alive" /\ held[p].lock # None
    /\ Unlink(held[p].lock)
    /\ held' = [held EXCEPT ![p] = NotHeld]
    /\ Fault /\ lapsed' = lapsed \cup {held[p].lock}
    /\ UNCHANGED <<kind, proc, at, seen, forced, sweep>>

\* The pid of a dead process is given to another one.
IsRecycled(p) ==
    /\ proc[p] = "dead"
    /\ proc' = [proc EXCEPT ![p] = "recycled"]
    /\ UNCHANGED <<kind, disk, held, at, seen, forced, sweep, faults, history>>

-----------------------------------------------------------------------------
Step(t) ==
    \/ Open(t) \/ Write(t) \/ Enter(t) \/ ReadPayload(t) \/ StatFile(t)
    \/ RemoveStale(t) \/ TryAgain(t) \/ RemoveReleased(t)

Next ==
    \/ \E t \in Tasks : Acquire(t) \/ Step(t) \/ WriteFails(t) \/ GiveUp(t) \/ Release(t)
    \/ \E p \in Procs :
         Watchdog(p) \/ RemoveForced(p) \/ Dies(p) \/ Exits(p) \/ Signalled(p) \/ IsRecycled(p)
    \/ Ages \/ CleanupJudges \/ CleanupRemoves

Spec == Init /\ [][Next]_vars
=============================================================================
