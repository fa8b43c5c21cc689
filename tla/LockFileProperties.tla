-------------------------- MODULE LockFileProperties --------------------------
(* What the lock files promise. *)
EXTENDS LockFile

TypeOK ==
    /\ kind \in Kinds
    /\ file \in Tasks \cup {None} /\ written \in BOOLEAN /\ old \in BOOLEAN
    /\ proc \in [Procs -> {"alive", "dead", "recycled"}]
    /\ held \in [Procs -> [lock : Tasks \cup {None}, count : Nat]]
    /\ at \in [Tasks -> {"idle", "trying", "writing", "entering", "reading", "statting",
                         "removing", "waiting", "holding", "releasing", "done"}]
    /\ seen \in [Tasks -> Tasks \cup {None}]
    /\ forced \in [Procs -> Tasks \cup {None}] /\ sweep \in Tasks \cup {None}
    /\ faults \in 0..MaxFaults
    /\ lapsed \subseteq Tasks /\ misfired \in BOOLEAN
    /\ \A p \in Procs : held[p].lock = None <=> held[p].count = 0

Holding(t) == at[t] = "holding"

\* A lock whose owner cannot rely on it any more: it lapsed (it grew too old, the
\* watchdog or a termination signal released it though the process goes on, a
\* cleanup met it unwritten, or a task of its own process took it for an orphan
\* before it was in the table).  Where start times cannot be had, a lapsed lock of
\* a process takes the others of that process with it, as it may hide them from
\* shouldTreatAsOrphanSelfLock.
Doubtful(lock) ==
    \/ lock \in lapsed
    \/ ~StartTimes /\ \E l \in lapsed : ProcOf[l] = ProcOf[lock]

\* Two tasks hold the lock at once only if they share it in one process, unless
\* one's lock is doubtful, or somebody removed another file, or released another
\* lock, than the one meant.  Session locks, where start times can be had, never
\* do that before a process dies or is signalled, a write fails, a lock lapses or a
\* cleanup runs.
SoleHolder ==
    /\ \A t, u \in Tasks :
         Holding(t) /\ Holding(u) /\ seen[t] # seen[u]
         => misfired \/ Doubtful(seen[t]) \/ Doubtful(seen[u])
    /\ kind = "session" /\ StartTimes /\ faults = 0 => ~misfired

\* A process that lives leaves no lock behind, unless one of its locks lapsed or
\* a wrong one was removed: a complete lock file of its making has a task that
\* holds it or is removing it, or is about to be entered into the table by its
\* writer, whatever its tasks shared, failed or waited for.
NoLeakedLock ==
    file # None /\ written /\ proc[ProcOf[file]] = "alive"
    => \/ \E t \in Tasks : at[t] \in {"entering", "holding", "releasing"} /\ seen[t] = file
       \/ misfired \/ \E t \in lapsed : ProcOf[t] = ProcOf[file]

\* "serialize container and browser registry writes with shared file locks"
\* (CHANGELOG.md:1897): while nobody dies and nothing ages, only one process
\* holds the lock.
Exclusive ==
    \A t, u \in Tasks :
        Holding(t) /\ Holding(u) /\ ProcOf[t] # ProcOf[u] => faults > 0
=============================================================================
