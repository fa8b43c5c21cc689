---------------------------- MODULE LockFileProofs ----------------------------
(* What LockFileProperties says of who holds a lock, proved for any tasks, *)
(* processes and number of faults, for both protocols and with or without  *)
(* start times.                                                            *)
EXTENDS LockFileProperties, FiniteSetTheorems, TLAPS

\* The task has entered its lock into the table, or never will.
Past(t) == at[t] \in {"holding", "releasing", "done"}

\* It has created a lock file and goes on to enter it.
Creating(t) == at[t] \in {"writing", "entering"}

WritersOwn == \A t \in Tasks : Creating(t) => seen[t] = t

\* The table of a process holds locks of its own, whose files are written.
TableIsOwn ==
    \A p \in Procs : held[p].lock # None => ProcOf[held[p].lock] = p /\ Past(held[p].lock)

\* Tasks hold or release locks of their own process.
HoldersShare ==
    \A t \in Tasks :
        at[t] \in {"holding", "releasing"}
        => seen[t] \in Tasks /\ ProcOf[seen[t]] = ProcOf[t] /\ Past(seen[t])

\* Of a process that is not alive nothing goes on.
DeadAreDone ==
    \A p \in Procs :
        proc[p] # "alive" => held[p] = NotHeld /\ \A t \in Tasks : ProcOf[t] = p => at[t] = "done"

OldHasLapsed == old => file \in lapsed

WrittenIsPast == written => file \in Tasks /\ (Past(file) \/ at[file] = "entering")

ForcedHasLapsed == \A p \in Procs : forced[p] # None => forced[p] \in lapsed

Order == WritersOwn /\ TableIsOwn /\ HoldersShare /\ DeadAreDone

Marks == OldHasLapsed /\ WrittenIsPast /\ ForcedHasLapsed

\* TypeOK in two parts: the provers take truth values apart from the rest.
Flags == written \in BOOLEAN /\ old \in BOOLEAN /\ misfired \in BOOLEAN

Places == {"idle", "trying", "writing", "entering", "reading", "statting", "removing",
           "waiting", "holding", "releasing", "done"}

Typed ==
    /\ kind \in Kinds
    /\ file \in Tasks \cup {None}
    /\ proc \in [Procs -> {"alive", "dead", "recycled"}]
    /\ held \in [Procs -> [lock : Tasks \cup {None}, count : Nat]]
    /\ at \in [Tasks -> Places]
    /\ seen \in [Tasks -> Tasks \cup {None}]
    /\ forced \in [Procs -> Tasks \cup {None}] /\ sweep \in Tasks \cup {None}
    /\ faults \in 0..MaxFaults
    /\ lapsed \subseteq Tasks
    /\ \A p \in Procs : held[p].lock = None <=> held[p].count = 0

LEMMA UnlinkResult ==
    ASSUME NEW lock, Unlink(lock), Flags
    PROVE  /\ file' = None /\ ~written' /\ ~old'
           /\ Flags'
           /\ ~misfired' => ~misfired /\ (file = lock \/ file = None)
  <1>1. misfired' = (misfired \/ file \notin {lock, None})
    BY Zenon DEF Unlink
  <1>2. written' = FALSE /\ old' = FALSE
    BY Zenon DEF Unlink
  <1>3. Flags'
    BY <1>1, <1>2, Zenon DEF Flags
  <1>4. ~misfired' => ~misfired /\ file \in {lock, None}
    BY <1>1, Zenon
  <1> QED
    BY <1>2, <1>3, <1>4 DEF Unlink

\* A task shares the lock of its process.
Shares(t) ==
    /\ at[t] = "idle" /\ held[ProcOf[t]].lock # None
    /\ at' = [at EXCEPT ![t] = "holding"]
    /\ held' = [held EXCEPT ![ProcOf[t]].count = @ + 1]
    /\ seen' = [seen EXCEPT ![t] = held[ProcOf[t]].lock]

\* It gives up a lock that is not its process's any more, or that others share.
Leaves(t) ==
    /\ at[t] = "holding"
    /\ at' = [at EXCEPT ![t] = "done"]
    /\ UNCHANGED <<held, seen>>

Unshares(t) ==
    /\ at[t] = "holding"
    /\ held[ProcOf[t]].lock # None /\ held[ProcOf[t]].count # 1
    /\ at' = [at EXCEPT ![t] = "done"]
    /\ held' = [held EXCEPT ![ProcOf[t]].count = @ - 1]
    /\ UNCHANGED seen

Frees(t) ==
    /\ at[t] = "holding"
    /\ held[ProcOf[t]].lock # None /\ held[ProcOf[t]].count = 1
    /\ at' = [at EXCEPT ![t] = "releasing"]
    /\ held' = [held EXCEPT ![ProcOf[t]] = NotHeld]
    /\ seen' = [seen EXCEPT ![t] = held[ProcOf[t]].lock]

LEMMA AcquireResult ==
    ASSUME NEW t \in Tasks, Acquire(t)
    PROVE  /\ UNCHANGED <<kind, file, written, old, proc, forced, sweep, faults, lapsed, misfired>>
           /\ \/ Shares(t)
              \/ at[t] = "idle" /\ at' = [at EXCEPT ![t] = "trying"] /\ UNCHANGED <<held, seen>>
  BY DEF Acquire, Goes, Sees, Shares, disk, history

LEMMA ReleaseResult ==
    ASSUME NEW t \in Tasks, Release(t), HoldersShare, misfired \in BOOLEAN
    PROVE  /\ UNCHANGED <<kind, file, written, old, proc, forced, sweep, faults, lapsed>>
           /\ misfired' \in BOOLEAN
           /\ ~misfired' => ~misfired
           /\ \/ Leaves(t) /\ ~IsMine(t)
              \/ (Unshares(t) \/ Frees(t)) /\ IsMine(t)
                                           /\ (~misfired' => held[ProcOf[t]].lock = seen[t])
  <1>1. misfired' = (misfired \/ (IsMine(t) /\ held[ProcOf[t]].lock # seen[t]))
    BY Zenon DEF Release
  <1>2. misfired' \in BOOLEAN
    BY <1>1, Zenon
  <1>3. ~misfired' => ~misfired /\ (IsMine(t) => held[ProcOf[t]].lock = seen[t])
    BY <1>1, Zenon
  <1>4. IsMine(t) /\ at[t] = "holding" => held[ProcOf[t]].lock # None
    BY LockFileAssumption DEF IsMine, HoldersShare
  <1>5. \/ Leaves(t) /\ ~IsMine(t)
        \/ (Unshares(t) \/ Frees(t)) /\ IsMine(t)
    BY <1>4 DEF Release, Goes, Sees, IsLast, Leaves, Unshares, Frees
  <1>6. UNCHANGED <<kind, file, written, old, proc, forced, sweep, faults, lapsed>>
    BY DEF Release, disk
  <1> QED
    BY <1>2, <1>3, <1>5, <1>6

LEMMA WriteFailsResult ==
    ASSUME NEW t \in Tasks, WriteFails(t), Flags
    PROVE  \/ UNCHANGED <<file, written, old, misfired>>
           \/ /\ file' = None /\ ~written' /\ ~old'
              /\ Flags'
              /\ ~misfired' => ~misfired /\ (file = t \/ file = None)
  <1>1. Unlink(t) \/ UNCHANGED <<disk, misfired>>
    BY Zenon DEF WriteFails
  <1> QED
    BY <1>1, UnlinkResult DEF disk

LEMMA TypedStep == Typed /\ Flags /\ HoldersShare /\ [Next]_vars => Typed'
  <1> SUFFICES ASSUME Typed /\ Flags /\ HoldersShare, [Next]_vars PROVE Typed'
    OBVIOUS
  <1> USE LockFileAssumption DEF Typed, Places, NotHeld, disk, history
  <1>1. ASSUME NEW t \in Tasks, Acquire(t) PROVE Typed'
    <2>1. CASE Shares(t)
      <3>1. UNCHANGED <<kind, file, proc, forced, sweep, faults, lapsed>> /\ ProcOf[t] \in Procs
        BY <1>1, AcquireResult
      <3>2. held' \in [Procs -> [lock : Tasks \cup {None}, count : Nat]]
        BY <2>1, <3>1 DEF Shares
      <3>3. \A p \in Procs : held'[p].lock = None <=> held'[p].count = 0
        BY <2>1, <3>1 DEF Shares
      <3> QED
        BY <2>1, <3>1, <3>2, <3>3 DEF Shares
    <2>2. CASE ~Shares(t)
      BY <1>1, <2>2, AcquireResult
    <2> QED
      BY <2>1, <2>2
  <1>2. ASSUME NEW t \in Tasks, Open(t) PROVE Typed'
    <2>1. CASE file = None
      <3>1. /\ file' = t
            /\ at' = [at EXCEPT ![t] = "writing"]
            /\ seen' = [seen EXCEPT ![t] = t]
        BY <1>2, <2>1 DEF Open, Goes, Sees
      <3> QED
        BY <1>2, <3>1 DEF Open, Goes
    <2>2. CASE file # None
      BY <1>2, <2>2 DEF Open, Goes
    <2> QED
      BY <2>1, <2>2
  <1>3. ASSUME NEW t \in Tasks, Write(t) PROVE Typed'
    BY <1>3 DEF Write, Goes
  <1>4. ASSUME NEW t \in Tasks, ReadPayload(t) PROVE Typed'
    BY <1>4 DEF ReadPayload, Goes, Sees, Verdict
  <1>5. ASSUME NEW t \in Tasks, StatFile(t) PROVE Typed'
    BY <1>5 DEF StatFile, Goes, Sees
  <1>6. ASSUME NEW t \in Tasks, RemoveStale(t) PROVE Typed'
    <2>1. file' = None /\ ~written' /\ ~old'
      BY <1>6, UnlinkResult DEF RemoveStale
    <2> QED
      BY <1>6, <2>1 DEF RemoveStale, Goes
  <1>7. ASSUME NEW t \in Tasks, TryAgain(t) PROVE Typed'
    BY <1>7 DEF TryAgain, Goes
  <1>8. ASSUME NEW t \in Tasks, RemoveReleased(t) PROVE Typed'
    <2>1. file' = None /\ ~written' /\ ~old'
      BY <1>8, UnlinkResult DEF RemoveReleased
    <2> QED
      BY <1>8, <2>1 DEF RemoveReleased, Goes
  <1>9. ASSUME NEW t \in Tasks, WriteFails(t) PROVE Typed'
    <2>1. file' \in {file, None}
      BY <1>9, WriteFailsResult
    <2> QED
      BY <1>9, <2>1 DEF WriteFails, Goes, Fault
  <1>10. ASSUME NEW t \in Tasks, GiveUp(t) PROVE Typed'
    BY <1>10 DEF GiveUp
  <1>11. ASSUME NEW t \in Tasks, Release(t) PROVE Typed'
    <2>1. UNCHANGED <<kind, file, proc, forced, sweep, faults, lapsed>> /\ ProcOf[t] \in Procs
      BY <1>11, ReleaseResult DEF Flags
    <2>2. CASE Leaves(t)
      BY <2>1, <2>2 DEF Leaves
    <2>3. CASE Unshares(t)
      <3>1. held' \in [Procs -> [lock : Tasks \cup {None}, count : Nat]]
        <4>1. held[ProcOf[t]].count \in Nat
          BY <2>1
        <4>2. held[ProcOf[t]].count # 0
          BY <2>1, <2>3 DEF Unshares
        <4>3. held[ProcOf[t]].count - 1 \in Nat
          BY <4>1, <4>2
        <4> QED
          BY <2>1, <2>3, <4>3 DEF Unshares
      <3>2. \A p \in Procs : held'[p].lock = None <=> held'[p].count = 0
        BY <2>1, <2>3 DEF Unshares
      <3> QED
        BY <2>1, <2>3, <3>1, <3>2 DEF Unshares
    <2>4. CASE Frees(t)
      BY <2>1, <2>4 DEF Frees
    <2> QED
      BY <1>11, <2>2, <2>3, <2>4, ReleaseResult DEF Flags
  <1>12. ASSUME NEW p \in Procs, Watchdog(p) PROVE Typed'
    BY <1>12 DEF Watchdog, Fault
  <1>13. ASSUME NEW p \in Procs, RemoveForced(p) PROVE Typed'
    <2>1. file' = None /\ ~written' /\ ~old'
      BY <1>13, UnlinkResult DEF RemoveForced
    <2> QED
      BY <1>13, <2>1 DEF RemoveForced
  <1>14. ASSUME NEW p \in Procs, Dies(p) PROVE Typed'
    BY <1>14 DEF Dies, Ends, Fault
  <1>15. ASSUME NEW p \in Procs, Exits(p) PROVE Typed'
    <2>1. file' = None /\ ~written' /\ ~old'
      BY <1>15, UnlinkResult DEF Exits
    <2> QED
      BY <1>15, <2>1 DEF Exits, Ends, Fault
  <1>16. ASSUME NEW p \in Procs, IsRecycled(p) PROVE Typed'
    BY <1>16 DEF IsRecycled
  <1>17. CASE Ages
    BY <1>17 DEF Ages, Fault
  <1>18. CASE CleanupJudges
    BY <1>18 DEF CleanupJudges, Fault
  <1>19. CASE CleanupRemoves
    <2>1. file' = None /\ ~written' /\ ~old'
      BY <1>19, UnlinkResult DEF CleanupRemoves
    <2> QED
      BY <1>19, <2>1 DEF CleanupRemoves
  <1>20. CASE UNCHANGED vars
    BY <1>20 DEF vars
  <1>21. ASSUME NEW t \in Tasks, Enter(t) PROVE Typed'
    BY <1>21 DEF Enter, Goes
  <1>22. ASSUME NEW p \in Procs, Signalled(p) PROVE Typed'
    <2>1. file' = None /\ ~written' /\ ~old'
      BY <1>22, UnlinkResult DEF Signalled
    <2> QED
      BY <1>22, <2>1 DEF Signalled, Fault
  <1> QED
    BY <1>1, <1>2, <1>3, <1>4, <1>5, <1>6, <1>7, <1>8, <1>9, <1>10, <1>11, <1>12, <1>13,
       <1>14, <1>15, <1>16, <1>17, <1>18, <1>19, <1>20, <1>21, <1>22
    DEF Next, Step

LEMMA OrderStep == Typed /\ Flags /\ Order /\ [Next]_vars => Order'
  <1> SUFFICES ASSUME Typed /\ Flags /\ Order, [Next]_vars PROVE Order'
    OBVIOUS
  <1> USE DEF Order, Typed, Places, NotHeld, Past, Creating
  <1>1. ASSUME NEW t \in Tasks, Acquire(t) PROVE Order'
    <2>1. UNCHANGED proc
      BY <1>1, AcquireResult
    <2>2. CASE Shares(t)
      <3>1. TableIsOwn' /\ DeadAreDone'
        BY <2>1, <2>2 DEF Shares, TableIsOwn, DeadAreDone
      <3>2. WritersOwn'
        BY <2>2 DEF Shares, WritersOwn
      <3>3. LET l == held[ProcOf[t]].lock IN l \in Tasks /\ ProcOf[l] = ProcOf[t] /\ Past(l)
        <4>1. ProcOf[t] \in Procs
          BY LockFileAssumption
        <4>2. held[ProcOf[t]].lock \in Tasks
          BY <2>2, <4>1 DEF Shares
        <4> QED
          BY <2>2, <4>1, <4>2 DEF Shares, TableIsOwn
      <3>4. seen'[t] = held[ProcOf[t]].lock /\ \A u \in Tasks : u # t => seen'[u] = seen[u]
        BY <2>2 DEF Shares
      <3>5. \A u \in Tasks : Past(u) => Past(u)'
        BY <2>2 DEF Shares
      <3>6. \A u \in Tasks : u # t => at'[u] = at[u]
        BY <2>2 DEF Shares
      <3>7. HoldersShare'
        BY <3>3, <3>4, <3>5, <3>6 DEF HoldersShare
      <3> QED
        BY <3>1, <3>2, <3>7
    <2>3. CASE ~Shares(t)
      BY <1>1, <2>3, AcquireResult DEF WritersOwn, TableIsOwn, HoldersShare, DeadAreDone
    <2> QED
      BY <2>2, <2>3
  <1>2. ASSUME NEW t \in Tasks, Open(t) PROVE Order'
    <2>1. CASE file = None
      <3>1. /\ file' = t
            /\ at' = [at EXCEPT ![t] = "writing"]
            /\ seen' = [seen EXCEPT ![t] = t]
        BY <1>2, <2>1 DEF Open, Goes, Sees
      <3> QED
        BY <1>2, <3>1 DEF Open, Goes, WritersOwn, TableIsOwn, HoldersShare, DeadAreDone
    <2>2. CASE file # None
      BY <1>2, <2>2 DEF Open, Goes, WritersOwn, TableIsOwn, HoldersShare, DeadAreDone
    <2> QED
      BY <2>1, <2>2
  <1>3. ASSUME NEW t \in Tasks, Write(t) PROVE Order'
    BY <1>3 DEF Write, Goes, WritersOwn, TableIsOwn, HoldersShare, DeadAreDone
  <1>4. ASSUME NEW t \in Tasks, ReadPayload(t) PROVE Order'
    BY <1>4 DEF ReadPayload, Goes, Sees, Verdict, WritersOwn, TableIsOwn, HoldersShare,
       DeadAreDone
  <1>5. ASSUME NEW t \in Tasks, StatFile(t) PROVE Order'
    BY <1>5 DEF StatFile, Goes, Sees, WritersOwn, TableIsOwn, HoldersShare, DeadAreDone
  <1>6. ASSUME NEW t \in Tasks, RemoveStale(t) PROVE Order'
    <2>1. file' = None /\ ~written' /\ ~old'
      BY <1>6, UnlinkResult DEF RemoveStale
    <2> QED
      BY <1>6, <2>1 DEF RemoveStale, Goes, WritersOwn, TableIsOwn, HoldersShare, DeadAreDone
  <1>7. ASSUME NEW t \in Tasks, TryAgain(t) PROVE Order'
    BY <1>7 DEF TryAgain, Goes, WritersOwn, TableIsOwn, HoldersShare, DeadAreDone
  <1>8. ASSUME NEW t \in Tasks, RemoveReleased(t) PROVE Order'
    <2>1. file' = None /\ ~written' /\ ~old'
      BY <1>8, UnlinkResult DEF RemoveReleased
    <2> QED
      BY <1>8, <2>1 DEF RemoveReleased, Goes, WritersOwn, TableIsOwn, HoldersShare, DeadAreDone
  <1>9. ASSUME NEW t \in Tasks, WriteFails(t) PROVE Order'
    <2>1. file' \in {file, None}
      BY <1>9, WriteFailsResult
    <2> QED
      BY <1>9, <2>1 DEF WriteFails, Goes, Fault, WritersOwn, TableIsOwn, HoldersShare,
         DeadAreDone
  <1>10. ASSUME NEW t \in Tasks, GiveUp(t) PROVE Order'
    BY <1>10 DEF GiveUp, WritersOwn, TableIsOwn, HoldersShare, DeadAreDone
  <1>11. ASSUME NEW t \in Tasks, Release(t) PROVE Order'
    <2>1. UNCHANGED proc
      BY <1>11, ReleaseResult DEF Flags
    <2>2. CASE Leaves(t)
      BY <2>1, <2>2 DEF Leaves, WritersOwn, TableIsOwn, HoldersShare, DeadAreDone
    <2>3. CASE Unshares(t)
      BY <2>1, <2>3 DEF Unshares, WritersOwn, TableIsOwn, HoldersShare, DeadAreDone
    <2>4. CASE Frees(t)
      <3>1. TableIsOwn' /\ DeadAreDone'
        BY <2>1, <2>4 DEF Frees, TableIsOwn, DeadAreDone
      <3>2. WritersOwn'
        BY <2>4 DEF Frees, WritersOwn
      <3>3. LET l == held[ProcOf[t]].lock IN l \in Tasks /\ ProcOf[l] = ProcOf[t] /\ Past(l)
        <4>1. ProcOf[t] \in Procs
          BY LockFileAssumption
        <4>2. held[ProcOf[t]].lock \in Tasks
          BY <2>4, <4>1 DEF Frees
        <4> QED
          BY <2>4, <4>1, <4>2 DEF Frees, TableIsOwn
      <3>4. seen'[t] = held[ProcOf[t]].lock /\ \A u \in Tasks : u # t => seen'[u] = seen[u]
        BY <2>4 DEF Frees
      <3>5. \A u \in Tasks : Past(u) => Past(u)'
        BY <2>4 DEF Frees
      <3>6. \A u \in Tasks : u # t => at'[u] = at[u]
        BY <2>4 DEF Frees
      <3>7. HoldersShare'
        BY <3>3, <3>4, <3>5, <3>6 DEF HoldersShare
      <3> QED
        BY <3>1, <3>2, <3>7
    <2> QED
      BY <1>11, <2>2, <2>3, <2>4, ReleaseResult DEF Flags
  <1>12. ASSUME NEW p \in Procs, Watchdog(p) PROVE Order'
    BY <1>12 DEF Watchdog, Fault, WritersOwn, TableIsOwn, HoldersShare, DeadAreDone
  <1>13. ASSUME NEW p \in Procs, RemoveForced(p) PROVE Order'
    <2>1. file' = None /\ ~written' /\ ~old'
      BY <1>13, UnlinkResult DEF RemoveForced
    <2> QED
      BY <1>13, <2>1 DEF RemoveForced, WritersOwn, TableIsOwn, HoldersShare, DeadAreDone
  <1>14. ASSUME NEW p \in Procs, Dies(p) PROVE Order'
    BY <1>14 DEF Dies, Ends, Fault, WritersOwn, TableIsOwn, HoldersShare, DeadAreDone
  <1>15. ASSUME NEW p \in Procs, Exits(p) PROVE Order'
    <2>1. file' = None /\ ~written' /\ ~old'
      BY <1>15, UnlinkResult DEF Exits
    <2> QED
      BY <1>15, <2>1 DEF Exits, Ends, Fault, WritersOwn, TableIsOwn, HoldersShare, DeadAreDone
  <1>16. ASSUME NEW p \in Procs, IsRecycled(p) PROVE Order'
    BY <1>16 DEF IsRecycled, WritersOwn, TableIsOwn, HoldersShare, DeadAreDone
  <1>17. CASE Ages
    BY <1>17 DEF Ages, Fault, WritersOwn, TableIsOwn, HoldersShare, DeadAreDone
  <1>18. CASE CleanupJudges
    BY <1>18 DEF CleanupJudges, Fault, WritersOwn, TableIsOwn, HoldersShare, DeadAreDone
  <1>19. CASE CleanupRemoves
    <2>1. file' = None /\ ~written' /\ ~old'
      BY <1>19, UnlinkResult DEF CleanupRemoves
    <2> QED
      BY <1>19, <2>1 DEF CleanupRemoves, WritersOwn, TableIsOwn, HoldersShare, DeadAreDone
  <1>20. CASE UNCHANGED vars
    BY <1>20 DEF vars, WritersOwn, TableIsOwn, HoldersShare, DeadAreDone
  <1>21. ASSUME NEW t \in Tasks, Enter(t) PROVE Order'
    BY <1>21 DEF Enter, Goes, WritersOwn, TableIsOwn, HoldersShare, DeadAreDone
  <1>22. ASSUME NEW p \in Procs, Signalled(p) PROVE Order'
    BY <1>22 DEF Signalled, WritersOwn, TableIsOwn, HoldersShare, DeadAreDone
  <1> QED
    BY <1>1, <1>2, <1>3, <1>4, <1>5, <1>6, <1>7, <1>8, <1>9, <1>10, <1>11, <1>12, <1>13,
       <1>14, <1>15, <1>16, <1>17, <1>18, <1>19, <1>20, <1>21, <1>22
    DEF Next, Step

LEMMA FlagsStep == Flags /\ [Next]_vars => Flags'
  <1> SUFFICES ASSUME Flags, [Next]_vars PROVE Flags'
    OBVIOUS
  <1>1. ASSUME NEW t \in Tasks, Acquire(t) PROVE Flags'
    BY <1>1, Zenon DEF Acquire, Goes, Sees, Flags, disk, history
  <1>2. ASSUME NEW t \in Tasks, Open(t) PROVE Flags'
    <2>1. \/ ~written' /\ ~old' /\ written' = FALSE /\ old' = FALSE
          \/ UNCHANGED <<written, old>>
      BY <1>2, Zenon DEF Open, disk
    <2>2. UNCHANGED misfired
      BY <1>2 DEF Open, history
    <2> QED
      BY <2>1, <2>2, Zenon DEF Flags
  <1>3. ASSUME NEW t \in Tasks, Write(t) PROVE Flags'
    <2>1. written' = (written \/ file = t) /\ UNCHANGED <<old, misfired>>
      BY <1>3, Zenon DEF Write, history
    <2> QED
      BY <2>1, Zenon DEF Flags
  <1>4. ASSUME NEW t \in Tasks, ReadPayload(t) PROVE Flags'
    BY <1>4, Zenon DEF ReadPayload, Goes, Sees, Verdict, Flags, disk, history
  <1>5. ASSUME NEW t \in Tasks, StatFile(t) PROVE Flags'
    BY <1>5, Zenon DEF StatFile, Goes, Sees, Flags, disk, history
  <1>6. ASSUME NEW t \in Tasks, RemoveStale(t) PROVE Flags'
    BY <1>6, UnlinkResult DEF RemoveStale
  <1>7. ASSUME NEW t \in Tasks, TryAgain(t) PROVE Flags'
    BY <1>7, Zenon DEF TryAgain, Goes, Flags, disk, history
  <1>8. ASSUME NEW t \in Tasks, RemoveReleased(t) PROVE Flags'
    BY <1>8, UnlinkResult DEF RemoveReleased
  <1>9. ASSUME NEW t \in Tasks, WriteFails(t) PROVE Flags'
    <2>1. Unlink(t) \/ UNCHANGED <<disk, misfired>>
      BY <1>9, Zenon DEF WriteFails
    <2>2. CASE Unlink(t)
      BY <2>2, UnlinkResult
    <2>3. CASE UNCHANGED <<disk, misfired>>
      BY <2>3, Zenon DEF Flags, disk
    <2> QED
      BY <2>1, <2>2, <2>3
  <1>10. ASSUME NEW t \in Tasks, GiveUp(t) PROVE Flags'
    BY <1>10, Zenon DEF GiveUp, Flags, disk, history
  <1>11. ASSUME NEW t \in Tasks, Release(t) PROVE Flags'
    BY <1>11, Zenon DEF Release, Flags, disk
  <1>12. ASSUME NEW p \in Procs, Watchdog(p) PROVE Flags'
    BY <1>12, Zenon DEF Watchdog, Fault, Flags, disk, history
  <1>13. ASSUME NEW p \in Procs, RemoveForced(p) PROVE Flags'
    BY <1>13, UnlinkResult DEF RemoveForced
  <1>14. ASSUME NEW p \in Procs, Dies(p) PROVE Flags'
    BY <1>14, Zenon DEF Dies, Ends, Fault, Flags, disk, history
  <1>15. ASSUME NEW p \in Procs, Exits(p) PROVE Flags'
    BY <1>15, UnlinkResult DEF Exits
  <1>16. ASSUME NEW p \in Procs, IsRecycled(p) PROVE Flags'
    BY <1>16, Zenon DEF IsRecycled, Flags, disk, history
  <1>17. CASE Ages
    BY <1>17, Zenon DEF Ages, Fault, Flags, disk, history
  <1>18. CASE CleanupJudges
    BY <1>18, Zenon DEF CleanupJudges, Fault, Flags, disk, history
  <1>19. CASE CleanupRemoves
    BY <1>19, UnlinkResult DEF CleanupRemoves
  <1>20. CASE UNCHANGED vars
    BY <1>20, Zenon DEF vars, Flags, disk, history
  <1>21. ASSUME NEW t \in Tasks, Enter(t) PROVE Flags'
    BY <1>21, Zenon DEF Enter, Flags, disk, history
  <1>22. ASSUME NEW p \in Procs, Signalled(p) PROVE Flags'
    BY <1>22, UnlinkResult DEF Signalled
  <1> QED
    BY <1>1, <1>2, <1>3, <1>4, <1>5, <1>6, <1>7, <1>8, <1>9, <1>10, <1>11, <1>12, <1>13,
       <1>14, <1>15, <1>16, <1>17, <1>18, <1>19, <1>20, <1>21, <1>22
    DEF Next, Step

LEMMA MarksKept ==
    ASSUME Typed, Marks, UNCHANGED <<file, written, old, forced, lapsed>>,
           \A u \in Tasks : (Past(u) => Past(u)') /\ (at[u] = "entering" => at'[u] = at[u])
    PROVE  Marks'
  <1>1. OldHasLapsed' /\ ForcedHasLapsed'
    BY DEF Marks, OldHasLapsed, ForcedHasLapsed
  <1>2. ASSUME written PROVE file \in Tasks /\ (Past(file)' \/ at'[file] = "entering")
    BY <1>2 DEF Marks, WrittenIsPast
  <1>3. WrittenIsPast'
    BY <1>2 DEF WrittenIsPast, Past
  <1> QED
    BY <1>1, <1>3 DEF Marks

LEMMA MarksStep == Typed /\ Flags /\ Order /\ Marks /\ [Next]_vars => Marks'
  <1> SUFFICES ASSUME Typed /\ Flags /\ Order /\ Marks, [Next]_vars PROVE Marks'
    OBVIOUS
  <1> USE DEF Marks, Typed, Places, Past, Creating, disk, history
  <1>1. ASSUME NEW t \in Tasks, Acquire(t) PROVE Marks'
    <2>1. UNCHANGED <<file, written, old, forced, lapsed>>
      BY <1>1, AcquireResult
    <2>2. \A u \in Tasks : (Past(u) => Past(u)') /\ (at[u] = "entering" => at'[u] = at[u])
      BY <1>1, AcquireResult DEF Shares
    <2> QED
      BY <2>1, <2>2, MarksKept
  <1>2. ASSUME NEW t \in Tasks, Open(t) PROVE Marks'
    <2>1. CASE file = None
      <3>1. /\ file' = t
            /\ at' = [at EXCEPT ![t] = "writing"]
            /\ seen' = [seen EXCEPT ![t] = t]
        BY <1>2, <2>1 DEF Open, Goes, Sees
      <3> QED
        BY <1>2, <3>1 DEF Open, Goes, OldHasLapsed, WrittenIsPast, ForcedHasLapsed
    <2>2. CASE file # None
      BY <1>2, <2>2 DEF Open, Goes, OldHasLapsed, WrittenIsPast, ForcedHasLapsed
    <2> QED
      BY <2>1, <2>2
  <1>3. ASSUME NEW t \in Tasks, Write(t) PROVE Marks'
    BY <1>3 DEF Write, Goes, OldHasLapsed, WrittenIsPast, ForcedHasLapsed
  <1>4. ASSUME NEW t \in Tasks, ReadPayload(t) PROVE Marks'
    BY <1>4 DEF ReadPayload, Goes, Sees, Verdict, OldHasLapsed, WrittenIsPast, ForcedHasLapsed
  <1>5. ASSUME NEW t \in Tasks, StatFile(t) PROVE Marks'
    BY <1>5 DEF StatFile, Goes, Sees, OldHasLapsed, WrittenIsPast, ForcedHasLapsed
  <1>6. ASSUME NEW t \in Tasks, RemoveStale(t) PROVE Marks'
    <2>1. file' = None /\ ~written' /\ ~old'
      BY <1>6, UnlinkResult DEF RemoveStale
    <2> QED
      BY <1>6, <2>1 DEF RemoveStale, Goes, OldHasLapsed, WrittenIsPast, ForcedHasLapsed
  <1>7. ASSUME NEW t \in Tasks, TryAgain(t) PROVE Marks'
    BY <1>7 DEF TryAgain, Goes, OldHasLapsed, WrittenIsPast, ForcedHasLapsed
  <1>8. ASSUME NEW t \in Tasks, RemoveReleased(t) PROVE Marks'
    <2>1. file' = None /\ ~written' /\ ~old'
      BY <1>8, UnlinkResult DEF RemoveReleased
    <2> QED
      BY <1>8, <2>1 DEF RemoveReleased, Goes, OldHasLapsed, WrittenIsPast, ForcedHasLapsed
  <1>9. ASSUME NEW t \in Tasks, WriteFails(t) PROVE Marks'
    <2>1. /\ UNCHANGED <<forced, lapsed>>
          /\ \A u \in Tasks :
               (Past(u) => Past(u)') /\ (at[u] = "entering" => at'[u] = at[u])
      BY <1>9 DEF WriteFails, Goes
    <2>2. CASE UNCHANGED <<file, written, old>>
      BY <2>1, <2>2, MarksKept
    <2>3. CASE ~written' /\ ~old'
      BY <2>1, <2>3 DEF OldHasLapsed, WrittenIsPast, ForcedHasLapsed
    <2> QED
      BY <1>9, <2>2, <2>3, WriteFailsResult
  <1>10. ASSUME NEW t \in Tasks, GiveUp(t) PROVE Marks'
    BY <1>10 DEF GiveUp, OldHasLapsed, WrittenIsPast, ForcedHasLapsed
  <1>11. ASSUME NEW t \in Tasks, Release(t) PROVE Marks'
    <2>1. UNCHANGED <<file, written, old, forced, lapsed>>
      BY <1>11, ReleaseResult DEF Flags, Order
    <2>2. \A u \in Tasks : (Past(u) => Past(u)') /\ (at[u] = "entering" => at'[u] = at[u])
      BY <1>11, ReleaseResult DEF Flags, Order, Leaves, Unshares, Frees
    <2> QED
      BY <2>1, <2>2, MarksKept
  <1>12. ASSUME NEW p \in Procs, Watchdog(p) PROVE Marks'
    BY <1>12 DEF Watchdog, Fault, OldHasLapsed, WrittenIsPast, ForcedHasLapsed
  <1>13. ASSUME NEW p \in Procs, RemoveForced(p) PROVE Marks'
    <2>1. file' = None /\ ~written' /\ ~old'
      BY <1>13, UnlinkResult DEF RemoveForced
    <2> QED
      BY <1>13, <2>1 DEF RemoveForced, OldHasLapsed, WrittenIsPast, ForcedHasLapsed
  <1>14. ASSUME NEW p \in Procs, Dies(p) PROVE Marks'
    BY <1>14 DEF Dies, Ends, Fault, OldHasLapsed, WrittenIsPast, ForcedHasLapsed
  <1>15. ASSUME NEW p \in Procs, Exits(p) PROVE Marks'
    <2>1. file' = None /\ ~written' /\ ~old'
      BY <1>15, UnlinkResult DEF Exits
    <2> QED
      BY <1>15, <2>1 DEF Exits, Ends, Fault, OldHasLapsed, WrittenIsPast, ForcedHasLapsed
  <1>16. ASSUME NEW p \in Procs, IsRecycled(p) PROVE Marks'
    BY <1>16 DEF IsRecycled, OldHasLapsed, WrittenIsPast, ForcedHasLapsed
  <1>17. CASE Ages
    BY <1>17 DEF Ages, Fault, OldHasLapsed, WrittenIsPast, ForcedHasLapsed
  <1>18. CASE CleanupJudges
    BY <1>18 DEF CleanupJudges, Fault, OldHasLapsed, WrittenIsPast, ForcedHasLapsed
  <1>19. CASE CleanupRemoves
    <2>1. file' = None /\ ~written' /\ ~old'
      BY <1>19, UnlinkResult DEF CleanupRemoves
    <2> QED
      BY <1>19, <2>1 DEF CleanupRemoves, OldHasLapsed, WrittenIsPast, ForcedHasLapsed
  <1>20. CASE UNCHANGED vars
    BY <1>20 DEF vars, OldHasLapsed, WrittenIsPast, ForcedHasLapsed
  <1>21. ASSUME NEW t \in Tasks, Enter(t) PROVE Marks'
    BY <1>21 DEF Enter, Goes, OldHasLapsed, WrittenIsPast, ForcedHasLapsed
  <1>22. ASSUME NEW p \in Procs, Signalled(p) PROVE Marks'
    <2>1. file' = None /\ ~written' /\ ~old'
      BY <1>22, UnlinkResult DEF Signalled
    <2> QED
      BY <1>22, <2>1 DEF Signalled, OldHasLapsed, WrittenIsPast, ForcedHasLapsed
  <1> QED
    BY <1>1, <1>2, <1>3, <1>4, <1>5, <1>6, <1>7, <1>8, <1>9, <1>10, <1>11, <1>12, <1>13,
       <1>14, <1>15, <1>16, <1>17, <1>18, <1>19, <1>20, <1>21, <1>22
    DEF Next, Step

-----------------------------------------------------------------------------
(* Who holds a lock that is not doubtful, as long as nothing misfired. *)

Holders(l) == {t \in Tasks : Holding(t) /\ seen[t] = l}

\* Whoever creates or holds the lock has its file at the path.
OwnersHaveFile(l) ==
    /\ Creating(l) => file = l
    /\ Holders(l) # {} => file = l /\ (StartTimes \/ held[ProcOf[l]].lock = l)

CountIsRight(l) ==
    held[ProcOf[l]].lock = l
    => IsFiniteSet(Holders(l)) /\ held[ProcOf[l]].count = Cardinality(Holders(l))

\* Who is about to remove the lock's file may do so.
ReleasedByAll(l) ==
    \A u \in Tasks :
        at[u] = "releasing" /\ seen[u] = l => Holders(l) = {} /\ held[ProcOf[l]].lock # l

RemovedForCause(l) ==
    /\ \A u \in Tasks :
         at[u] = "removing" /\ seen[u] = l
         => \/ proc[ProcOf[l]] # "alive"
            \/ ~StartTimes /\ Past(l) /\ held[ProcOf[l]].lock # l
    /\ sweep = l => proc[ProcOf[l]] # "alive"

Tidy(l) == OwnersHaveFile(l) /\ CountIsRight(l) /\ ReleasedByAll(l) /\ RemovedForCause(l)

Tidiness == ~misfired => \A l \in Tasks : Doubtful(l) \/ Tidy(l)

LEMMA HistoryGrows ==
    ASSUME Typed, Flags, HoldersShare, [Next]_vars
    PROVE  lapsed \subseteq lapsed' /\ (misfired => misfired')
  <1> DEFINE Grows == lapsed \subseteq lapsed' /\ (misfired => misfired')
  <1>1. ASSUME NEW t \in Tasks, Acquire(t) PROVE Grows
    BY <1>1 DEF Acquire, history
  <1>2. ASSUME NEW t \in Tasks, Open(t) PROVE Grows
    BY <1>2 DEF Open, history
  <1>3. ASSUME NEW t \in Tasks, Write(t) PROVE Grows
    BY <1>3 DEF Write, history
  <1>4. ASSUME NEW t \in Tasks, ReadPayload(t) PROVE Grows
    BY <1>4 DEF ReadPayload, history
  <1>5. ASSUME NEW t \in Tasks, StatFile(t) PROVE Grows
    BY <1>5 DEF StatFile, history
  <1>6. ASSUME NEW t \in Tasks, RemoveStale(t) PROVE Grows
    BY <1>6, UnlinkResult DEF RemoveStale
  <1>7. ASSUME NEW t \in Tasks, TryAgain(t) PROVE Grows
    BY <1>7 DEF TryAgain, history
  <1>8. ASSUME NEW t \in Tasks, RemoveReleased(t) PROVE Grows
    BY <1>8, UnlinkResult DEF RemoveReleased
  <1>9. ASSUME NEW t \in Tasks, WriteFails(t) PROVE Grows
    BY <1>9, WriteFailsResult DEF WriteFails
  <1>10. ASSUME NEW t \in Tasks, GiveUp(t) PROVE Grows
    BY <1>10 DEF GiveUp, history
  <1>11. ASSUME NEW t \in Tasks, Release(t) PROVE Grows
    BY <1>11, ReleaseResult DEF Flags
  <1>12. ASSUME NEW p \in Procs, Watchdog(p) PROVE Grows
    BY <1>12 DEF Watchdog, history
  <1>13. ASSUME NEW p \in Procs, RemoveForced(p) PROVE Grows
    BY <1>13, UnlinkResult DEF RemoveForced
  <1>14. ASSUME NEW p \in Procs, Dies(p) PROVE Grows
    BY <1>14 DEF Dies, history, Ends, Fault, disk
  <1>15. ASSUME NEW p \in Procs, Exits(p) PROVE Grows
    BY <1>15, UnlinkResult DEF Exits, Ends
  <1>16. ASSUME NEW p \in Procs, IsRecycled(p) PROVE Grows
    BY <1>16 DEF IsRecycled, history
  <1>17. CASE Ages
    BY <1>17 DEF Ages, history
  <1>18. CASE CleanupJudges
    BY <1>18 DEF CleanupJudges, history
  <1>19. CASE CleanupRemoves
    BY <1>19, UnlinkResult DEF CleanupRemoves
  <1>20. CASE UNCHANGED vars
    BY <1>20 DEF vars, history
  <1>21. ASSUME NEW t \in Tasks, Enter(t) PROVE Grows
    BY <1>21 DEF Enter, history
  <1>22. ASSUME NEW p \in Procs, Signalled(p) PROVE Grows
    BY <1>22, UnlinkResult DEF Signalled
  <1> QED
    BY <1>1, <1>2, <1>3, <1>4, <1>5, <1>6, <1>7, <1>8, <1>9, <1>10, <1>11, <1>12, <1>13,
       <1>14, <1>15, <1>16, <1>17, <1>18, <1>19, <1>20, <1>21, <1>22
    DEF Next, Step

LEMMA DoubtStays ==
    ASSUME NEW l \in Tasks, lapsed \subseteq lapsed'
    PROVE  Doubtful(l) => Doubtful(l)'
  BY DEF Doubtful

LEMMA GoneHasNoHolders ==
    ASSUME NEW l \in Tasks, HoldersShare, DeadAreDone, proc[ProcOf[l]] # "alive"
    PROVE  Holders(l) = {} /\ at[l] = "done" /\ held[ProcOf[l]].lock # l
  BY LockFileAssumption DEF Holders, Holding, HoldersShare, DeadAreDone, NotHeld

LEMMA WriterHasNoHolders ==
    ASSUME NEW l \in Tasks, Order, Typed, ~Past(l)
    PROVE  /\ Holders(l) = {} /\ held[ProcOf[l]].lock # l /\ proc[ProcOf[l]] = "alive"
           /\ \A u \in Tasks : at[u] = "releasing" => seen[u] # l
  <1>1. Holders(l) = {}
    BY DEF Holders, Holding, Order, HoldersShare
  <1>2. ProcOf[l] \in Procs /\ l # None
    BY LockFileAssumption
  <1>3. held[ProcOf[l]].lock # l
    BY <1>2 DEF Order, TableIsOwn
  <1>4. proc[ProcOf[l]] = "alive"
    BY <1>2 DEF Order, DeadAreDone, Past
  <1>5. \A u \in Tasks : at[u] = "releasing" => seen[u] # l
    BY DEF Order, HoldersShare
  <1> QED
    BY <1>1, <1>3, <1>4, <1>5

LEMMA TidyStep ==
    ASSUME Typed, Flags, Order, Marks, Tidiness, [Next]_vars
    PROVE  Tidiness'
  <1> SUFFICES ASSUME ~misfired', NEW l \in Tasks, ~Doubtful(l)'
               PROVE  Tidy(l)'
    BY DEF Tidiness
  <1>a. lapsed \subseteq lapsed' /\ ~misfired
    BY HistoryGrows DEF Order
  <1>b. ~Doubtful(l)
    BY <1>a, DoubtStays
  <1>c. OwnersHaveFile(l) /\ CountIsRight(l) /\ ReleasedByAll(l) /\ RemovedForCause(l)
    BY <1>a, <1>b DEF Tidiness, Tidy
  <1>d. ProcOf[l] \in Procs /\ l # None /\ l \notin lapsed /\ l \notin lapsed'
    BY <1>b, LockFileAssumption DEF Doubtful
  <1> USE DEF Typed, Places, Creating
  <1>1. ASSUME NEW t \in Tasks, Acquire(t) PROVE Tidy(l)'
    <2>1. UNCHANGED <<file, proc, sweep>>
      BY <1>1, AcquireResult
    <2>2. CASE ~Shares(t)
      <3>1. at' = [at EXCEPT ![t] = "trying"] /\ at[t] = "idle" /\ UNCHANGED <<held, seen>>
        BY <1>1, <2>2, AcquireResult
      <3>2. Holders(l)' = Holders(l)
        BY <3>1 DEF Holders, Holding
      <3> QED
        BY <1>c, <2>1, <3>1, <3>2 DEF Tidy, OwnersHaveFile, CountIsRight, ReleasedByAll,
                                      RemovedForCause, Past
    <2>3. CASE Shares(t) /\ held[ProcOf[t]].lock # l
      <3>1. Holders(l)' = Holders(l)
        BY <2>3 DEF Shares, Holders, Holding
      <3>2. held'[ProcOf[l]].lock = held[ProcOf[l]].lock
            /\ (held[ProcOf[l]].lock = l => held'[ProcOf[l]] = held[ProcOf[l]])
        BY <1>d, <2>3 DEF Shares
      <3> QED
        BY <1>c, <2>1, <2>3, <3>1, <3>2 DEF Shares, Tidy, OwnersHaveFile, CountIsRight,
                                            ReleasedByAll, RemovedForCause, Past
    <2>4. CASE Shares(t) /\ held[ProcOf[t]].lock = l
      <3>1. ProcOf[t] = ProcOf[l]
        BY <2>4, LockFileAssumption DEF Order, TableIsOwn
      <3>2. Holders(l)' = Holders(l) \cup {t} /\ t \notin Holders(l)
        BY <2>4 DEF Shares, Holders, Holding
      <3>3. IsFiniteSet(Holders(l)) /\ held[ProcOf[l]].count = Cardinality(Holders(l))
        BY <1>c, <2>4, <3>1 DEF CountIsRight
      <3>4. held[ProcOf[l]].count # 0
        BY <1>d, <2>4, <3>1
      <3>5. Holders(l) # {}
        BY <3>3, <3>4, FS_EmptySet
      <3>6. held'[ProcOf[l]].lock = l /\ held'[ProcOf[l]].count = held[ProcOf[l]].count + 1
        BY <1>d, <2>4, <3>1 DEF Shares
      <3>7. CountIsRight(l)'
        BY <3>2, <3>3, <3>6, FS_AddElement DEF CountIsRight
      <3>8. OwnersHaveFile(l)'
        BY <1>c, <2>1, <2>4, <3>5, <3>6 DEF OwnersHaveFile, Shares
      <3>9. ReleasedByAll(l)'
        BY <1>c, <2>4, <3>1 DEF ReleasedByAll, Shares
      <3>10. RemovedForCause(l)'
        <4>1. \A u \in Tasks : at[u] = "removing" /\ seen[u] = l => proc[ProcOf[l]] # "alive"
          BY <1>c, <2>4, <3>1 DEF RemovedForCause
        <4> QED
          BY <1>c, <2>1, <2>4, <4>1 DEF RemovedForCause, Shares
      <3> QED
        BY <3>7, <3>8, <3>9, <3>10 DEF Tidy
    <2> QED
      BY <2>2, <2>3, <2>4
  <1>2. ASSUME NEW t \in Tasks, Open(t) PROVE Tidy(l)'
    <2>1. UNCHANGED <<held, proc, sweep>>
      BY <1>2 DEF Open
    <2>2. at[t] = "trying" /\ at' \in {[at EXCEPT ![t] = "writing"], [at EXCEPT ![t] = "reading"]}
      BY <1>2 DEF Open, Goes
    <2>3. seen' = seen \/ seen' = [seen EXCEPT ![t] = t]
      BY <1>2 DEF Open, Sees
    <2>4. Holders(l)' = Holders(l)
      BY <2>2, <2>3 DEF Holders, Holding
    <2>5. OwnersHaveFile(l)'
      <3>1. CASE file = None
        <4>1. file' = t /\ at' = [at EXCEPT ![t] = "writing"] /\ Holders(l) = {}
          BY <1>2, <1>c, <1>d, <3>1 DEF Open, Goes, OwnersHaveFile
        <4> QED
          BY <1>c, <1>d, <2>4, <3>1, <4>1 DEF OwnersHaveFile
      <3>2. CASE file # None
        <4>1. file' = file /\ at' = [at EXCEPT ![t] = "reading"]
          BY <1>2, <3>2 DEF Open, Goes, disk
        <4> QED
          BY <1>c, <2>1, <2>4, <4>1 DEF OwnersHaveFile
      <3> QED
        BY <3>1, <3>2
    <2>6. \A u \in Tasks : at'[u] \in {"removing", "releasing"}
                          => at'[u] = at[u] /\ seen'[u] = seen[u]
      BY <2>2, <2>3
    <2>7. Past(l) => Past(l)'
      BY <2>2 DEF Past
    <2> QED
      BY <1>c, <2>1, <2>4, <2>5, <2>6, <2>7 DEF Tidy, CountIsRight, ReleasedByAll,
         RemovedForCause
  <1>3. ASSUME NEW t \in Tasks, Write(t) PROVE Tidy(l)'
    <2>1. /\ at[t] = "writing" /\ at' = [at EXCEPT ![t] = "entering"]
          /\ UNCHANGED <<file, proc, held, seen, sweep>>
      BY <1>3 DEF Write, Goes
    <2>2. Holders(l)' = Holders(l)
      BY <2>1 DEF Holders, Holding
    <2> QED
      BY <1>c, <2>1, <2>2 DEF Tidy, OwnersHaveFile, CountIsRight, ReleasedByAll,
                              RemovedForCause, Past
  <1>4. ASSUME NEW t \in Tasks, ReadPayload(t) PROVE Tidy(l)'
    <2>1. /\ at[t] = "reading" /\ at' = [at EXCEPT ![t] = Verdict(t)]
          /\ seen' = [seen EXCEPT ![t] = file]
          /\ UNCHANGED <<file, proc, held, sweep>>
      BY <1>4 DEF ReadPayload, Goes, Sees, disk
    <2>2. Verdict(t) \in {"statting", "waiting", "removing"}
      BY DEF Verdict
    <2>3. Holders(l)' = Holders(l)
      BY <2>1, <2>2 DEF Holders, Holding
    <2>4. ASSUME Verdict(t) = "removing", file = l
          PROVE  \/ proc[ProcOf[l]] # "alive"
                 \/ ~StartTimes /\ Past(l) /\ held[ProcOf[l]].lock # l
      <3>1. file # None /\ written
        BY <2>4 DEF Verdict
      <3>2. CreatorIsGone(l) \/ old \/ IsOrphanSelf(t, l)
        BY <2>4, <3>1 DEF Verdict
      <3>3. ~old
        BY <1>d, <2>4 DEF Marks, OldHasLapsed
      <3>4. IsOrphanSelf(t, l) => Past(l)
        <4>1. IsOrphanSelf(t, l) => at[l] # "entering"
          BY <1>4, <1>d, <2>4, <3>1 DEF ReadPayload
        <4> QED
          BY <2>4, <3>1, <4>1 DEF Marks, WrittenIsPast
      <3> QED
        BY <1>d, <3>2, <3>3, <3>4 DEF CreatorIsGone, IsOrphanSelf
    <2>5. Past(l) => Past(l)'
      BY <2>1, <2>2 DEF Past
    <2>6. \A u \in Tasks : at'[u] = "removing" /\ seen'[u] = l
                           => \/ at[u] = "removing" /\ seen[u] = l
                              \/ Verdict(t) = "removing" /\ file = l
      BY <2>1
    <2>7. RemovedForCause(l)'
      BY <1>c, <2>1, <2>4, <2>5, <2>6 DEF RemovedForCause
    <2>8. OwnersHaveFile(l)' /\ CountIsRight(l)' /\ ReleasedByAll(l)'
      BY <1>c, <2>1, <2>2, <2>3 DEF OwnersHaveFile, CountIsRight, ReleasedByAll
    <2> QED
      BY <2>7, <2>8 DEF Tidy
  <1>5. ASSUME NEW t \in Tasks, StatFile(t) PROVE Tidy(l)'
    <2>1. /\ at[t] = "statting"
          /\ at' \in {[at EXCEPT ![t] = "waiting"], [at EXCEPT ![t] = "removing"]}
          /\ old \/ file = None \/ at' = [at EXCEPT ![t] = "waiting"]
          /\ seen' = [seen EXCEPT ![t] = file]
          /\ UNCHANGED <<file, proc, held, sweep>>
      BY <1>5 DEF StatFile, Goes, Sees, disk
    <2>2. at'[t] # "removing" \/ file # l
      BY <1>d, <2>1 DEF Marks, OldHasLapsed
    <2>3. Holders(l)' = Holders(l)
      BY <2>1 DEF Holders, Holding
    <2>4. RemovedForCause(l)'
      BY <1>c, <2>1, <2>2 DEF RemovedForCause, Past
    <2>5. OwnersHaveFile(l)' /\ CountIsRight(l)' /\ ReleasedByAll(l)'
      BY <1>c, <2>1, <2>3 DEF OwnersHaveFile, CountIsRight, ReleasedByAll
    <2> QED
      BY <2>4, <2>5 DEF Tidy
  <1>6. ASSUME NEW t \in Tasks, RemoveStale(t) PROVE Tidy(l)'
    <2>1. /\ at[t] = "removing" /\ at' = [at EXCEPT ![t] = "trying"]
          /\ file = seen[t] \/ file = None
          /\ UNCHANGED <<proc, held, seen, sweep>>
      BY <1>6, UnlinkResult DEF RemoveStale, Goes
    <2>2. Holders(l)' = Holders(l)
      BY <2>1 DEF Holders, Holding
    <2>3. file = l => Holders(l) = {} /\ ~Creating(l)
      <3>1. SUFFICES ASSUME file = l PROVE Holders(l) = {} /\ ~Creating(l)
        OBVIOUS
      <3>2. CASE proc[ProcOf[l]] # "alive"
        BY <3>2, GoneHasNoHolders DEF Order
      <3>3. CASE ~StartTimes /\ Past(l) /\ held[ProcOf[l]].lock # l
        BY <1>c, <3>3 DEF OwnersHaveFile, Past
      <3> QED
        BY <1>c, <1>d, <2>1, <3>1, <3>2, <3>3 DEF RemovedForCause
    <2>4. OwnersHaveFile(l)'
      BY <1>c, <2>1, <2>2, <2>3 DEF OwnersHaveFile
    <2>5. CountIsRight(l)' /\ ReleasedByAll(l)' /\ RemovedForCause(l)'
      BY <1>c, <2>1, <2>2 DEF CountIsRight, ReleasedByAll, RemovedForCause, Past
    <2> QED
      BY <2>4, <2>5 DEF Tidy
  <1>7. ASSUME NEW t \in Tasks, TryAgain(t) \/ GiveUp(t) PROVE Tidy(l)'
    <2>1. /\ at[t] \in {"waiting", "trying"}
          /\ at' \in {[at EXCEPT ![t] = "trying"], [at EXCEPT ![t] = "done"]}
          /\ UNCHANGED <<file, proc, held, seen, sweep>>
      BY <1>7 DEF TryAgain, GiveUp, Goes, disk
    <2>2. Holders(l)' = Holders(l)
      BY <2>1 DEF Holders, Holding
    <2> QED
      BY <1>c, <2>1, <2>2 DEF Tidy, OwnersHaveFile, CountIsRight, ReleasedByAll,
                              RemovedForCause, Past
  <1>8. ASSUME NEW t \in Tasks, RemoveReleased(t) PROVE Tidy(l)'
    <2>1. /\ at[t] = "releasing" /\ at' = [at EXCEPT ![t] = "done"]
          /\ file = seen[t] \/ file = None
          /\ UNCHANGED <<proc, held, seen, sweep>>
      BY <1>8, UnlinkResult DEF RemoveReleased, Goes
    <2>2. Holders(l)' = Holders(l)
      BY <2>1 DEF Holders, Holding
    <2>3. file = l => Holders(l) = {} /\ ~Creating(l)
      BY <1>c, <1>d, <2>1 DEF ReleasedByAll, Order, HoldersShare, Past
    <2>4. OwnersHaveFile(l)'
      BY <1>c, <2>1, <2>2, <2>3 DEF OwnersHaveFile
    <2>5. CountIsRight(l)' /\ ReleasedByAll(l)' /\ RemovedForCause(l)'
      BY <1>c, <2>1, <2>2 DEF CountIsRight, ReleasedByAll, RemovedForCause, Past
    <2> QED
      BY <2>4, <2>5 DEF Tidy
  <1>9. ASSUME NEW t \in Tasks, WriteFails(t) PROVE Tidy(l)'
    <2>1. /\ at[t] = "writing" /\ at' = [at EXCEPT ![t] = "done"]
          /\ file' = file \/ file = t \/ file = None
          /\ UNCHANGED <<proc, held, seen, sweep>>
      BY <1>9, WriteFailsResult DEF WriteFails, Goes
    <2>2. Holders(l)' = Holders(l)
      BY <2>1 DEF Holders, Holding
    <2>3. ~Past(t)
      BY <2>1 DEF Past
    <2>4. l = t => Holders(l) = {}
      BY <2>3, WriterHasNoHolders
    <2>5. OwnersHaveFile(l)'
      BY <1>c, <1>d, <2>1, <2>2, <2>4 DEF OwnersHaveFile
    <2>6. CountIsRight(l)' /\ ReleasedByAll(l)' /\ RemovedForCause(l)'
      BY <1>c, <2>1, <2>2 DEF CountIsRight, ReleasedByAll, RemovedForCause, Past
    <2> QED
      BY <2>5, <2>6 DEF Tidy
  <1>10. ASSUME NEW t \in Tasks, Release(t) PROVE Tidy(l)'
    <2>1. /\ UNCHANGED <<file, proc, sweep>>
          /\ ProcOf[t] \in Procs
      BY <1>10, ReleaseResult, LockFileAssumption DEF Flags, Order
    <2>2. CASE Leaves(t) /\ ~IsMine(t)
      <3>1. Holders(l)' = Holders(l) \/ (seen[t] = l /\ held[ProcOf[t]].lock # l)
        <4>1. seen[t] = l => held[ProcOf[t]].lock # l
          BY <1>d, <2>2 DEF IsMine
        <4>2. seen[t] # l => Holders(l)' = Holders(l)
          BY <2>2 DEF Leaves, Holders, Holding
        <4> QED
          BY <4>1, <4>2
      <3>2. seen[t] = l => ProcOf[t] = ProcOf[l]
        BY <2>2 DEF Leaves, Order, HoldersShare
      <3>3. Holders(l)' \subseteq Holders(l)
        BY <2>2 DEF Leaves, Holders, Holding
      <3>4. OwnersHaveFile(l)'
        BY <1>c, <2>1, <2>2, <3>3 DEF OwnersHaveFile, Leaves
      <3>5. CountIsRight(l)'
        BY <1>c, <2>2, <3>1, <3>2 DEF CountIsRight, Leaves
      <3>6. ReleasedByAll(l)' /\ RemovedForCause(l)'
        BY <1>c, <2>1, <2>2, <3>3 DEF ReleasedByAll, RemovedForCause, Leaves, Past
      <3> QED
        BY <3>4, <3>5, <3>6 DEF Tidy
    <2>3. CASE (Unshares(t) \/ Frees(t)) /\ held[ProcOf[t]].lock = seen[t]
      <3>1. at[t] = "holding" /\ seen' = seen
        BY <2>1, <2>3 DEF Unshares, Frees
      <3>2. CASE seen[t] # l
        <4>1. Holders(l)' = Holders(l)
          BY <2>3, <3>1, <3>2 DEF Unshares, Frees, Holders, Holding
        <4>2. held'[ProcOf[l]] = held[ProcOf[l]]
              \/ (held[ProcOf[l]].lock # l /\ held'[ProcOf[l]].lock # l)
          BY <1>d, <2>1, <2>3, <3>2 DEF Unshares, Frees, NotHeld
        <4>3. Creating(l)' => Creating(l)
          BY <2>3 DEF Unshares, Frees
        <4>4. \A u \in Tasks : at'[u] \in {"releasing", "removing"} /\ seen'[u] = l
                               => at'[u] = at[u] /\ seen[u] = l
          BY <2>3, <3>1, <3>2 DEF Unshares, Frees
        <4>5. Past(l) => Past(l)'
          BY <2>3 DEF Unshares, Frees, Past
        <4> QED
          BY <1>c, <2>1, <4>1, <4>2, <4>3, <4>4, <4>5
             DEF Tidy, OwnersHaveFile, CountIsRight, ReleasedByAll, RemovedForCause
      <3>3. CASE seen[t] = l
        <4>1. held[ProcOf[l]].lock = l /\ ProcOf[t] = ProcOf[l] /\ Past(l)
          BY <2>3, <3>1, <3>3 DEF Order, HoldersShare
        <4>2. IsFiniteSet(Holders(l)) /\ held[ProcOf[l]].count = Cardinality(Holders(l))
          BY <1>c, <4>1 DEF CountIsRight
        <4>3. t \in Holders(l) /\ Holders(l)' = Holders(l) \ {t}
          BY <2>3, <3>1, <3>3 DEF Unshares, Frees, Holders, Holding
        <4>4. /\ IsFiniteSet(Holders(l)')
              /\ Cardinality(Holders(l)') = Cardinality(Holders(l)) - 1
          BY <4>2, <4>3, FS_RemoveElement
        <4>5. /\ \A u \in Tasks : at[u] # "releasing" \/ seen[u] # l
              /\ \A u \in Tasks : at[u] = "removing" /\ seen[u] = l => proc[ProcOf[l]] # "alive"
          BY <1>c, <4>1 DEF ReleasedByAll, RemovedForCause
        <4>6. CASE Unshares(t)
          <5>1. held'[ProcOf[l]].lock = l /\ held'[ProcOf[l]].count = held[ProcOf[l]].count - 1
            BY <1>d, <4>1, <4>6 DEF Unshares
          <5>2. OwnersHaveFile(l)'
            BY <1>c, <2>1, <4>3, <4>6, <5>1 DEF OwnersHaveFile, Unshares
          <5>3. CountIsRight(l)'
            BY <4>2, <4>4, <5>1 DEF CountIsRight
          <5>4. ReleasedByAll(l)' /\ RemovedForCause(l)'
            BY <1>c, <2>1, <4>5, <4>6 DEF ReleasedByAll, RemovedForCause, Unshares
          <5> QED
            BY <5>2, <5>3, <5>4 DEF Tidy
        <4>7. CASE Frees(t)
          <5>1. held'[ProcOf[l]].lock # l /\ held[ProcOf[l]].count = 1
            BY <1>d, <4>1, <4>7 DEF Frees, NotHeld
          <5>2. Cardinality(Holders(l)') = 0
            BY <4>2, <4>4, <5>1
          <5>3. Holders(l)' = {}
            BY <4>4, <5>2, FS_EmptySet
          <5>4. OwnersHaveFile(l)'
            BY <1>c, <2>1, <4>7, <5>3 DEF OwnersHaveFile, Frees
          <5>5. CountIsRight(l)' /\ ReleasedByAll(l)'
            BY <5>1, <5>3 DEF CountIsRight, ReleasedByAll
          <5>6. RemovedForCause(l)'
            BY <1>c, <2>1, <3>1, <4>5, <4>7 DEF RemovedForCause, Frees
          <5> QED
            BY <5>4, <5>5, <5>6 DEF Tidy
        <4> QED
          BY <2>3, <4>6, <4>7
      <3> QED
        BY <3>2, <3>3
    <2> QED
      BY <1>10, <2>2, <2>3, ReleaseResult DEF Flags, Order
  <1>11. ASSUME NEW p \in Procs, Watchdog(p) PROVE Tidy(l)'
    <2>1. /\ held' = [held EXCEPT ![p] = NotHeld]
          /\ held[p].lock # None /\ held[p].lock \in lapsed'
          /\ UNCHANGED <<file, proc, at, seen, sweep>>
      BY <1>11 DEF Watchdog, disk
    <2>2. Holders(l)' = Holders(l)
      BY <2>1 DEF Holders, Holding
    <2>3. held'[ProcOf[l]] = held[ProcOf[l]] \/ (ProcOf[l] = p /\ held[p].lock # l
                                                /\ held'[ProcOf[l]].lock # l)
      BY <1>d, <2>1 DEF NotHeld
    <2>4. ~StartTimes => ProcOf[l] # p
      BY <2>1 DEF Doubtful, Order, TableIsOwn
    <2> QED
      BY <1>c, <2>1, <2>2, <2>3, <2>4 DEF Tidy, OwnersHaveFile, CountIsRight, ReleasedByAll,
                                          RemovedForCause, Past
  <1>12. ASSUME NEW p \in Procs, RemoveForced(p) PROVE Tidy(l)'
    <2>1. /\ file = forced[p] \/ file = None
          /\ UNCHANGED <<proc, held, at, seen, sweep>>
      BY <1>12, UnlinkResult DEF RemoveForced
    <2>2. file # l
      BY <1>12, <1>d, <2>1 DEF RemoveForced, Marks, ForcedHasLapsed
    <2>3. Holders(l)' = Holders(l)
      BY <2>1 DEF Holders, Holding
    <2> QED
      BY <1>c, <2>1, <2>2, <2>3 DEF Tidy, OwnersHaveFile, CountIsRight, ReleasedByAll,
                                    RemovedForCause, Past
  <1>13. ASSUME NEW p \in Procs, Dies(p) \/ Exits(p) PROVE Tidy(l)'
    <2>1. /\ proc' = [proc EXCEPT ![p] = "dead"]
          /\ held' = [held EXCEPT ![p] = NotHeld]
          /\ at' = [u \in Tasks |-> IF ProcOf[u] = p THEN "done" ELSE at[u]]
          /\ UNCHANGED <<seen, sweep>>
      BY <1>13 DEF Dies, Exits, Ends
    <2>2. CASE ProcOf[l] = p
      <3>1. Holders(l)' = {} /\ held'[ProcOf[l]].lock # l /\ proc'[ProcOf[l]] # "alive"
        BY <1>d, <2>1, <2>2 DEF Holders, Holding, NotHeld, Order, HoldersShare
      <3>2. ~Creating(l)'
        BY <2>1, <2>2
      <3> QED
        BY <3>1, <3>2 DEF Tidy, OwnersHaveFile, CountIsRight, ReleasedByAll, RemovedForCause
    <2>3. CASE ProcOf[l] # p
      <3>1. file' = file \/ file # l
        <4>1. Dies(p) => file' = file
          BY DEF Dies, disk
        <4>2. Exits(p) => file = held[p].lock \/ file = None
          BY UnlinkResult DEF Exits
        <4>3. Exits(p) => held[p].lock # l
          BY <1>d, <2>3 DEF Exits, Order, TableIsOwn
        <4> QED
          BY <1>13, <1>d, <4>1, <4>2, <4>3
      <3>2. Holders(l)' = Holders(l)
        BY <2>1, <2>3 DEF Holders, Holding, Order, HoldersShare
      <3>3. /\ held'[ProcOf[l]] = held[ProcOf[l]]
            /\ proc'[ProcOf[l]] = proc[ProcOf[l]] /\ at'[l] = at[l]
        BY <1>d, <2>1, <2>3
      <3>4. \A u \in Tasks : at'[u] \in {"releasing", "removing"} => at'[u] = at[u]
        BY <2>1
      <3> QED
        BY <1>c, <2>1, <3>1, <3>2, <3>3, <3>4
           DEF Tidy, OwnersHaveFile, CountIsRight, ReleasedByAll, RemovedForCause, Past
    <2> QED
      BY <2>2, <2>3
  <1>14. ASSUME NEW p \in Procs, IsRecycled(p) PROVE Tidy(l)'
    <2>1. /\ proc' = [proc EXCEPT ![p] = "recycled"]
          /\ UNCHANGED <<file, held, at, seen, sweep>>
      BY <1>14 DEF IsRecycled, disk
    <2>2. Holders(l)' = Holders(l)
      BY <2>1 DEF Holders, Holding
    <2>3. proc[ProcOf[l]] # "alive" => proc'[ProcOf[l]] # "alive"
      BY <1>d, <2>1
    <2> QED
      BY <1>c, <2>1, <2>2, <2>3 DEF Tidy, OwnersHaveFile, CountIsRight, ReleasedByAll,
                                    RemovedForCause, Past
  <1>15. CASE Ages \/ CleanupJudges \/ UNCHANGED vars
    <2>1. UNCHANGED <<file, proc, held, at, seen>>
      BY <1>15 DEF Ages, CleanupJudges, disk, vars
    <2>2. Holders(l)' = Holders(l)
      BY <2>1 DEF Holders, Holding
    <2>3. sweep' = l => proc[ProcOf[l]] # "alive"
      <3>1. CASE CleanupJudges
        <4>1. SUFFICES ASSUME file = l PROVE CreatorIsGone(l)
          BY <3>1 DEF CleanupJudges, CreatorIsGone
        <4>2. written /\ ~old
          BY <1>d, <3>1, <4>1 DEF CleanupJudges, Marks, OldHasLapsed
        <4> QED
          BY <3>1, <4>1, <4>2 DEF CleanupJudges
      <3>2. CASE sweep' = sweep
        BY <1>c, <3>2 DEF RemovedForCause
      <3> QED
        BY <1>15, <3>1, <3>2 DEF Ages, vars
    <2> QED
      BY <1>c, <2>1, <2>2, <2>3 DEF Tidy, OwnersHaveFile, CountIsRight, ReleasedByAll,
                                    RemovedForCause, Past
  <1>16. CASE CleanupRemoves
    <2>1. /\ sweep # None /\ sweep' = None
          /\ file = sweep \/ file = None
          /\ UNCHANGED <<proc, held, at, seen>>
      BY <1>16, UnlinkResult DEF CleanupRemoves
    <2>2. Holders(l)' = Holders(l)
      BY <2>1 DEF Holders, Holding
    <2>3. file = l => Holders(l) = {} /\ at[l] = "done"
      BY <1>c, <1>d, <2>1, GoneHasNoHolders DEF RemovedForCause, Order
    <2> QED
      BY <1>c, <1>d, <2>1, <2>2, <2>3 DEF Tidy, OwnersHaveFile, CountIsRight, ReleasedByAll,
                                          RemovedForCause, Past
  <1>17. ASSUME NEW t \in Tasks, Enter(t) PROVE Tidy(l)'
    <2>1. /\ at[t] = "entering" /\ seen[t] = t
          /\ at' = [at EXCEPT ![t] = "holding"]
          /\ held' = [held EXCEPT ![ProcOf[t]] = [lock |-> t, count |-> 1]]
          /\ UNCHANGED <<file, proc, seen, sweep>>
      BY <1>17 DEF Enter, Goes, Order, WritersOwn, disk
    <2>2. ProcOf[t] \in Procs /\ ~Past(t)
      BY <2>1, LockFileAssumption DEF Past
    <2>3. CASE l = t
      <3>1. /\ Holders(l) = {} /\ proc[ProcOf[l]] = "alive"
            /\ \A u \in Tasks : at[u] = "releasing" => seen[u] # l
        BY <2>2, <2>3, WriterHasNoHolders
      <3>2. Holders(l)' = {l}
        BY <2>1, <2>3, <3>1 DEF Holders, Holding
      <3>3. /\ file' = l /\ at'[l] = "holding"
            /\ held'[ProcOf[l]].lock = l /\ held'[ProcOf[l]].count = 1
        BY <1>c, <2>1, <2>2, <2>3 DEF OwnersHaveFile
      <3>4. IsFiniteSet(Holders(l)') /\ Cardinality(Holders(l)') = 1
        <4>1. IsFiniteSet({l}) /\ Cardinality({l}) = 1
          BY FS_Singleton, Zenon
        <4> QED
          BY <3>2, <4>1
      <3>5. \A u \in Tasks : at'[u] # "removing" \/ seen'[u] # l
        BY <1>c, <2>1, <2>2, <2>3, <3>1 DEF RemovedForCause
      <3>6. \A u \in Tasks : at'[u] # "releasing" \/ seen'[u] # l
        BY <2>1, <3>1
      <3>7. sweep' # l
        BY <1>c, <2>1, <3>1 DEF RemovedForCause
      <3> QED
        BY <3>3, <3>4, <3>5, <3>6, <3>7 DEF Tidy, OwnersHaveFile, CountIsRight, ReleasedByAll,
                                            RemovedForCause
    <2>4. CASE l # t
      <3>1. Holders(l)' = Holders(l)
        BY <2>1, <2>4 DEF Holders, Holding
      <3>2. \/ held'[ProcOf[l]] = held[ProcOf[l]]
            \/ held'[ProcOf[l]].lock = t /\ ProcOf[l] = ProcOf[t]
        BY <1>d, <2>1, <2>2
      <3>3. Holders(l) # {} /\ ~StartTimes => held'[ProcOf[l]] = held[ProcOf[l]]
        <4>1. SUFFICES ASSUME Holders(l) # {}, ~StartTimes, ProcOf[l] = ProcOf[t] PROVE FALSE
          BY <3>2
        <4>2. file # t
          BY <1>c, <2>4, <4>1 DEF OwnersHaveFile
        <4>3. Doubtful(t)
          BY <1>a, <2>1, <4>2 DEF Tidiness, Tidy, OwnersHaveFile
        <4>4. Doubtful(l)
          BY <4>1, <4>3 DEF Doubtful
        <4> QED
          BY <1>b, <4>4
      <3>4. OwnersHaveFile(l)'
        BY <1>c, <2>1, <2>4, <3>1, <3>3 DEF OwnersHaveFile
      <3>5. CountIsRight(l)'
        BY <1>c, <2>4, <3>1, <3>2 DEF CountIsRight
      <3>6. ReleasedByAll(l)' /\ RemovedForCause(l)'
        BY <1>c, <2>1, <2>4, <3>1, <3>2 DEF ReleasedByAll, RemovedForCause, Past
      <3> QED
        BY <3>4, <3>5, <3>6 DEF Tidy
    <2> QED
      BY <2>3, <2>4
  <1>18. ASSUME NEW p \in Procs, Signalled(p) PROVE Tidy(l)'
    <2>1. /\ held' = [held EXCEPT ![p] = NotHeld]
          /\ held[p].lock # None /\ held[p].lock \in lapsed'
          /\ file = held[p].lock \/ file = None
          /\ UNCHANGED <<proc, at, seen, sweep>>
      BY <1>18, UnlinkResult DEF Signalled
    <2>2. Holders(l)' = Holders(l)
      BY <2>1 DEF Holders, Holding
    <2>3. file # l
      BY <1>d, <2>1
    <2>4. held'[ProcOf[l]] = held[ProcOf[l]] \/ (ProcOf[l] = p /\ held[p].lock # l
                                                /\ held'[ProcOf[l]].lock # l)
      BY <1>d, <2>1 DEF NotHeld
    <2> QED
      BY <1>c, <2>1, <2>2, <2>3, <2>4 DEF Tidy, OwnersHaveFile, CountIsRight, ReleasedByAll,
                                          RemovedForCause, Past
  <1> QED
    BY <1>1, <1>2, <1>3, <1>4, <1>5, <1>6, <1>7, <1>8, <1>9, <1>10, <1>11, <1>12, <1>13, <1>14,
       <1>15, <1>16, <1>17, <1>18 DEF Next, Step

-----------------------------------------------------------------------------
(* Without faults, session locks never misfire. *)

Unfaulted == kind = "session" /\ StartTimes /\ faults = 0

Calm ==
    /\ ~misfired /\ lapsed = {} /\ sweep = None
    /\ \A p \in Procs : proc[p] = "alive"
    /\ \A t \in Tasks :
         /\ at[t] # "removing"
         /\ at[t] = "holding" => held[ProcOf[t]].lock = seen[t]
         /\ at[t] = "releasing"
            => file = seen[t] /\ \A u \in Tasks : at[u] = "releasing" => u = t

CalmFirst == Unfaulted => Calm

LEMMA CalmStep ==
    ASSUME Typed, Flags, Order, Marks, Tidiness, CalmFirst, [Next]_vars
    PROVE  CalmFirst'
  <1> SUFFICES ASSUME Unfaulted' PROVE Calm'
    BY DEF CalmFirst
  <1> USE DEF Typed, Places
  <1>a. /\ Unfaulted
        /\ \A t \in Tasks : ~WriteFails(t)
        /\ \A p \in Procs : ~Watchdog(p) /\ ~Dies(p) /\ ~Exits(p) /\ ~Signalled(p)
        /\ ~Ages /\ ~CleanupJudges
    <2>1. ~Fault
      BY DEF Fault, Unfaulted
    <2>2. /\ \A t \in Tasks : ~WriteFails(t)
          /\ \A p \in Procs : ~Watchdog(p) /\ ~Dies(p) /\ ~Exits(p) /\ ~Signalled(p)
          /\ ~Ages /\ ~CleanupJudges
      BY <2>1 DEF WriteFails, Watchdog, Dies, Exits, Signalled, Ends, Ages, CleanupJudges
    <2>3. UNCHANGED <<kind, faults>>
      BY <2>2 DEF Next, Step, Acquire, Open, Write, Enter, ReadPayload, StatFile,
                  RemoveStale, TryAgain, RemoveReleased, GiveUp, Release, RemoveForced,
                  IsRecycled, CleanupRemoves, vars
    <2> QED
      BY <2>2, <2>3 DEF Unfaulted
  <1>b. Calm
    BY <1>a DEF CalmFirst
  <1>c. \A l \in Tasks : Tidy(l)
    BY <1>a, <1>b DEF Tidiness, Calm, Doubtful, Unfaulted
  <1>d. ~old /\ \A p \in Procs : forced[p] = None
    BY <1>b DEF Calm, Marks, OldHasLapsed, ForcedHasLapsed
  <1>1. ASSUME NEW t \in Tasks, Acquire(t) PROVE Calm'
    <2>1. UNCHANGED <<file, proc, sweep, lapsed, misfired>>
      BY <1>1, AcquireResult
    <2>2. CASE Shares(t)
      <3>1. held'[ProcOf[t]].lock = seen'[t] /\ \A p \in Procs : held'[p].lock = held[p].lock
        BY <2>2, LockFileAssumption DEF Shares
      <3>2. \A u \in Tasks : ProcOf[u] \in Procs
        BY LockFileAssumption
      <3> QED
        BY <1>b, <2>1, <2>2, <3>1, <3>2 DEF Calm, Shares
    <2>3. CASE ~Shares(t)
      BY <1>1, <1>b, <2>1, <2>3, AcquireResult DEF Calm
    <2> QED
      BY <2>2, <2>3
  <1>2. ASSUME NEW t \in Tasks, Open(t) PROVE Calm'
    <2>1. UNCHANGED <<proc, held, sweep, lapsed, misfired>>
      BY <1>2 DEF Open, history
    <2>2. CASE file = None
      <3>1. at' = [at EXCEPT ![t] = "writing"] /\ seen' = [seen EXCEPT ![t] = t]
        BY <1>2, <2>2 DEF Open, Goes, Sees
      <3>2. \A u \in Tasks : at[u] # "releasing"
        BY <1>b, <2>2, LockFileAssumption DEF Calm, Order, HoldersShare
      <3> QED
        BY <1>b, <2>1, <3>1, <3>2 DEF Calm
    <2>3. CASE file # None
      <3>1. at' = [at EXCEPT ![t] = "reading"] /\ UNCHANGED <<file, seen>>
        BY <1>2, <2>3 DEF Open, Goes, disk
      <3> QED
        BY <1>b, <2>1, <3>1 DEF Calm
    <2> QED
      BY <2>2, <2>3
  <1>3. ASSUME NEW t \in Tasks, Write(t) PROVE Calm'
    <2>1. /\ at[t] = "writing" /\ at' = [at EXCEPT ![t] = "entering"]
          /\ UNCHANGED <<file, proc, held, seen, sweep, lapsed, misfired>>
      BY <1>3 DEF Write, Goes, history
    <2> QED
      BY <1>b, <2>1 DEF Calm
  <1>4. ASSUME NEW t \in Tasks, ReadPayload(t) \/ StatFile(t) \/ TryAgain(t) \/ GiveUp(t)
        PROVE  Calm'
    <2>1. UNCHANGED <<file, proc, held, sweep, lapsed, misfired>>
      BY <1>4, <1>a DEF ReadPayload, IsOrphanSelf, StatFile, TryAgain, GiveUp, Unfaulted, disk,
                        history
    <2>2. ASSUME ReadPayload(t) PROVE Verdict(t) \in {"statting", "waiting"}
      <3>1. file = None \/ ~CreatorIsGone(file)
        BY <1>b, LockFileAssumption DEF CreatorIsGone, Calm
      <3> QED
        BY <1>a, <1>d, <3>1 DEF Verdict, IsOrphanSelf, Unfaulted
    <2>3. /\ at[t] \notin {"holding", "releasing"}
          /\ at' \in {[at EXCEPT ![t] = x] : x \in {"statting", "waiting", "trying", "done"}}
      BY <1>4, <1>a, <1>d, <2>2
         DEF ReadPayload, StatFile, TryAgain, GiveUp, Goes, Unfaulted
    <2>4. \A u \in Tasks : u # t => seen'[u] = seen[u]
      BY <1>4 DEF ReadPayload, StatFile, TryAgain, GiveUp, Sees
    <2> QED
      BY <1>b, <2>1, <2>3, <2>4 DEF Calm
  <1>5. ASSUME NEW t \in Tasks, RemoveReleased(t) PROVE Calm'
    <2>1. /\ at[t] = "releasing" /\ at' = [at EXCEPT ![t] = "done"]
          /\ UNCHANGED <<proc, held, seen, sweep, lapsed>>
      BY <1>5 DEF RemoveReleased, Goes
    <2>2. file = seen[t] /\ \A u \in Tasks : at'[u] # "releasing"
      BY <1>b, <2>1 DEF Calm
    <2>3. ~misfired'
      BY <1>5, <1>b, <2>2 DEF RemoveReleased, Unlink, Calm
    <2> QED
      BY <1>b, <2>1, <2>2, <2>3 DEF Calm
  <1>6. ASSUME NEW t \in Tasks, Release(t) PROVE Calm'
    <2>1. UNCHANGED <<file, proc, sweep, lapsed>> /\ ProcOf[t] \in Procs /\ at[t] = "holding"
      BY <1>6, ReleaseResult, LockFileAssumption DEF Flags, Order, Leaves, Unshares, Frees
    <2>2. /\ held[ProcOf[t]].lock = seen[t] /\ seen[t] \in Tasks /\ ProcOf[seen[t]] = ProcOf[t]
          /\ t \in Holders(seen[t])
      BY <1>b, <2>1 DEF Calm, Order, HoldersShare, Holders, Holding
    <2>3. ~misfired'
      BY <1>6, <1>b, <2>2 DEF Release, Calm
    <2>4. IsMine(t)
      BY <1>a, <2>2 DEF IsMine, Unfaulted
    <2>5. CASE Unshares(t)
      <3>1. \A p \in Procs : held'[p].lock = held[p].lock
        BY <2>1, <2>5 DEF Unshares
      <3>2. \A u \in Tasks : ProcOf[u] \in Procs
        BY LockFileAssumption
      <3> QED
        BY <1>b, <2>1, <2>3, <2>5, <3>1, <3>2 DEF Unshares, Calm
    <2>6. CASE Frees(t)
      <3> DEFINE l == seen[t]
      <3>1. /\ at' = [at EXCEPT ![t] = "releasing"] /\ seen' = seen
            /\ held' = [held EXCEPT ![ProcOf[t]] = NotHeld]
            /\ held[ProcOf[l]].count = 1
        BY <2>2, <2>6 DEF Frees
      <3>2. file = l /\ \A u \in Tasks : at[u] = "releasing" => seen[u] # l
        BY <1>c, <2>2 DEF Tidy, OwnersHaveFile, ReleasedByAll
      <3>3. IsFiniteSet(Holders(l)) /\ Cardinality(Holders(l)) = 1
        BY <1>c, <2>2, <3>1 DEF Tidy, CountIsRight
      <3>4. PICK x : Holders(l) = {x}
        BY <3>3, FS_Singleton
      <3>5. \A u \in Tasks : at[u] = "holding" /\ seen[u] = l => u = t
        BY <2>2, <3>4 DEF Holders, Holding
      <3>6. \A u \in Tasks : at[u] = "holding" /\ u # t => ProcOf[u] # ProcOf[t]
        BY <1>b, <2>2, <3>5 DEF Calm
      <3>7. \A u \in Tasks : at[u] # "releasing"
        BY <1>b, <3>2 DEF Calm
      <3>8. \A u \in Tasks : ProcOf[u] \in Procs
        BY LockFileAssumption
      <3> QED
        BY <1>b, <2>1, <2>3, <3>1, <3>2, <3>6, <3>7, <3>8 DEF Calm
    <2> QED
      BY <1>6, <2>4, <2>5, <2>6, ReleaseResult DEF Flags, Order
  <1>7. ASSUME NEW t \in Tasks, RemoveStale(t) PROVE Calm'
    BY <1>7, <1>b DEF RemoveStale, Goes, Calm
  <1>8. ASSUME NEW p \in Procs, RemoveForced(p) \/ IsRecycled(p) PROVE Calm'
    BY <1>8, <1>b, <1>d DEF RemoveForced, IsRecycled, Calm
  <1>9. CASE CleanupRemoves
    BY <1>9, <1>b DEF CleanupRemoves, Calm
  <1>10. CASE UNCHANGED vars
    BY <1>10, <1>b DEF vars, disk, history, Calm
  <1>11. ASSUME NEW t \in Tasks, Enter(t) PROVE Calm'
    <2>1. /\ at[t] = "entering" /\ seen[t] = t
          /\ at' = [at EXCEPT ![t] = "holding"]
          /\ held' = [held EXCEPT ![ProcOf[t]] = [lock |-> t, count |-> 1]]
          /\ UNCHANGED <<file, proc, seen, sweep, lapsed, misfired>>
      BY <1>11 DEF Enter, Goes, Order, WritersOwn, Creating, disk,
                     history
    <2>2. ASSUME NEW u \in Tasks, at[u] = "holding" PROVE FALSE
      <3>1. seen[u] \in Tasks /\ Past(seen[u]) /\ u \in Holders(seen[u])
        BY <2>2 DEF Order, HoldersShare, Holders, Holding
      <3>2. file = seen[u]
        BY <1>c, <3>1 DEF Tidy, OwnersHaveFile
      <3>3. file = t
        BY <1>c, <2>1 DEF Tidy, OwnersHaveFile, Creating
      <3> QED
        BY <2>1, <3>1, <3>2, <3>3 DEF Past
    <2>3. ProcOf[t] \in Procs
      BY LockFileAssumption
    <2> QED
      BY <1>b, <2>1, <2>2, <2>3 DEF Calm
  <1> QED
    BY <1>a, <1>1, <1>2, <1>3, <1>4, <1>5, <1>6, <1>7, <1>8, <1>9, <1>10, <1>11
    DEF Next, Step

-----------------------------------------------------------------------------
(* A complete lock file of a process that lives. *)

HasLapsed(p) == \E l \in lapsed : ProcOf[l] = p

\* It is in the table of the process, or about to be entered or removed.
Accounted(l) ==
    \/ at[l] = "entering"
    \/ held[ProcOf[l]].lock = l
    \/ \E u \in Tasks : at[u] = "releasing" /\ seen[u] = l

NoneLeft ==
    \A l \in Tasks :
        file = l /\ written /\ proc[ProcOf[l]] = "alive"
        => Accounted(l) \/ misfired \/ HasLapsed(ProcOf[l])

LEMMA NoneLeftStep ==
    ASSUME Typed, Flags, Order, Marks, Tidiness, NoneLeft, [Next]_vars
    PROVE  NoneLeft'
  <1> SUFFICES ASSUME NEW l \in Tasks, file' = l, written', proc'[ProcOf[l]] = "alive",
                      ~misfired', ~HasLapsed(ProcOf[l])'
               PROVE  Accounted(l)'
    BY DEF NoneLeft
  <1> USE DEF Typed, Places
  <1>a. lapsed \subseteq lapsed' /\ ~misfired
    BY HistoryGrows DEF Order
  <1>b. ~HasLapsed(ProcOf[l]) /\ \A k \in Tasks : ProcOf[k] = ProcOf[l] => Tidy(k)
    BY <1>a DEF HasLapsed, Tidiness, Doubtful
  <1>c. ProcOf[l] \in Procs /\ l # None
    BY LockFileAssumption
  <1>d. ASSUME file = l, written, proc[ProcOf[l]] = "alive"
        PROVE  Accounted(l)
    BY <1>a, <1>b, <1>d DEF NoneLeft
  <1>1. ASSUME NEW t \in Tasks, Acquire(t) PROVE Accounted(l)'
    <2>1. UNCHANGED <<file, written, proc>>
      BY <1>1, AcquireResult
    <2>2. held'[ProcOf[l]].lock = held[ProcOf[l]].lock
      <3>1. CASE Shares(t)
        BY <3>1, <1>c DEF Shares
      <3>2. CASE UNCHANGED held
        BY <3>2
      <3> QED
        BY <1>1, <3>1, <3>2, AcquireResult
    <2>3. \A u \in Tasks :
            at[u] \in {"entering", "releasing"} => at'[u] = at[u] /\ seen'[u] = seen[u]
      BY <1>1, AcquireResult DEF Shares
    <2> QED
      BY <1>d, <2>1, <2>2, <2>3 DEF Accounted
  <1>2. ASSUME NEW t \in Tasks, Open(t) PROVE Accounted(l)'
    <2>1. UNCHANGED <<file, written, held, proc, seen>> /\ at' = [at EXCEPT ![t] = "reading"]
      BY <1>2 DEF Open, Goes, disk
    <2> QED
      BY <1>2, <1>d, <2>1 DEF Accounted, Open, Goes
  <1>3. ASSUME NEW t \in Tasks, Write(t) PROVE Accounted(l)'
    <2>1. /\ UNCHANGED <<file, held, proc, seen>> /\ at[t] = "writing"
          /\ at' = [at EXCEPT ![t] = "entering"]
          /\ l = t \/ written
      BY <1>3 DEF Write, Goes
    <2> QED
      BY <1>d, <2>1 DEF Accounted
  <1>4. ASSUME NEW t \in Tasks,
               ReadPayload(t) \/ StatFile(t) \/ TryAgain(t) \/ GiveUp(t)
        PROVE  Accounted(l)'
    <2>1. /\ UNCHANGED <<file, written, held, proc>> /\ at[t] \notin {"entering", "releasing"}
          /\ \A u \in Tasks : u # t => at'[u] = at[u] /\ seen'[u] = seen[u]
      BY <1>4 DEF ReadPayload, StatFile, TryAgain, GiveUp, Goes, Sees, disk
    <2> QED
      BY <1>d, <2>1 DEF Accounted
  <1>5. ASSUME NEW t \in Tasks, WriteFails(t) PROVE Accounted(l)'
    <2>1. UNCHANGED <<file, written>>
      BY <1>5, <1>c, WriteFailsResult
    <2> QED
      BY <1>5, <1>d, <2>1 DEF Accounted, WriteFails, Goes
  <1>6. ASSUME NEW t \in Tasks, Release(t) PROVE Accounted(l)'
    <2>1. UNCHANGED <<file, written, proc>>
      BY <1>6, ReleaseResult DEF Order, Flags
    <2>2. Accounted(l)
      BY <1>d, <2>1
    <2>3. CASE Leaves(t)
      BY <2>2, <2>3 DEF Accounted, Leaves
    <2>4. CASE Unshares(t)
      BY <1>c, <2>2, <2>4 DEF Accounted, Unshares
    <2>5. CASE Frees(t)
      <3>1. held[ProcOf[l]].lock = l => ProcOf[t] # ProcOf[l] \/ seen'[t] = l
        BY <2>5 DEF Frees
      <3>2. at'[t] = "releasing" /\ at[t] # "releasing"
        BY <2>5 DEF Frees
      <3> QED
        BY <1>c, <2>2, <2>5, <3>1, <3>2 DEF Accounted, Frees
    <2> QED
      BY <1>6, <2>3, <2>4, <2>5, ReleaseResult DEF Order, Flags
  <1>7. ASSUME NEW p \in Procs, Watchdog(p) PROVE Accounted(l)'
    <2>1. p # ProcOf[l]
      BY <1>7, LockFileAssumption DEF Watchdog, HasLapsed, Order, TableIsOwn
    <2> QED
      BY <1>7, <1>c, <1>d, <2>1 DEF Watchdog, Accounted, disk
  <1>8. ASSUME NEW p \in Procs, Dies(p) PROVE Accounted(l)'
    <2>1. UNCHANGED <<file, written, seen>> /\ p # ProcOf[l]
      BY <1>8, <1>c DEF Dies, Ends, disk
    <2>2. /\ proc'[ProcOf[l]] = proc[ProcOf[l]] /\ held'[ProcOf[l]] = held[ProcOf[l]]
          /\ \A u \in Tasks : ProcOf[u] = ProcOf[l] => at'[u] = at[u]
      BY <1>8, <1>c, <2>1 DEF Dies, Ends
    <2>3. \A u \in Tasks : at[u] = "releasing" /\ seen[u] = l => ProcOf[u] = ProcOf[l]
      BY DEF Order, HoldersShare
    <2> QED
      BY <1>d, <2>1, <2>2, <2>3 DEF Accounted
  <1>9. ASSUME NEW p \in Procs, IsRecycled(p) PROVE Accounted(l)'
    BY <1>9, <1>c, <1>d DEF IsRecycled, Accounted, disk
  <1>10. CASE Ages \/ CleanupJudges
    BY <1>10, <1>d DEF Ages, CleanupJudges, Accounted, disk
  <1>11. \A t \in Tasks : ~RemoveStale(t) /\ ~RemoveReleased(t)
    BY <1>c, UnlinkResult DEF RemoveStale, RemoveReleased
  <1>12. ~CleanupRemoves /\ \A p \in Procs : ~RemoveForced(p) /\ ~Exits(p) /\ ~Signalled(p)
    BY <1>c, UnlinkResult DEF CleanupRemoves, RemoveForced, Exits, Signalled
  <1>13. CASE UNCHANGED vars
    BY <1>13, <1>d DEF vars, Accounted, disk
  <1>14. ASSUME NEW t \in Tasks, Enter(t) PROVE Accounted(l)'
    <2>1. /\ UNCHANGED <<file, written, proc, seen>> /\ at[t] = "entering"
          /\ at' = [at EXCEPT ![t] = "holding"]
          /\ held' = [held EXCEPT ![ProcOf[t]] = [lock |-> t, count |-> 1]]
      BY <1>14 DEF Enter, Goes, disk
    <2>2. CASE l = t
      BY <1>c, <2>1, <2>2 DEF Accounted
    <2>3. CASE l # t
      <3>1. ProcOf[t] # ProcOf[l]
        BY <1>b, <2>1, <2>3 DEF Tidy, OwnersHaveFile, Creating
      <3> QED
        BY <1>d, <2>1, <3>1 DEF Accounted
    <2> QED
      BY <2>2, <2>3
  <1> QED
    BY <1>1, <1>2, <1>3, <1>4, <1>5, <1>6, <1>7, <1>8, <1>9, <1>10, <1>11, <1>12, <1>13,
       <1>14
    DEF Next, Step

-----------------------------------------------------------------------------
(* The inductive invariant, and the theorems. *)

IInv == Typed /\ Flags /\ Order /\ Marks /\ Tidiness /\ CalmFirst /\ NoneLeft

LEMMA InitHolds == Init => IInv
  <1> SUFFICES ASSUME Init PROVE IInv
    OBVIOUS
  <1> USE LockFileAssumption
  <1>1. Typed
    BY DEF Init, Typed, Places, NotHeld
  <1>2. Flags
    BY Zenon DEF Init, Flags
  <1>3. Order
    BY DEF Init, Order, WritersOwn, Creating, TableIsOwn, HoldersShare, DeadAreDone,
           NotHeld
  <1>4. Marks
    BY DEF Init, Marks, OldHasLapsed, WrittenIsPast, ForcedHasLapsed
  <1>5. Tidiness
    <2> SUFFICES ASSUME NEW l \in Tasks PROVE Tidy(l)
      BY DEF Tidiness
    <2>1. Holders(l) = {} /\ l # None /\ held[ProcOf[l]].lock # l
      BY DEF Init, Holders, Holding, NotHeld
    <2> QED
      BY <2>1 DEF Init, Tidy, OwnersHaveFile, Creating, CountIsRight, ReleasedByAll,
                  RemovedForCause
  <1>6. CalmFirst
    BY DEF Init, CalmFirst, Calm
  <1>7. NoneLeft
    BY DEF Init, NoneLeft
  <1> QED
    BY <1>1, <1>2, <1>3, <1>4, <1>5, <1>6, <1>7 DEF IInv

LEMMA IInvStep == IInv /\ [Next]_vars => IInv'
  <1> SUFFICES ASSUME IInv, [Next]_vars PROVE IInv'
    OBVIOUS
  <1>1. Typed /\ Flags /\ Order /\ Marks /\ Tidiness /\ CalmFirst /\ NoneLeft /\ HoldersShare
    BY DEF IInv, Order
  <1>2. Typed' /\ Flags' /\ Order' /\ Marks'
    BY <1>1, TypedStep, FlagsStep, OrderStep, MarksStep
  <1>3. Tidiness'
    BY <1>1, TidyStep
  <1>4. CalmFirst'
    BY <1>1, CalmStep
  <1>5. NoneLeft'
    BY <1>1, NoneLeftStep
  <1> QED
    BY <1>2, <1>3, <1>4, <1>5 DEF IInv

LEMMA Invariance == Spec => []IInv
  BY InitHolds, IInvStep, PTL DEF Spec

\* The lock of a task that no longer counts has no count, and no other state of
\* taking, judging, sharing and releasing a lock leaves its type.
THEOREM LockTypeCorrect == Spec => []TypeOK
  <1>1. IInv => TypeOK
    <2> SUFFICES ASSUME IInv PROVE TypeOK
      OBVIOUS
    <2>1. Typed /\ Flags
      BY DEF IInv
    <2>2. written \in BOOLEAN /\ old \in BOOLEAN /\ misfired \in BOOLEAN
      BY <2>1, Zenon DEF Flags
    <2> QED
      BY <2>1, <2>2 DEF TypeOK, Typed, Places
  <1> QED
    BY <1>1, Invariance, PTL

\* Two tasks that hold the lock at once, neither of a doubtful lock, share it,
\* as long as nobody removed another file than the one meant: the file of such a
\* lock stays at the path while anybody holds it.  A lock is doubtful once it grew
\* too old, the watchdog or a signal released it under its holders, a cleanup met
\* it unwritten or its own process took it for an orphan.  And a session lock never
\* misfires before the first fault, where start times can be had.
THEOREM LockHasSoleHolder == Spec => []SoleHolder
  <1>1. IInv => SoleHolder
    <2> SUFFICES ASSUME IInv PROVE SoleHolder
      OBVIOUS
    <2>1. ASSUME NEW t \in Tasks, NEW u \in Tasks, Holding(t), Holding(u),
                 ~misfired, ~Doubtful(seen[t]), ~Doubtful(seen[u])
          PROVE  seen[t] = seen[u]
      <3>1. seen[t] \in Tasks /\ seen[u] \in Tasks
        BY <2>1 DEF IInv, Order, HoldersShare, Holding
      <3>2. Tidy(seen[t]) /\ Tidy(seen[u])
        BY <2>1, <3>1 DEF IInv, Tidiness
      <3>3. file = seen[t] /\ file = seen[u]
        BY <2>1, <3>1, <3>2 DEF Tidy, OwnersHaveFile, Holders
      <3> QED
        BY <3>3
    <2>2. kind = "session" /\ StartTimes /\ faults = 0 => ~misfired
      BY DEF IInv, CalmFirst, Calm, Unfaulted
    <2> QED
      BY <2>1, <2>2 DEF SoleHolder
  <1> QED
    BY <1>1, Invariance, PTL

\* A process that lives leaves no complete lock file behind without a task that
\* enters, holds or releases it, unless one of its locks lapsed or a wrong one was
\* removed: the lock is in its table, and the count there is that of the holders.
THEOREM LockIsNotLeaked == Spec => []NoLeakedLock
  <1>1. IInv => NoLeakedLock
    <2> SUFFICES ASSUME IInv, file # None, written, proc[ProcOf[file]] = "alive",
                        ~misfired, ~HasLapsed(ProcOf[file])
                 PROVE  \E t \in Tasks :
                          at[t] \in {"entering", "holding", "releasing"} /\ seen[t] = file
      BY DEF NoLeakedLock, HasLapsed
    <2>1. file \in Tasks /\ ProcOf[file] \in Procs
      BY LockFileAssumption DEF IInv, Typed
    <2>2. Accounted(file) /\ Tidy(file)
      BY <2>1 DEF IInv, NoneLeft, Tidiness, Doubtful, HasLapsed
    <2>3. CASE held[ProcOf[file]].lock = file
      <3>1. held[ProcOf[file]].count # 0
        BY <2>1, <2>3 DEF IInv, Typed
      <3>2. Holders(file) # {}
        BY <2>2, <2>3, <3>1, FS_EmptySet DEF Tidy, CountIsRight
      <3> QED
        BY <3>2 DEF Holders, Holding
    <2>4. CASE at[file] = "entering"
      BY <2>1, <2>4 DEF IInv, Order, WritersOwn, Creating
    <2> QED
      BY <2>2, <2>3, <2>4 DEF Accounted
  <1> QED
    BY <1>1, Invariance, PTL
=============================================================================
