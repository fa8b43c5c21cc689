-------------------------- MODULE CronServiceProofs --------------------------
(* That the cron service keeps the promises of CronServiceProperties, proved *)
(* for any jobs, schedules and bounds: first that it executes a job once at  *)
(* a time, then, from what every record of the store satisfies, the others.  *)
EXTENDS CronServiceProperties, FiniteSetTheorems, TLAPS

\* All that matters here of the type of a record and of an execution.
IsRecord(r) == DOMAIN r = {"enabled", "time", "next", "mark", "lastRun", "status", "errors"}

IsExec(e) == DOMAIN e = {"job", "via", "state", "start", "end", "outcome", "live"}

IsStore(s) == \A j \in DOMAIN s : IsRecord(s[j])

\* A job under the protection of its running mark.
IsHeld(r) == r.enabled /\ r.mark # None /\ ~Before(r.mark, now - StuckAfter)

-----------------------------------------------------------------------------
(* What the sections of the service do to the marks of the jobs in a store. *)

LEMMA NormalizeResult ==
    ASSUME NEW r, IsRecord(r)
    PROVE  /\ IsRecord(NormalizeJobTickState(r))
           /\ IsHeld(r) => NormalizeJobTickState(r).mark = r.mark
  BY DEF NormalizeJobTickState, IsRecord, IsHeld

LEMMA MaintainedResult ==
    ASSUME NEW s, IsStore(s), NEW expired
    PROVE  /\ DOMAIN Maintained(s, expired) = DOMAIN s
           /\ IsStore(Maintained(s, expired))
           /\ \A j \in DOMAIN s : IsHeld(s[j]) => Maintained(s, expired)[j].mark = s[j].mark
  <1>1. DOMAIN Maintained(s, expired) = DOMAIN s
    BY DEF Maintained
  <1>2. ASSUME NEW j \in DOMAIN s
        PROVE  /\ IsRecord(Maintained(s, expired)[j])
               /\ IsHeld(s[j]) => Maintained(s, expired)[j].mark = s[j].mark
    <2> DEFINE r == NormalizeJobTickState(s[j])
    <2>1. IsRecord(r) /\ (IsHeld(s[j]) => r.mark = s[j].mark)
      BY NormalizeResult DEF IsStore
    <2>2. Maintained(s, expired)[j] \in {r, [r EXCEPT !.next = ComputeJobNextRunAt(j, r, now)]}
      BY DEF Maintained
    <2> HIDE DEF r
    <2> QED
      BY <2>1, <2>2 DEF IsRecord
  <1> QED
    BY <1>1, <1>2 DEF IsStore

LEMMA RecomputedResult ==
    ASSUME NEW s, IsStore(s)
    PROVE  /\ DOMAIN RecomputeNextRuns(s) = DOMAIN s
           /\ IsStore(RecomputeNextRuns(s))
           /\ \A j \in DOMAIN s : IsHeld(s[j]) => RecomputeNextRuns(s)[j].mark = s[j].mark
  <1>1. DOMAIN RecomputeNextRuns(s) = DOMAIN s
    BY DEF RecomputeNextRuns
  <1>2. ASSUME NEW j \in DOMAIN s
        PROVE  /\ IsRecord(RecomputeNextRuns(s)[j])
               /\ IsHeld(s[j]) => RecomputeNextRuns(s)[j].mark = s[j].mark
    <2> DEFINE r == NormalizeJobTickState(s[j])
    <2>1. IsRecord(r) /\ (IsHeld(s[j]) => r.mark = s[j].mark)
      BY NormalizeResult DEF IsStore
    <2>2. RecomputeNextRuns(s)[j] \in {r, [r EXCEPT !.next = ComputeJobNextRunAt(j, r, now)]}
      BY DEF RecomputeNextRuns
    <2> HIDE DEF r
    <2> QED
      BY <2>1, <2>2 DEF IsRecord
  <1> QED
    BY <1>1, <1>2 DEF IsStore

LEMMA MarkedResult ==
    ASSUME NEW s, IsStore(s), NEW js
    PROVE  /\ DOMAIN Marked(s, js) = DOMAIN s
           /\ IsStore(Marked(s, js))
           /\ \A j \in DOMAIN s : Marked(s, js)[j].mark = IF j \in js THEN now ELSE s[j].mark
  BY DEF Marked, IsStore, IsRecord

LEMMA AppliedToJob ==
    ASSUME NEW j, NEW r, IsRecord(r), NEW e
    PROVE  IsRecord(ApplyJobResult(j, r, e))
  BY DEF ApplyJobResult, IsRecord

\* Outcomes touch their own jobs only.
LEMMA AppliedResult ==
    ASSUME NEW s, IsStore(s), NEW es
    PROVE  /\ DOMAIN Applied(s, es) \subseteq DOMAIN s
           /\ IsStore(Applied(s, es))
           /\ \A j \in DOMAIN Applied(s, es) :
                 j \notin {e.job : e \in es} => Applied(s, es)[j] = s[j]
  BY AppliedToJob DEF Applied, IsStore

LEMMA DeferredResult ==
    ASSUME NEW s, IsStore(s), NEW d \in Deferred(s)
    PROVE  /\ DOMAIN d = DOMAIN s /\ IsStore(d)
           /\ \A j \in DOMAIN s : d[j].mark = s[j].mark /\ d[j].enabled = s[j].enabled
  <1> DEFINE todo == {j \in plan.deferred \cap DOMAIN s : s[j].enabled}
  <1>1. PICK turn : d = [j \in DOMAIN s |-> IF j \in todo
                            THEN [s[j] EXCEPT !.next = now + Stagger * turn[j]] ELSE s[j]]
    BY DEF Deferred
  <1> QED
    BY <1>1 DEF IsStore, IsRecord

-----------------------------------------------------------------------------
(* The invariant. *)

Typed ==
    /\ now \in Nat
    /\ IsStore(disk) /\ IsStore(mem)
    /\ \A e \in execs : IsExec(e)

\* No id is given out twice.
NoReuse ==
    /\ \A j \in unused : j \notin DOMAIN disk /\ j \notin DOMAIN mem
    /\ \A e \in execs : e.job \notin unused

DownIsIdle == phase = "down" => execs = {} /\ ~timer /\ ~running

\* Jobs that are executed keep their mark, in the file and in memory, unless excused.
Protected ==
    \A e \in execs :
        e.job \notin excused
        => /\ e.job \in DOMAIN disk => IsHeld(disk[e.job])
           /\ e.job \in DOMAIN mem => IsHeld(mem[e.job])

Alone == \A e, f \in execs : e.job = f.job /\ e.job \notin excused => e = f

IInv == Typed /\ NoReuse /\ DownIsIdle /\ Protected /\ Alone

\* What is left of it to show for a step, as Excused takes care of the rest.
Marks ==
    \A e \in execs :
        e.job \notin excused
        => /\ e.job \in DOMAIN disk => disk[e.job].mark # None
           /\ e.job \in DOMAIN mem => mem[e.job].mark # None

LEMMA ExcusedResult ==
    ASSUME excused' = Excused
    PROVE  /\ \A e \in execs' : e.job \notin excused' => e.job \notin excused
           /\ \A e \in execs', s \in {disk', mem'} :
                 e.job \notin excused' /\ e.job \in DOMAIN s
                 => s[e.job].enabled /\ ~Before(s[e.job].mark, now' - StuckAfter)
           /\ Marks' => Protected'
  <1>1. \A e \in execs' : e.job \notin excused' => e.job \notin excused
    BY DEF Excused
  <1>2. ASSUME NEW e \in execs', NEW s \in {disk', mem'},
               e.job \notin excused', e.job \in DOMAIN s
        PROVE  s[e.job].enabled /\ ~Before(s[e.job].mark, now' - StuckAfter)
    BY <1>2 DEF Excused
  <1>3. Marks' => Protected'
    BY <1>2 DEF Marks, Protected, IsHeld, Before
  <1> QED
    BY <1>1, <1>2, <1>3

\* A store that comes of a section: it has no id that is still to be given out,
\* and the jobs that are executed keep their mark, other than those in lost.
Keeps(s, lost) ==
    /\ IsStore(s)
    /\ \A j \in unused' : j \notin DOMAIN s
    /\ \A e \in execs :
          e.job \notin excused \cup lost /\ e.job \in DOMAIN s => s[e.job].mark # None

\* The executions go on, or come to an end.
GoOn(es) ==
    /\ \A g \in es : IsExec(g) /\ \E e \in execs : e.job = g.job
    /\ \A f, g \in es : f.job = g.job /\ f.job \notin excused => f = g

LEMMA GoOnStep ==
    ASSUME IInv, excused' = Excused, GoOn(execs'), NEW lost,
           Keeps(disk', lost), Keeps(mem', lost),
           \A g \in execs' : g.job \in lost => g.job \in excused',
           now' \in Nat, unused' \subseteq unused, DownIsIdle'
    PROVE  IInv'
  <1>1. \A e \in execs' : e.job \notin excused' => e.job \notin excused
    BY ExcusedResult
  <1>2. Typed'
    BY DEF GoOn, Keeps, Typed
  <1>3. NoReuse'
    BY DEF IInv, NoReuse, GoOn, Keeps
  <1>4. Marks'
    <2> SUFFICES ASSUME NEW g \in execs', g.job \notin excused'
                 PROVE  /\ g.job \in DOMAIN disk' => disk'[g.job].mark # None
                        /\ g.job \in DOMAIN mem' => mem'[g.job].mark # None
      BY DEF Marks
    <2>1. PICK e \in execs : e.job = g.job
      BY DEF GoOn
    <2>2. e.job \notin excused \cup lost
      BY <1>1, <2>1
    <2> QED
      BY <2>1, <2>2 DEF Keeps
  <1>5. Alone'
    BY <1>1 DEF Alone, GoOn
  <1> QED
    BY <1>2, <1>3, <1>4, <1>5, ExcusedResult DEF IInv

\* Executions es of the jobs js are begun, marked in both stores.
LEMMA BeginStep ==
    ASSUME IInv, excused' = Excused, NEW old, GoOn(old), NEW es, execs' = old \cup es, NEW js,
           \A g \in es : IsExec(g) /\ g.job \in js,
           \A f, g \in es : f.job = g.job => f = g,
           \A g \in old : g.job \in js => g.job \in excused,
           Keeps(mem', js),
           disk' = mem', \A j \in js \cap DOMAIN mem' : mem'[j].mark # None,
           \A j \in js : j \notin unused,
           now' \in Nat, unused' \subseteq unused, DownIsIdle'
    PROVE  IInv'
  <1>1. \A e \in execs' : e.job \notin excused' => e.job \notin excused
    BY ExcusedResult
  <1>2. Typed'
    BY DEF GoOn, Keeps, Typed
  <1>3. NoReuse'
    BY DEF IInv, NoReuse, GoOn, Keeps
  <1>4. Marks'
    <2> SUFFICES ASSUME NEW g \in execs', g.job \notin excused', g.job \notin js
                 PROVE  /\ g.job \in DOMAIN disk' => disk'[g.job].mark # None
                        /\ g.job \in DOMAIN mem' => mem'[g.job].mark # None
      BY DEF Marks
    <2>1. g \in old
      OBVIOUS
    <2>2. PICK e \in execs : e.job = g.job
      BY <2>1 DEF GoOn
    <2>3. e.job \notin excused \cup js
      BY <1>1, <2>2
    <2> QED
      BY <2>2, <2>3 DEF Keeps
  <1>5. Alone'
    <2> SUFFICES ASSUME NEW e \in execs', NEW f \in execs', e.job = f.job, e.job \notin excused'
                 PROVE  e = f
      BY DEF Alone
    <2>1. e.job \notin excused
      BY <1>1
    <2>2. CASE e \in old /\ f \in old
      BY <2>1, <2>2 DEF GoOn
    <2>3. CASE e \in es /\ f \in es
      BY <2>3
    <2>4. CASE (e \in old /\ f \in es) \/ (e \in es /\ f \in old)
      BY <2>1, <2>4
    <2> QED
      BY <2>2, <2>3, <2>4
  <1> QED
    BY <1>2, <1>3, <1>4, <1>5, ExcusedResult DEF IInv

-----------------------------------------------------------------------------
(* What the actions have in common. *)

LEMMA KeptBy ==
    ASSUME IInv, unused' \subseteq unused, NEW s \in {disk, mem}, NEW s2, IsStore(s2),
           DOMAIN s2 \subseteq DOMAIN s, NEW lost,
           \A j \in DOMAIN s2 : j \notin lost /\ IsHeld(s[j]) => s2[j].mark # None
    PROVE  Keeps(s2, lost)
  BY DEF IInv, Typed, NoReuse, Protected, Keeps

LEMMA KeptAsIs ==
    ASSUME IInv, unused' \subseteq unused, NEW s \in {disk, mem}, NEW lost
    PROVE  Keeps(s, lost)
  BY KeptBy DEF IInv, Typed, IsHeld

LEMMA KeptByMaintenance ==
    ASSUME IInv, unused' \subseteq unused, NEW s \in {disk, mem}, NEW expired, NEW lost
    PROVE  Keeps(Maintained(s, expired), lost) /\ Keeps(RecomputeNextRuns(s), lost)
  <1>1. IsStore(s)
    BY DEF IInv, Typed
  <1>2. Keeps(Maintained(s, expired), lost)
    BY <1>1, MaintainedResult, KeptBy DEF IsHeld
  <1>3. Keeps(RecomputeNextRuns(s), lost)
    BY <1>1, RecomputedResult, KeptBy DEF IsHeld
  <1> QED
    BY <1>2, <1>3

LEMMA GoOnAll ==
    ASSUME IInv, NEW es \in SUBSET execs
    PROVE  GoOn(es) /\ GoOn(Reloaded(es))
  <1>1. GoOn(es)
    BY DEF IInv, Typed, Alone, GoOn
  <1>2. \A e \in es : IsExec(e)
    BY DEF IInv, Typed
  <1>3. \A g \in Reloaded(es) : \E e \in es : g = [e EXCEPT !.live = FALSE]
    BY DEF Reloaded
  <1>4. \A e \in es : IsExec([e EXCEPT !.live = FALSE]) /\ [e EXCEPT !.live = FALSE].job = e.job
    BY <1>2 DEF IsExec
  <1>5. ASSUME NEW f \in Reloaded(es), NEW g \in Reloaded(es), f.job = g.job, f.job \notin excused
        PROVE  f = g
    <2>1. PICK d \in es : f = [d EXCEPT !.live = FALSE]
      BY <1>3
    <2>2. PICK e \in es : g = [e EXCEPT !.live = FALSE]
      BY <1>3
    <2>3. d = e
      BY <1>1, <1>4, <1>5, <2>1, <2>2 DEF GoOn
    <2> QED
      BY <2>1, <2>2, <2>3
  <1>6. \A g \in Reloaded(es) : IsExec(g) /\ \E e \in execs : e.job = g.job
    <2> SUFFICES ASSUME NEW g \in Reloaded(es)
                 PROVE  IsExec(g) /\ \E e \in execs : e.job = g.job
      OBVIOUS
    <2>1. PICK e \in es : g = [e EXCEPT !.live = FALSE]
      BY <1>3
    <2> QED
      BY <1>4, <2>1
  <1> QED
    BY <1>1, <1>5, <1>6 DEF GoOn

LEMMA GoOnWith ==
    ASSUME IInv, NEW e \in execs, NEW f, IsExec(f), f.job = e.job
    PROVE  GoOn((execs \ {e}) \cup {f})
  BY DEF IInv, Typed, Alone, GoOn

\* Nothing happens to executions, nor to the marks of those under way.
LEMMA QuietStep ==
    ASSUME IInv, excused' = Excused, execs' \in {execs, Reloaded(execs)},
           Keeps(disk', {}), Keeps(mem', {}), now' \in Nat, unused' \subseteq unused, DownIsIdle'
    PROVE  IInv'
  BY GoOnAll, GoOnStep

\* The outcomes of the executions in ended are applied.
LEMMA EndStep ==
    ASSUME IInv, excused' = Excused, NEW ended \in SUBSET execs,
           execs' \in {execs \ ended, Reloaded(execs \ ended)},
           Keeps(disk', {e.job : e \in ended}), Keeps(mem', {e.job : e \in ended}),
           now' \in Nat, unused' \subseteq unused, DownIsIdle'
    PROVE  IInv'
  <1> DEFINE lost == {e.job : e \in ended}
  <1>1. GoOn(execs')
    BY GoOnAll
  <1>2. ASSUME NEW g \in execs', g.job \in lost PROVE g.job \in excused'
    <2>1. PICK e \in execs \ ended : e.job = g.job
      BY GoOnAll DEF Reloaded, IInv, Typed, IsExec
    <2>2. PICK f \in ended : f.job = g.job
      BY <1>2
    <2>3. e.job \in excused
      BY <2>1, <2>2 DEF IInv, Alone
    <2> QED
      BY <2>1, <2>3, ExcusedResult
  <1> QED
    BY <1>1, <1>2, GoOnStep

LEMMA BegunByJob ==
    ASSUME NEW js, NEW via, NEW state
    PROVE  LET es == {Exec(j, via, state, None) : j \in js}
           IN  /\ \A f \in es : IsExec(f) /\ f.job \in js
               /\ \A f, g \in es : f.job = g.job => f = g
  <1> DEFINE es == {Exec(j, via, state, None) : j \in js}
  <1>1. ASSUME NEW f \in es
        PROVE  IsExec(f) /\ f.job \in js /\ f = Exec(f.job, via, state, None)
    <2>1. PICK j \in js : f = Exec(j, via, state, None)
      OBVIOUS
    <2>2. IsExec(Exec(j, via, state, None)) /\ Exec(j, via, state, None).job = j
      BY DEF Exec, IsExec
    <2> QED
      BY <2>1, <2>2
  <1> QED
    BY <1>1

\* Jobs js, without a mark in s2, which comes of store s, get one and are executed
\* by es.
Begun(s, s2, old, js, es) ==
    /\ s \in {disk, mem} /\ IsStore(s2) /\ DOMAIN s2 = DOMAIN s
    /\ \A j \in DOMAIN s : IsHeld(s[j]) => s2[j].mark # None
    /\ \A j \in js : j \in DOMAIN s /\ s2[j].mark = None
    /\ mem' = Marked(s2, js) /\ disk' = mem'
    /\ old \in {execs, Reloaded(execs)} /\ execs' = old \cup es
    /\ \A f \in es : IsExec(f) /\ f.job \in js
    /\ \A f, g \in es : f.job = g.job => f = g

LEMMA BegunAreAlone ==
    ASSUME IInv, excused' = Excused, UNCHANGED <<now, unused>>, DownIsIdle',
           NEW s, NEW s2, NEW old, NEW js, NEW es, Begun(s, s2, old, js, es)
    PROVE  IInv'
  <1>0. /\ s \in {disk, mem} /\ IsStore(s2) /\ DOMAIN s2 = DOMAIN s
        /\ \A j \in DOMAIN s : IsHeld(s[j]) => s2[j].mark # None
        /\ \A j \in js : j \in DOMAIN s /\ s2[j].mark = None
        /\ mem' = Marked(s2, js) /\ disk' = mem'
        /\ old \in {execs, Reloaded(execs)} /\ execs' = old \cup es
        /\ \A f \in es : IsExec(f) /\ f.job \in js
        /\ \A f, g \in es : f.job = g.job => f = g
    BY DEF Begun
  <1>1. now # None /\ now' \in Nat
    BY CronAssumption DEF IInv, Typed
  <1>2. /\ IsStore(mem') /\ DOMAIN mem' = DOMAIN s
        /\ \A j \in DOMAIN s : mem'[j].mark = IF j \in js THEN now ELSE s2[j].mark
    BY <1>0, MarkedResult
  <1>3. Keeps(mem', js)
    BY <1>0, <1>2, KeptBy
  <1>4. \A j \in js : j \notin unused /\ ~IsHeld(s[j])
    BY <1>0 DEF IInv, NoReuse
  <1>5. GoOn(old)
    BY <1>0, GoOnAll
  <1>6. ASSUME NEW g \in old, g.job \in js PROVE g.job \in excused
    <2>1. PICK e \in execs : e.job = g.job
      BY <1>5 DEF GoOn
    <2>2. e.job \in DOMAIN s /\ ~IsHeld(s[e.job])
      BY <1>0, <1>4, <1>6, <2>1
    <2> QED
      BY <1>0, <2>1, <2>2 DEF IInv, Protected
  <1>7. \A j \in js \cap DOMAIN mem' : mem'[j].mark # None
    BY <1>0, <1>1, <1>2
  <1> QED
    BY <1>0, <1>1, <1>3, <1>4, <1>5, <1>6, <1>7, BeginStep

LEMMA KeptByOutcomes ==
    ASSUME IInv, unused' \subseteq unused, NEW es, NEW expired
    PROVE  Keeps(Maintained(Applied(disk, es), expired), {e.job : e \in es})
  <1> DEFINE s == Applied(disk, es)
             m == Maintained(s, expired)
  <1>1. /\ IsStore(s) /\ DOMAIN s \subseteq DOMAIN disk
        /\ \A j \in DOMAIN s : j \notin {e.job : e \in es} => s[j] = disk[j]
    BY AppliedResult DEF IInv, Typed
  <1> HIDE DEF s
  <1>2. /\ IsStore(m) /\ DOMAIN m = DOMAIN s
        /\ \A j \in DOMAIN s : IsHeld(s[j]) => m[j].mark = s[j].mark
    BY <1>1, MaintainedResult
  <1>3. \A j \in DOMAIN m : j \notin {e.job : e \in es} /\ IsHeld(disk[j]) => m[j].mark # None
    BY <1>1, <1>2 DEF IsHeld
  <1> HIDE DEF m
  <1>4. Keeps(m, {e.job : e \in es})
    BY <1>1, <1>2, <1>3, KeptBy
  <1> QED
    BY <1>4 DEF m, s

-----------------------------------------------------------------------------
(* The actions, each of which leaves the jobs that are executed to themselves. *)

LEMMA StartKeeps ==
    ASSUME IInv, excused' = Excused,
           StartLoads \/ PlanStartupCatchup \/ ApplyStartupCatchup \/ StartArms \/ Crash
    PROVE  IInv'
  <1>1. CASE StartLoads
    <2>1. execs = {} /\ execs' = {} /\ UNCHANGED <<now, unused>> /\ phase' = "planning"
      BY <1>1 DEF StartLoads, IInv, DownIsIdle
    <2>2. mem' = disk' /\ disk' = [j \in DOMAIN disk |-> [disk[j] EXCEPT !.mark = None]]
      BY <1>1 DEF StartLoads
    <2>3. IsStore(disk') /\ DOMAIN disk' = DOMAIN disk
      BY <2>2 DEF IInv, Typed, IsStore, IsRecord
    <2> QED
      BY <2>1, <2>2, <2>3 DEF IInv, Typed, NoReuse, DownIsIdle, Protected, Alone
  <1>2. CASE PlanStartupCatchup
    <2> DEFINE missed == {j \in DOMAIN mem : IsMissed(j, mem[j])}
    <2>1. UNCHANGED <<now, unused>> /\ phase' \in {"arming", "catchup"}
      BY <1>2 DEF PlanStartupCatchup
    <2>2. CASE missed = {}
      BY <1>2, <2>1, <2>2, QuietStep, KeptAsIs
         DEF PlanStartupCatchup, store, DownIsIdle, IInv, Typed
    <2>3. CASE missed # {}
      <3>1. PICK first \in SUBSET missed :
                /\ mem' = Marked(mem, first) /\ disk' = mem'
                /\ execs' = execs \cup {Exec(j, "catchup", "queued", None) : j \in first}
        BY <1>2, <2>3 DEF PlanStartupCatchup
      <3>2. \A j \in first : j \in DOMAIN mem /\ mem[j].mark = None
        BY DEF IsMissed
      <3> QED
        <4> HIDE DEF missed
        <4>1. Begun(mem, mem, execs, first, {Exec(j, "catchup", "queued", None) : j \in first})
          <5>1. /\ \A f \in {Exec(j, "catchup", "queued", None) : j \in first} :
                       IsExec(f) /\ f.job \in first
                /\ \A f, g \in {Exec(j, "catchup", "queued", None) : j \in first} :
                       f.job = g.job => f = g
            BY BegunByJob
          <5>2. IsStore(mem) /\ \A j \in DOMAIN mem : IsHeld(mem[j]) => mem[j].mark # None
            BY DEF IInv, Typed, IsHeld
          <5> QED
            BY <3>1, <3>2, <5>1, <5>2 DEF Begun
        <4>2. DownIsIdle'
          BY <2>1 DEF DownIsIdle
        <4> QED
          BY <2>1, <4>1, <4>2, BegunAreAlone
    <2> QED
      BY <2>2, <2>3
  <1>3. CASE ApplyStartupCatchup
    <2>1. PICK s \in Deferred(Applied(disk, Of("catchup"))) : mem' = Maintained(s, FALSE)
      BY <1>3 DEF ApplyStartupCatchup
    <2>2. /\ disk' = mem' /\ execs' = Reloaded(execs \ Of("catchup"))
          /\ UNCHANGED <<now, unused>> /\ phase' = "arming"
      BY <1>3 DEF ApplyStartupCatchup
    <2>3. IsStore(Applied(disk, Of("catchup")))
      BY AppliedResult DEF IInv, Typed
    <2>4. /\ IsStore(s) /\ DOMAIN s = DOMAIN Applied(disk, Of("catchup"))
          /\ \A j \in DOMAIN s : /\ s[j].mark = Applied(disk, Of("catchup"))[j].mark
                                 /\ s[j].enabled = Applied(disk, Of("catchup"))[j].enabled
      BY <2>3, DeferredResult
    <2>5. /\ DOMAIN s \subseteq DOMAIN disk
          /\ \A j \in DOMAIN s : j \notin {e.job : e \in Of("catchup")} /\ IsHeld(disk[j])
                                 => IsHeld(s[j])
      BY <2>4, AppliedResult DEF IInv, Typed, IsHeld
    <2>6. Keeps(mem', {e.job : e \in Of("catchup")})
      <3>1. /\ IsStore(mem') /\ DOMAIN mem' = DOMAIN s
            /\ \A j \in DOMAIN s : IsHeld(s[j]) => mem'[j].mark = s[j].mark
        BY <2>1, <2>4, MaintainedResult
      <3>2. \A j \in DOMAIN mem' : j \notin {e.job : e \in Of("catchup")} /\ IsHeld(disk[j])
                                   => mem'[j].mark # None
        BY <2>5, <3>1 DEF IsHeld
      <3> QED
        BY <2>2, <2>5, <3>1, <3>2, KeptBy
    <2>7. Of("catchup") \in SUBSET execs
      BY DEF Of
    <2> QED
      BY <2>2, <2>6, <2>7, EndStep DEF IInv, Typed, DownIsIdle
  <1>4. CASE StartArms
    <2>1. /\ mem' = RecomputeNextRuns(disk) /\ disk' = mem' /\ execs' = Reloaded(execs)
          /\ UNCHANGED <<now, unused>> /\ phase' = "started"
      BY <1>4 DEF StartArms
    <2> QED
      BY <2>1, KeptByMaintenance, QuietStep DEF IInv, Typed, DownIsIdle
  <1>5. CASE Crash
    <2>1. execs' = {} /\ mem' = <<>> /\ ~timer' /\ ~running' /\ UNCHANGED <<now, disk, unused>>
      BY <1>5 DEF Crash
    <2>2. DOMAIN mem' = {}
      BY <2>1
    <2> QED
      BY <2>1, <2>2 DEF IInv, Typed, IsStore, NoReuse, DownIsIdle, Protected, Alone
  <1> QED
    BY <1>1, <1>2, <1>3, <1>4, <1>5

LEMMA TicksKeep ==
    ASSUME IInv, excused' = Excused,
           \/ TimerFires \/ TickEnds
           \/ \E e \in execs : ExecBegins(e) \/ \E outcome \in Outcomes : ExecEnds(e, outcome)
    PROVE  IInv'
  <1>1. CASE TimerFires
    <2> DEFINE due == {j \in DOMAIN disk : IsRunnable(j, disk[j])}
    <2>1. UNCHANGED <<now, unused, phase>> /\ disk' = mem' /\ phase # "down"
      BY <1>1 DEF TimerFires, IInv, DownIsIdle
    <2>2. CASE due = {}
      <3>1. mem' = Maintained(disk, TRUE) /\ execs' = Reloaded(execs)
        BY <1>1, <2>2 DEF TimerFires
      <3> QED
        BY <2>1, <3>1, KeptByMaintenance, QuietStep DEF DownIsIdle, IInv, Typed
    <2>3. CASE due # {}
      <3>1. /\ mem' = Marked(disk, due)
            /\ execs' = Reloaded(execs) \cup {Exec(j, "tick", "queued", None) : j \in due}
        BY <1>1, <2>3 DEF TimerFires
      <3>2. \A j \in due : j \in DOMAIN disk /\ disk[j].mark = None
        BY DEF IsRunnable
      <3> HIDE DEF due
      <3>3. Begun(disk, disk, Reloaded(execs), due, {Exec(j, "tick", "queued", None) : j \in due})
        BY <2>1, <3>1, <3>2, BegunByJob DEF Begun, IInv, Typed, IsHeld
      <3>4. DownIsIdle'
        BY <2>1 DEF DownIsIdle
      <3> QED
        BY <2>1, <3>3, <3>4, BegunAreAlone
    <2> QED
      BY <2>2, <2>3
  <1>2. CASE TickEnds
    <2>1. /\ mem' = Maintained(Applied(disk, Of("tick")), FALSE) /\ disk' = mem'
          /\ execs' = Reloaded(execs \ Of("tick"))
          /\ UNCHANGED <<now, unused, phase>> /\ phase # "down"
      BY <1>2 DEF TickEnds, IInv, DownIsIdle
    <2>2. Keeps(mem', {e.job : e \in Of("tick")})
      BY <2>1, KeptByOutcomes
    <2>3. Of("tick") \in SUBSET execs /\ DownIsIdle'
      BY <2>1 DEF Of, DownIsIdle
    <2> QED
      BY <2>1, <2>2, <2>3, EndStep DEF IInv, Typed
  <1>3. ASSUME NEW e \in execs, ExecBegins(e) PROVE IInv'
    <2> DEFINE f == [e EXCEPT !.state = "running", !.start = now]
    <2>1. /\ execs' = (execs \ {e}) \cup {f}
          /\ mem' \in {mem, Marked(mem, {e.job})}
          /\ UNCHANGED <<now, disk, unused, phase, timer, running>>
      BY <1>3 DEF ExecBegins, control
    <2>2. IsExec(f) /\ f.job = e.job
      BY DEF IInv, Typed, IsExec
    <2> HIDE DEF f
    <2>3. GoOn(execs')
      BY <2>1, <2>2, GoOnWith
    <2>4. Keeps(Marked(mem, {e.job}), {})
      <3>1. now # None /\ IsStore(mem)
        BY CronAssumption DEF IInv, Typed
      <3> QED
        BY <2>1, <3>1, MarkedResult, KeptBy DEF IsHeld
    <2>5. Keeps(disk', {}) /\ Keeps(mem', {})
      BY <2>1, <2>4, KeptAsIs
    <2>6. DownIsIdle'
      BY <2>1 DEF IInv, DownIsIdle
    <2> QED
      BY <2>1, <2>3, <2>5, <2>6, GoOnStep DEF IInv, Typed
  <1>4. ASSUME NEW e \in execs, NEW outcome, ExecEnds(e, outcome) PROVE IInv'
    <2> DEFINE f == [e EXCEPT !.state = "ended", !.end = now, !.outcome = outcome]
    <2>1. /\ execs' = (execs \ {e}) \cup {f}
          /\ UNCHANGED <<now, mem, disk, unused, phase, timer, running>>
      BY <1>4 DEF ExecEnds, control, store
    <2>2. IsExec(f) /\ f.job = e.job
      BY DEF IInv, Typed, IsExec
    <2> HIDE DEF f
    <2>3. GoOn(execs')
      BY <2>1, <2>2, GoOnWith
    <2>4. Keeps(disk', {}) /\ Keeps(mem', {})
      BY <2>1, KeptAsIs
    <2>5. DownIsIdle'
      BY <2>1 DEF IInv, DownIsIdle
    <2> QED
      BY <2>1, <2>3, <2>4, <2>5, GoOnStep DEF IInv, Typed
  <1> QED
    BY <1>1, <1>2, <1>3, <1>4

LEMMA RequestsKeep ==
    ASSUME IInv, excused' = Excused,
           \/ ListJobs \/ RefuseManualRun \/ TimePasses
           \/ \E j \in Jobs : Remove(j) \/ \E time \in Times : Add(j, time)
           \/ \E j \in DOMAIN mem : \E time, enabled : Update(j, enabled, time)
    PROVE  IInv'
  <1>1. CASE ListJobs \/ RefuseManualRun
    <2>1. /\ mem' = Maintained(mem, FALSE) /\ disk' \in {disk, mem'}
          /\ UNCHANGED <<now, unused, execs>> /\ phase # "down" /\ UNCHANGED phase
      BY <1>1 DEF ListJobs, RefuseManualRun, control
    <2>2. Keeps(disk', {}) /\ Keeps(mem', {})
      BY <2>1, KeptByMaintenance, KeptAsIs
    <2> QED
      BY <2>1, <2>2, QuietStep DEF DownIsIdle, IInv, Typed
  <1>2. CASE TimePasses
    <2>1. /\ now' = now + 1 /\ UNCHANGED <<disk, mem, unused, execs, phase, timer, running>>
      BY <1>2 DEF TimePasses, store, control
    <2>2. Keeps(disk', {}) /\ Keeps(mem', {})
      BY <2>1, KeptAsIs
    <2>3. now' \in Nat /\ DownIsIdle'
      BY <2>1 DEF DownIsIdle, IInv, Typed
    <2> QED
      BY <2>1, <2>2, <2>3, QuietStep
  <1>3. ASSUME NEW j \in Jobs, Remove(j) PROVE IInv'
    <2>1. /\ mem' = [k \in DOMAIN mem \ {j} |-> mem[k]] /\ disk' = mem'
          /\ UNCHANGED <<now, unused, execs, phase>> /\ phase # "down"
      BY <1>3 DEF Remove, Persisted
    <2>2. Keeps(mem', {})
      BY <2>1, KeptBy DEF IsHeld, IInv, Typed, IsStore
    <2> QED
      BY <2>1, <2>2, QuietStep DEF DownIsIdle, IInv, Typed
  <1>4. ASSUME NEW j \in Jobs, NEW time, Add(j, time) PROVE IInv'
    <2> DEFINE new == NewJob(IF kind[j] = "at" THEN time ELSE now)
               added == [new EXCEPT !.next = ComputeJobNextRunAt(j, new, now)]
               s == [k \in DOMAIN mem \cup {j} |-> IF k = j THEN added ELSE mem[k]]
    <2>1. /\ mem' = RecomputeNextRuns(s) /\ disk' = mem' /\ j \in unused
          /\ unused' = unused \ {j} /\ UNCHANGED <<now, execs, phase>> /\ phase # "down"
      BY <1>4 DEF Add, Persisted
    <2>2. IsRecord(added)
      BY DEF NewJob, IsRecord
    <2> HIDE DEF added
    <2>3. IsStore(s)
      BY <2>2 DEF IInv, Typed, IsStore
    <2>4. /\ DOMAIN s = DOMAIN mem \cup {j}
          /\ \A k \in DOMAIN mem : k # j => s[k] = mem[k]
      OBVIOUS
    <2> HIDE DEF s
    <2>5. /\ IsStore(mem') /\ DOMAIN mem' = DOMAIN s
          /\ \A k \in DOMAIN s : IsHeld(s[k]) => mem'[k].mark = s[k].mark
      BY <2>1, <2>3, RecomputedResult
    <2>6. ASSUME NEW e \in execs, e.job \notin excused, e.job \in DOMAIN mem'
          PROVE  mem'[e.job].mark # None
      <3>1. e.job # j
        BY <2>1 DEF IInv, NoReuse
      <3>2. e.job \in DOMAIN mem /\ IsHeld(mem[e.job])
        BY <2>4, <2>5, <2>6, <3>1 DEF IInv, Protected
      <3> QED
        BY <2>4, <2>5, <3>1, <3>2 DEF IsHeld
    <2>7. \A k \in unused' : k \notin DOMAIN mem'
      BY <2>1, <2>4, <2>5 DEF IInv, NoReuse
    <2>8. Keeps(mem', {})
      BY <2>5, <2>6, <2>7 DEF Keeps
    <2> QED
      BY <2>1, <2>8, QuietStep DEF DownIsIdle, IInv, Typed
  <1>5. ASSUME NEW j \in DOMAIN mem, NEW time, NEW enabled, Update(j, enabled, time) PROVE IInv'
    <2> DEFINE r == [mem[j] EXCEPT !.enabled = enabled, !.time = time]
               on == [r EXCEPT !.next = ComputeJobNextRunAt(j, r, now)]
               off == [r EXCEPT !.next = None, !.mark = None]
               lost == IF enabled THEN {} ELSE {j}
    <2>1. /\ mem' = [mem EXCEPT ![j] = IF enabled THEN on ELSE off] /\ disk' = mem'
          /\ UNCHANGED <<now, unused, execs, phase>> /\ phase # "down"
      BY <1>5 DEF Update, Persisted
    <2>2. IsRecord(r) /\ r.mark = mem[j].mark /\ r.enabled = enabled
      BY DEF IInv, Typed, IsStore, IsRecord
    <2> HIDE DEF r
    <2>3. /\ IsRecord(on) /\ IsRecord(off)
          /\ on.mark = mem[j].mark /\ off.enabled = enabled
      BY <2>2 DEF IsRecord
    <2> HIDE DEF on, off
    <2>4. IsStore(mem') /\ DOMAIN mem' = DOMAIN mem
      BY <2>1, <2>3 DEF IInv, Typed, IsStore
    <2>5. \A k \in DOMAIN mem : k \notin lost /\ IsHeld(mem[k]) => mem'[k].mark # None
      BY <2>1, <2>3 DEF IsHeld
    <2>6. Keeps(mem', lost)
      BY <2>1, <2>4, <2>5, KeptBy
    <2>7. ASSUME NEW g \in execs', g.job \in lost PROVE g.job \in excused'
      <3>1. ~enabled /\ g.job = j
        BY <2>7
      <3>2. ~mem'[j].enabled
        BY <2>1, <2>3, <3>1
      <3> QED
        BY <2>4, <3>1, <3>2, ExcusedResult
    <2>8. GoOn(execs')
      BY <2>1, GoOnAll
    <2>9. now' \in Nat /\ DownIsIdle'
      BY <2>1 DEF DownIsIdle, IInv, Typed
    <2> HIDE DEF lost
    <2> QED
      BY <2>1, <2>6, <2>7, <2>8, <2>9, GoOnStep
  <1> QED
    BY <1>1, <1>2, <1>3, <1>4, <1>5

LEMMA ManualRunsKeep ==
    ASSUME IInv, excused' = Excused,
           \/ \E j \in Jobs, mode \in {"due", "force"} : PrepareManualRun(j, mode)
           \/ \E e \in execs : FinishManualRun(e)
    PROVE  IInv'
  <1>1. ASSUME NEW j, NEW mode, PrepareManualRun(j, mode) PROVE IInv'
    <2> DEFINE s == Maintained(mem, FALSE)
               f == Exec(j, mode, "running", now)
    <2>1. /\ mem' = Marked(s, {j}) /\ disk' = mem' /\ execs' = execs \cup {f}
          /\ j \in DOMAIN mem /\ s[j].mark = None
          /\ UNCHANGED <<now, unused, phase>> /\ phase # "down"
      BY <1>1 DEF PrepareManualRun, control
    <2>2. IsExec(f) /\ f.job = j
      BY DEF Exec, IsExec
    <2>3. /\ IsStore(s) /\ DOMAIN s = DOMAIN mem
          /\ \A k \in DOMAIN mem : IsHeld(mem[k]) => s[k].mark # None
      BY MaintainedResult DEF IInv, Typed, IsHeld
    <2> HIDE DEF s, f
    <2>4. Begun(mem, s, execs, {j}, {f})
      BY <2>1, <2>2, <2>3 DEF Begun
    <2>5. DownIsIdle'
      BY <2>1 DEF DownIsIdle
    <2> QED
      BY <2>1, <2>4, <2>5, BegunAreAlone
  <1>2. ASSUME NEW e \in execs, FinishManualRun(e) PROVE IInv'
    <2>1. UNCHANGED <<now, unused, phase>> /\ phase # "down"
      BY <1>2 DEF FinishManualRun, IInv, DownIsIdle
    <2>2. CASE e.job \notin DOMAIN mem
      <3>1. execs' = execs \ {e} /\ UNCHANGED store
        BY <1>2, <2>2 DEF FinishManualRun
      <3>2. Keeps(disk', {d.job : d \in {e}}) /\ Keeps(mem', {d.job : d \in {e}})
        BY <2>1, <3>1, KeptAsIs DEF store
      <3> QED
        BY <2>1, <3>1, <3>2, EndStep DEF DownIsIdle, IInv, Typed
    <2>3. CASE e.job \in DOMAIN mem
      <3> DEFINE r(j) == [ApplyJobResult(e.job, mem[e.job], e) EXCEPT !.time = disk[j].time]
                 s == IF Deletes(e.job, e) THEN [j \in DOMAIN disk \ {e.job} |-> disk[j]]
                      ELSE [j \in DOMAIN disk |-> IF j = e.job THEN r(j) ELSE disk[j]]
      <3>1. /\ execs' = Reloaded(execs \ {e}) /\ disk' = mem'
            /\ mem' = Maintained(s, TRUE)
        BY <1>2, <2>3 DEF FinishManualRun, Persisted
      <3>2. \A j : IsRecord(r(j))
        BY <2>3, AppliedToJob DEF IInv, Typed, IsStore, IsRecord
      <3> HIDE DEF r
      <3>3. /\ IsStore(s) /\ DOMAIN s \subseteq DOMAIN disk
            /\ \A j \in DOMAIN s : j # e.job => s[j] = disk[j]
        BY <3>2 DEF IInv, Typed, IsStore
      <3> HIDE DEF s
      <3>4. /\ IsStore(mem') /\ DOMAIN mem' = DOMAIN s
            /\ \A j \in DOMAIN s : IsHeld(s[j]) => mem'[j].mark = s[j].mark
        BY <3>1, <3>3, MaintainedResult
      <3>5. \A j \in DOMAIN mem' : j \notin {d.job : d \in {e}} /\ IsHeld(disk[j])
                                   => mem'[j].mark # None
        BY <3>3, <3>4 DEF IsHeld
      <3>6. Keeps(mem', {d.job : d \in {e}})
        BY <2>1, <3>3, <3>4, <3>5, KeptBy
      <3> QED
        BY <2>1, <3>1, <3>6, EndStep DEF DownIsIdle, IInv, Typed
    <2> QED
      BY <2>2, <2>3
  <1> QED
    BY <1>1, <1>2

-----------------------------------------------------------------------------
(* The theorem. *)

LEMMA InitHolds == Init => IInv
  <1> SUFFICES ASSUME Init PROVE IInv
    OBVIOUS
  <1>1. PICK times : disk = [j \in Jobs \ Fresh |->
                    LET r == NewJob(IF kind[j] = "at" THEN times[j] ELSE 0)
                    IN [r EXCEPT !.next = ComputeJobNextRunAt(j, r, 0)]]
    BY DEF Init
  <1>2. IsStore(disk) /\ DOMAIN disk = Jobs \ Fresh
    BY <1>1 DEF IsStore, IsRecord, NewJob
  <1>3. DOMAIN mem = {}
    BY DEF Init
  <1> QED
    BY <1>2, <1>3 DEF Init, IInv, Typed, IsStore, NoReuse, DownIsIdle, Protected, Alone

LEMMA Invariance == Spec => []IInv
  <1>1. IInv /\ Next => IInv'
    BY StartKeeps, TicksKeep, RequestsKeep, ManualRunsKeep DEF Next
  <1>2. IInv /\ UNCHANGED vars => IInv'
    BY DEF vars, store, control, history, IInv, Typed, IsStore, NoReuse, DownIsIdle, Protected,
       IsHeld, Alone
  <1> QED
    BY <1>1, <1>2, InitHolds, PTL DEF Spec

\* A job is executed once at a time, whoever begins it: whoever does finds no
\* running mark, and the mark of a job that is executed is in the file and in
\* memory until its outcome is applied, unless the job is excused.
THEOREM JobsRunOneByOne == Spec => []OneRunAtATime
  <1>1. IInv => OneRunAtATime
    <2> SUFFICES ASSUME IInv, NEW j \in Jobs, j \notin excused
                 PROVE  Cardinality({e \in execs : e.job = j}) <= 1
      BY DEF OneRunAtATime
    <2> DEFINE runs == {e \in execs : e.job = j}
    <2>1. \A e, f \in runs : e = f
      BY DEF IInv, Alone
    <2>2. CASE runs = {}
      BY <2>2, FS_EmptySet
    <2>3. CASE runs # {}
      <3>1. PICK e : runs = {e}
        BY <2>1, <2>3
      <3> QED
        <4>1. Cardinality(runs) = 1
          BY <3>1, FS_Singleton
        <4> QED
          BY <4>1
    <2> QED
      BY <2>2, <2>3
  <1> QED
    BY <1>1, Invariance, PTL

-----------------------------------------------------------------------------
(* What every record satisfies, at time t, if a user edited the jobs in edited *)
(* and a start put off those in off since their last result.                   *)

\* As they are by default: the retries of one-shots and the turns of jobs that a start
\* puts off can also be configured without any delay.
WaitsPositive == Stagger > 0 /\ \A n \in DOMAIN Backoff : Backoff[n] > 0

Due(r) == r.lastRun + ErrorBackoff(r.errors)

Timed(r, t) ==
    /\ r.lastRun # None => r.lastRun <= t
    /\ r.status # "none" => r.lastRun # None

\* An enabled job without a next run is one that has none.
Planned(j, r) ==
    r.enabled /\ r.next = None
    => kind[j] = "at" /\ r.status = "ok" /\ ~Before(r.lastRun, r.time)

\* A one-shot that completed is disabled.
Over(j, r, edited) ==
    kind[j] = "at" /\ r.status \in {"ok", "skipped"} /\ r.enabled => j \in edited

\* The next run of a job that failed is after its backoff, or the backoff has passed.
Backed(j, r, t, free) ==
    r.enabled /\ r.next # None /\ r.status = "error" /\ j \notin free
    => r.next >= Due(r) \/ t >= Due(r)

\* The next run is after the last one, or to compute it once more changes nothing.
Ahead(j, r) ==
    WaitsPositive /\ r.enabled /\ r.next # None /\ r.lastRun # None /\ r.lastRun >= r.next
    => kind[j] = "at" /\ r.next = r.time

Almost(j, r, t, edited, off) ==
    /\ r \in JobRecord /\ Timed(r, t) /\ Planned(j, r) /\ Over(j, r, edited)
    /\ Backed(j, r, t, edited \cup off)

RecordOK(j, r, t, edited, off) == Almost(j, r, t, edited, off) /\ Ahead(j, r)

\* Two records that differ in their marks at most.
Alike(r, q) ==
    /\ r.enabled = q.enabled /\ r.time = q.time /\ r.lastRun = q.lastRun
    /\ r.status = q.status /\ r.errors = q.errors

Same(r, q) == Alike(r, q) /\ (r.enabled => r.next = q.next)

-----------------------------------------------------------------------------
(* When a job runs next. *)

LEMMA SlotAfterResult ==
    ASSUME NEW t \in Nat
    PROVE  SlotAfter(t) \in Nat /\ SlotAfter(t) > t
  <1> DEFINE q == t \div Period
  <1>1. Period \in Nat \ {0}
    BY CronAssumption
  <1>2. q \in Int /\ t % Period \in 0..(Period - 1) /\ t = Period * q + (t % Period)
    BY <1>1
  <1>3. SlotAfter(t) = (q + 1) * Period
    BY DEF SlotAfter
  <1> HIDE DEF q
  <1>4. (q + 1) * Period = Period * q + Period
    BY <1>1, <1>2
  <1>5. Period * q \in Int
    BY <1>1, <1>2
  <1> QED
    BY <1>1, <1>2, <1>3, <1>4, <1>5

LEMMA GridPointResult ==
    ASSUME NEW a \in Nat, NEW t \in Nat
    PROVE  GridPoint(a, t) \in Nat /\ GridPoint(a, t) >= t
  <1> DEFINE q == (t - a + Period - 1) \div Period
             n == Later(1, q)
  <1>1. Period \in Nat \ {0}
    BY CronAssumption
  <1>2. CASE t < a
    BY <1>2 DEF GridPoint
  <1>3. CASE t >= a
    <2> DEFINE x == t - a + Period - 1
    <2>1. x \in Nat
      BY <1>1, <1>3
    <2>2. q \in Int /\ x % Period \in 0..(Period - 1) /\ x = Period * q + (x % Period)
      BY <1>1, <2>1
    <2>3. n \in Nat /\ n >= q
      BY <2>2 DEF Later
    <2>4. GridPoint(a, t) = a + Period * n
      BY <1>3 DEF GridPoint
    <2> HIDE DEF n, q
    <2>5. Period * q \in Int /\ Period * n \in Nat /\ Period * n >= Period * q
      BY <1>1, <2>2, <2>3
    <2>6. Period * q >= t - a
      BY <1>1, <2>1, <2>2, <2>5
    <2> QED
      BY <2>4, <2>5, <2>6
  <1> QED
    BY <1>2, <1>3

LEMMA KindsResult ==
    ASSUME kind \in Kinds, NEW j \in Jobs
    PROVE  kind[j] \in {"at", "every", "cron"}
  BY CronAssumption

LEMMA ComputedResult ==
    ASSUME kind \in Kinds, NEW j \in Jobs, NEW r \in JobRecord, NEW t \in Nat
    PROVE  LET c == ComputeJobNextRunAt(j, r, t)
           IN  /\ c \in Nat \cup {None}
               /\ c = None <=> \/ ~r.enabled
                               \/ kind[j] = "at" /\ r.status = "ok" /\ ~Before(r.lastRun, r.time)
               /\ kind[j] = "at" /\ c # None => c = r.time
               /\ kind[j] # "at" /\ c # None /\ r.lastRun # None /\ r.lastRun <= t
                  => c > r.lastRun
  <1> DEFINE c == ComputeJobNextRunAt(j, r, t)
  <1>0. /\ None \notin Nat /\ Period \in Nat \ {0}
        /\ r.time \in Nat /\ r.lastRun \in Nat \cup {None}
    BY CronAssumption DEF JobRecord
  <1>1. CASE ~r.enabled
    BY <1>1 DEF ComputeJobNextRunAt
  <1>2. CASE r.enabled /\ kind[j] = "at"
    <2>1. c = IF r.status = "ok" /\ ~Before(r.lastRun, r.time) THEN None ELSE r.time
      BY <1>2 DEF ComputeJobNextRunAt
    <2> QED
      BY <1>0, <1>2, <2>1
  <1>3. CASE r.enabled /\ kind[j] = "every"
    <2>1. c = IF r.lastRun # None /\ r.lastRun + Period > t
              THEN r.lastRun + Period ELSE GridPoint(r.time, t)
      BY <1>3 DEF ComputeJobNextRunAt
    <2>2. GridPoint(r.time, t) \in Nat /\ GridPoint(r.time, t) >= t
      BY <1>0, GridPointResult
    <2> QED
      BY <1>0, <1>3, <2>1, <2>2
  <1>4. CASE r.enabled /\ kind[j] = "cron"
    <2>1. c = SlotAfter(t)
      BY <1>4 DEF ComputeJobNextRunAt
    <2> QED
      BY <1>0, <1>4, <2>1, SlotAfterResult
  <1> QED
    BY <1>1, <1>2, <1>3, <1>4, KindsResult

LEMMA BackoffResult ==
    ASSUME NEW n \in Nat
    PROVE  ErrorBackoff(n) \in Nat /\ (WaitsPositive => ErrorBackoff(n) > 0)
  <1> DEFINE m == Min({n, MaxAttempts + 1})
             i == Max({1, m})
  <1>1. MaxAttempts \in Nat
    BY CronAssumption
  <1>2. m \in {n, MaxAttempts + 1} /\ m <= MaxAttempts + 1
    <2>1. \E x \in {n, MaxAttempts + 1} : \A y \in {n, MaxAttempts + 1} : x <= y
      BY <1>1
    <2> QED
      BY <1>1, <2>1 DEF Min
  <1> HIDE DEF m
  <1>3. i \in {1, m} /\ i >= 1
    <2>1. \E x \in {1, m} : \A y \in {1, m} : x >= y
      BY <1>1, <1>2
    <2> QED
      BY <1>1, <1>2, <2>1 DEF Max
  <1>4. ErrorBackoff(n) = Backoff[i]
    BY DEF ErrorBackoff, m
  <1> HIDE DEF i
  <1>5. i \in DOMAIN Backoff
    BY <1>1, <1>2, <1>3, CronAssumption
  <1> QED
    BY <1>4, <1>5, CronAssumption DEF WaitsPositive

-----------------------------------------------------------------------------
(* What becomes of a record. *)

LEMMA MarkRecord ==
    ASSUME NEW j, NEW r, NEW t, NEW edited, NEW off, NEW mark \in Nat \cup {None},
           RecordOK(j, r, t, edited, off)
    PROVE  LET x == [r EXCEPT !.mark = mark]
           IN  RecordOK(j, x, t, edited, off) /\ Same(x, r) /\ x.mark = mark
  <1> DEFINE x == [r EXCEPT !.mark = mark]
  <1>1. r \in JobRecord
    BY DEF RecordOK, Almost
  <1>2. /\ x \in JobRecord /\ x.mark = mark /\ x.next = r.next /\ x.enabled = r.enabled
        /\ x.time = r.time /\ x.lastRun = r.lastRun /\ x.status = r.status
        /\ x.errors = r.errors
    BY <1>1 DEF JobRecord
  <1> HIDE DEF x
  <1>3. RecordOK(j, x, t, edited, off)
    BY <1>2 DEF RecordOK, Almost, Timed, Planned, Over, Backed, Ahead, Due
  <1>4. Same(x, r)
    BY <1>2 DEF Same, Alike
  <1> QED
    BY <1>2, <1>3, <1>4 DEF x

LEMMA NormalizedRecord ==
    ASSUME NEW j, NEW r, NEW t, NEW edited, NEW off, Almost(j, r, t, edited, off)
    PROVE  LET x == NormalizeJobTickState(r)
           IN  /\ Almost(j, x, t, edited, off) /\ Same(x, r)
               /\ Ahead(j, r) => Ahead(j, x)
               /\ x.mark # None => r.mark # None
  <1> DEFINE x == NormalizeJobTickState(r)
  <1>1. r \in JobRecord
    BY DEF Almost
  <1>2. /\ x \in JobRecord /\ x.enabled = r.enabled
        /\ x.time = r.time /\ x.lastRun = r.lastRun /\ x.status = r.status
        /\ x.errors = r.errors /\ (r.enabled => x.next = r.next)
        /\ (x.mark # None => r.mark # None)
    BY <1>1 DEF NormalizeJobTickState, JobRecord
  <1> HIDE DEF x
  <1>3. Almost(j, x, t, edited, off)
    BY <1>2 DEF Almost, Timed, Planned, Over, Backed, Due
  <1>4. Ahead(j, r) => Ahead(j, x)
    BY <1>2 DEF Ahead
  <1>5. Same(x, r)
    BY <1>2 DEF Same, Alike
  <1> QED
    BY <1>2, <1>3, <1>4, <1>5 DEF x

\* A next run is computed for a job that has none, or whose next run is due.
LEMMA ReplannedRecord ==
    ASSUME kind \in Kinds, now \in Nat, NEW j \in Jobs, NEW r, NEW edited, NEW off,
           Almost(j, r, now, edited, off), r.enabled, r.next = None \/ Reached(r.next)
    PROVE  LET x == [r EXCEPT !.next = ComputeJobNextRunAt(j, r, now)]
           IN  /\ RecordOK(j, x, now, edited, off) /\ Alike(x, r) /\ x.mark = r.mark
               /\ r.next = None => x.next = None
  <1> DEFINE c == ComputeJobNextRunAt(j, r, now)
             x == [r EXCEPT !.next = c]
  <1>0. None \notin Nat
    BY CronAssumption
  <1>1. r \in JobRecord /\ Timed(r, now) /\ Planned(j, r)
    BY DEF Almost
  <1>2. /\ c \in Nat \cup {None}
        /\ c = None <=> \/ ~r.enabled
                        \/ kind[j] = "at" /\ r.status = "ok" /\ ~Before(r.lastRun, r.time)
        /\ kind[j] = "at" /\ c # None => c = r.time
        /\ kind[j] # "at" /\ c # None /\ r.lastRun # None /\ r.lastRun <= now
           => c > r.lastRun
    BY <1>1, ComputedResult
  <1> HIDE DEF c
  <1>3. /\ x \in JobRecord /\ x.enabled = r.enabled
        /\ x.time = r.time /\ x.lastRun = r.lastRun /\ x.status = r.status
        /\ x.errors = r.errors /\ x.next = c /\ x.mark = r.mark
    BY <1>1, <1>2 DEF JobRecord
  <1> HIDE DEF x
  <1>4. Timed(x, now) /\ Over(j, x, edited)
    BY <1>3 DEF Almost, Timed, Over
  <1>5. Planned(j, x)
    BY <1>2, <1>3 DEF Planned
  <1>6. Backed(j, x, now, edited \cup off)
    <2>1. Due(x) = Due(r)
      BY <1>3 DEF Due
    <2>2. CASE r.next = None
      BY <1>1, <1>3, <2>2 DEF Planned, Backed
    <2>3. CASE r.next # None /\ Reached(r.next)
      <3>1. r.status = "error" => Due(r) \in Nat
        <4> SUFFICES ASSUME r.status = "error" PROVE Due(r) \in Nat
          OBVIOUS
        <4>1. r.lastRun \in Nat /\ r.errors \in Nat
          BY <1>1, CronAssumption DEF Timed, JobRecord
        <4> QED
          BY <4>1, BackoffResult DEF Due
      <3>2. r.next \in Nat /\ r.next <= now
        BY <1>1, <2>3 DEF Reached, JobRecord
      <3> QED
        BY <1>3, <2>1, <2>3, <3>1, <3>2 DEF Backed, Almost
    <2> QED
      BY <2>2, <2>3
  <1>7. Ahead(j, x)
    <2>1. r.lastRun # None => r.lastRun \in Nat /\ r.lastRun <= now
      BY <1>1 DEF Timed, JobRecord
    <2> QED
      BY <1>0, <1>2, <1>3, <2>1 DEF Ahead
  <1>8. r.next = None => c = None
    BY <1>1, <1>2 DEF Planned
  <1>9. RecordOK(j, x, now, edited, off) /\ Alike(x, r)
    BY <1>3, <1>4, <1>5, <1>6, <1>7 DEF RecordOK, Almost, Alike
  <1> QED
    BY <1>3, <1>8, <1>9 DEF x, c

\* What maintenance with expired leaves to be repaired.
Overdue(r) == r.mark = None /\ Reached(r.next)

LEMMA MaintainedRecord ==
    ASSUME kind \in Kinds, now \in Nat, NEW s, NEW j \in Jobs, j \in DOMAIN s,
           NEW expired \in BOOLEAN, NEW edited, NEW off,
           Almost(j, s[j], now, edited, off),
           Ahead(j, s[j]) \/ (expired /\ Overdue(s[j]))
    PROVE  LET x == Maintained(s, expired)[j]
           IN  /\ RecordOK(j, x, now, edited, off)
               /\ Alike(x, s[j])
               /\ x.mark # None => s[j].mark # None
               /\ s[j].enabled => \/ x.next = s[j].next
                                  \/ /\ expired /\ s[j].next # None
                                     /\ WaitsPositive /\ Ahead(j, s[j]) => j \in edited
  <1> DEFINE x == Maintained(s, expired)[j]
             n == NormalizeJobTickState(s[j])
             executed == n.mark = None /\ n.lastRun # None /\ n.next # None
                            /\ Reached(n.next) /\ n.lastRun >= n.next
             y == [n EXCEPT !.next = ComputeJobNextRunAt(j, n, now)]
             repaired(z) ==
                 /\ RecordOK(j, z, now, edited, off)
                 /\ Alike(z, s[j])
                 /\ z.mark # None => s[j].mark # None
                 /\ s[j].enabled => \/ z.next = s[j].next
                                    \/ /\ expired /\ s[j].next # None
                                       /\ WaitsPositive /\ Ahead(j, s[j]) => j \in edited
  <1>1. /\ Almost(j, n, now, edited, off) /\ Same(n, s[j])
        /\ Ahead(j, s[j]) => Ahead(j, n)
        /\ n.mark # None => s[j].mark # None
    BY NormalizedRecord
  <1>2. x = IF n.enabled /\ (n.next = None \/ (expired /\ executed)) THEN y ELSE n
    BY DEF Maintained
  <1> HIDE DEF x, n
  <1>3. ASSUME ~(n.enabled /\ (n.next = None \/ (expired /\ executed))) PROVE repaired(x)
    <2>1. x = n
      BY <1>2, <1>3
    <2>2. Ahead(j, n)
      <3> SUFFICES ASSUME ~Ahead(j, n) PROVE FALSE
        OBVIOUS
      <3>1. expired /\ s[j].mark = None /\ Reached(s[j].next)
        BY <1>1 DEF Overdue
      <3>2. n.enabled /\ n.next # None /\ n.lastRun # None /\ n.lastRun >= n.next
        BY DEF Ahead
      <3>3. n.next = s[j].next
        BY <1>1, <3>2 DEF Same, Alike
      <3> QED
        BY <1>1, <1>3, <3>1, <3>2, <3>3
    <2>3. RecordOK(j, n, now, edited, off)
      BY <1>1, <2>2 DEF RecordOK
    <2>4. Alike(n, s[j]) /\ (s[j].enabled => n.next = s[j].next)
      BY <1>1 DEF Same, Alike
    <2> QED
      BY <1>1, <2>1, <2>3, <2>4
  <1>4. ASSUME n.enabled, n.next = None \/ (expired /\ executed) PROVE repaired(x)
    <2>1. x = y
      BY <1>2, <1>4
    <2>2. /\ RecordOK(j, y, now, edited, off) /\ Alike(y, n) /\ y.mark = n.mark
          /\ n.next = None => y.next = None
      BY <1>1, <1>4, ReplannedRecord
    <2>3. n.enabled => n.next = s[j].next
      BY <1>1 DEF Same, Alike
    <2>4. Alike(y, s[j])
      BY <1>1, <2>2 DEF Same, Alike
    <2>5. ASSUME n.next # None, WaitsPositive, Ahead(j, s[j]), j \notin edited
          PROVE  y.next = n.next
      <3>1. kind[j] = "at" /\ n.next = n.time
        BY <1>1, <1>4, <2>5 DEF Ahead
      <3>2. n \in JobRecord /\ n.status # "ok"
        BY <1>1, <1>4, <2>5, <3>1 DEF Almost, Over
      <3>3. y.next = ComputeJobNextRunAt(j, n, now)
        BY <3>2 DEF JobRecord
      <3> QED
        BY <1>4, <3>1, <3>2, <3>3, ComputedResult
    <2>6. s[j].enabled => \/ y.next = s[j].next
                          \/ /\ expired /\ s[j].next # None
                             /\ WaitsPositive /\ Ahead(j, s[j]) => j \in edited
      BY <1>4, <2>2, <2>3, <2>5
    <2> HIDE DEF y, executed
    <2> QED
      BY <1>1, <2>1, <2>2, <2>4, <2>6
  <1> QED
    BY <1>3, <1>4 DEF x

ExecOK(e, t) ==
    /\ e \in Execution
    /\ e.via # "tick" => ~e.live
    /\ e.state # "queued" => e.start \in Nat /\ e.start <= t
    /\ e.state = "ended" => /\ e.end \in Nat /\ e.start <= e.end /\ e.end <= t
                            /\ e.outcome \in Outcomes

LEMMA NextAfterResult ==
    ASSUME kind \in Kinds, NEW j \in Jobs, NEW r \in JobRecord, NEW e,
           NEW errors \in 0..(MaxAttempts + 1), e.end \in Nat,
           kind[j] = "at" => errors > 0
    PROVE  LET x == NextAfter(j, r, e, errors)
               natural == ComputeJobNextRunAt(j, r, e.end)
           IN  /\ x \in Nat \cup {None}
               /\ r.enabled => x # None
               /\ errors > 0 /\ x # None => x >= e.end + ErrorBackoff(errors)
               /\ kind[j] # "at" /\ x # None => natural \in Nat /\ x >= natural
  <1> DEFINE x == NextAfter(j, r, e, errors)
             natural == ComputeJobNextRunAt(j, r, e.end)
             retry == e.end + ErrorBackoff(errors)
             fine == /\ x \in Nat \cup {None}
                     /\ r.enabled => x # None
                     /\ errors > 0 /\ x # None => x >= retry
                     /\ kind[j] # "at" /\ x # None => natural \in Nat /\ x >= natural
  <1>0. MaxAttempts \in Nat /\ RefireGap \in Nat /\ None \notin Nat
    BY CronAssumption
  <1>1. errors \in Nat /\ retry \in Nat
    <2>1. errors \in Nat
      BY <1>0
    <2> QED
      BY <2>1, BackoffResult
  <1>2. /\ natural \in Nat \cup {None}
        /\ r.enabled /\ kind[j] # "at" => natural # None
    BY ComputedResult
  <1>3. x = IF kind[j] = "at" THEN retry
            ELSE IF ~r.enabled THEN None
            ELSE CASE errors > 0                       -> Later(natural, retry)
                   [] errors = 0 /\ kind[j] = "cron"   -> Later(natural, e.end + RefireGap)
                   [] errors = 0 /\ kind[j] = "every"  -> natural
    BY DEF NextAfter
  <1> HIDE DEF x, natural, retry
  <1>4. ASSUME kind[j] = "at" PROVE fine
    BY <1>0, <1>1, <1>3, <1>4
  <1>5. ASSUME kind[j] # "at", ~r.enabled PROVE fine
    BY <1>0, <1>1, <1>3, <1>5
  <1>6. ASSUME kind[j] # "at", r.enabled PROVE fine
    <2>1. natural \in Nat
      BY <1>2, <1>6
    <2>2. CASE errors > 0
      <3>1. x = Later(natural, retry)
        BY <1>1, <1>3, <1>6, <2>2
      <3> QED
        BY <1>0, <1>1, <2>1, <2>2, <3>1 DEF Later
    <2>3. CASE errors = 0 /\ kind[j] = "cron"
      <3>1. x = Later(natural, e.end + RefireGap)
        BY <1>1, <1>3, <1>6, <2>3
      <3> QED
        BY <1>0, <1>1, <2>1, <2>3, <3>1 DEF Later
    <2>4. CASE errors = 0 /\ kind[j] = "every"
      <3>1. x = natural
        BY <1>1, <1>3, <1>6, <2>4
      <3> QED
        BY <1>0, <1>1, <2>1, <2>4, <3>1
    <2> QED
      BY <1>1, <1>6, <2>2, <2>3, <2>4, KindsResult
  <1> QED
    BY <1>4, <1>5, <1>6 DEF x, natural, retry

LEMMA AppliedRecord ==
    ASSUME kind \in Kinds, now \in Nat, NEW j \in Jobs, NEW r \in JobRecord,
           NEW e, ExecOK(e, now), e.state = "ended", NEW edited, NEW off
    PROVE  LET x == ApplyJobResult(j, r, e)
           IN  /\ Almost(j, x, now, edited, off) /\ x.mark = None /\ x.time = r.time
               /\ e.via # "force" => Ahead(j, x)
               /\ Ahead(j, x) \/ Overdue(x)
  <1> DEFINE failed == e.outcome \in {"error", "transient"}
             errors == IF failed THEN Min({r.errors, MaxAttempts}) + 1 ELSE 0
             done == [r EXCEPT !.mark = None, !.lastRun = e.start, !.errors = errors,
                               !.status = IF failed THEN "error" ELSE e.outcome]
             basis == IF e.via = "force" /\ kind[j] = "every"
                      THEN [done EXCEPT !.lastRun = r.lastRun] ELSE done
             next == NextAfter(j, basis, e, errors)
             stopped == [done EXCEPT !.enabled = FALSE, !.next = None]
             going == [done EXCEPT !.next = next]
             x == ApplyJobResult(j, r, e)
             fine(y) == /\ Almost(j, y, now, edited, off) /\ y.mark = None /\ y.time = r.time
                        /\ e.via # "force" => Ahead(j, y)
                        /\ Ahead(j, y) \/ Overdue(y)
  <1>1. /\ e.start \in Nat /\ e.end \in Nat /\ e.start <= e.end /\ e.end <= now
        /\ e.outcome \in {"ok", "skipped", "error", "transient"}
    BY CronAssumption DEF ExecOK
  <1>2. None \notin Nat /\ MaxAttempts \in Nat
    BY CronAssumption
  <1>3. errors \in 0..(MaxAttempts + 1) /\ (failed <=> errors > 0)
    <2>1. r.errors \in Nat
      BY <1>2 DEF JobRecord
    <2>2. Min({r.errors, MaxAttempts}) \in {r.errors, MaxAttempts}
             /\ Min({r.errors, MaxAttempts}) <= MaxAttempts
      <3>1. \E a \in {r.errors, MaxAttempts} : \A b \in {r.errors, MaxAttempts} : a <= b
        BY <1>2, <2>1
      <3> QED
        BY <1>2, <2>1, <3>1 DEF Min
    <2> QED
      BY <1>2, <2>1, <2>2
  <1>4. x = IF Disables(j, e, errors) THEN stopped ELSE going
    BY DEF ApplyJobResult
  <1> HIDE DEF errors, x
  <1>5. /\ done \in JobRecord /\ done.mark = None /\ done.lastRun = e.start /\ done.time = r.time
        /\ done.errors = errors /\ done.enabled = r.enabled
        /\ done.status = IF failed THEN "error" ELSE e.outcome
    BY <1>1, <1>3 DEF JobRecord
  <1> HIDE DEF done
  <1>6. CASE Disables(j, e, errors)
    <2>1. /\ stopped \in JobRecord /\ ~stopped.enabled /\ stopped.mark = None
          /\ stopped.lastRun = e.start /\ stopped.time = r.time
      BY <1>5 DEF JobRecord
    <2> HIDE DEF stopped
    <2>2. fine(stopped)
      BY <1>1, <1>2, <2>1 DEF Almost, Timed, Planned, Over, Backed, Ahead
    <2> QED
      BY <1>4, <1>6, <2>2 DEF x
  <1>7. CASE ~Disables(j, e, errors)
    <2>1. kind[j] = "at" => failed
      BY <1>7 DEF Disables
    <2>2. /\ basis \in JobRecord /\ basis.enabled = r.enabled
          /\ e.via # "force" => basis.lastRun = e.start
      BY <1>5 DEF JobRecord
    <2> DEFINE natural == ComputeJobNextRunAt(j, basis, e.end)
    <2> HIDE DEF basis
    <2>3. /\ next \in Nat \cup {None}
          /\ basis.enabled => next # None
          /\ errors > 0 /\ next # None => next >= e.end + ErrorBackoff(errors)
          /\ kind[j] # "at" /\ next # None => natural \in Nat /\ next >= natural
      BY <1>1, <1>3, <2>1, <2>2, NextAfterResult
    <2>4. /\ kind[j] # "at" /\ natural # None /\ e.via # "force" => natural > e.start
      BY <1>1, <1>2, <2>2, ComputedResult
    <2> HIDE DEF next, natural
    <2>5. /\ going \in JobRecord /\ going.mark = None /\ going.lastRun = e.start
          /\ going.time = r.time /\ going.errors = errors
          /\ going.enabled = r.enabled /\ going.next = next
          /\ going.status = IF failed THEN "error" ELSE e.outcome
      BY <1>5, <2>3 DEF JobRecord
    <2> HIDE DEF going
    <2>6. ErrorBackoff(errors) \in Nat /\ (WaitsPositive => ErrorBackoff(errors) > 0)
      BY <1>2, <1>3, BackoffResult
    <2>7. Timed(going, now) /\ Planned(j, going) /\ Over(j, going, edited)
      BY <1>1, <1>2, <2>1, <2>2, <2>3, <2>5 DEF Timed, Planned, Over
    <2>8. Backed(j, going, now, edited \cup off)
      <3> SUFFICES ASSUME going.status = "error", next # None
                   PROVE  next >= e.start + ErrorBackoff(errors)
        BY <2>5 DEF Backed, Due
      <3>1. errors > 0
        BY <1>1, <1>3, <2>5
      <3> QED
        BY <1>1, <2>3, <2>6, <3>1
    <2>9. /\ e.via # "force" => Ahead(j, going)
          /\ Ahead(j, going) \/ Overdue(going)
      <3>1. CASE failed
        BY <1>1, <1>3, <2>3, <2>5, <2>6, <3>1 DEF Ahead
      <3>2. CASE ~failed /\ e.via # "force"
        BY <1>1, <1>2, <2>1, <2>3, <2>4, <2>5, <3>2 DEF Ahead
      <3>3. CASE e.via = "force"
        BY <1>1, <1>2, <2>3, <2>5, <3>3 DEF Ahead, Overdue, Reached
      <3> QED
        BY <3>1, <3>2, <3>3
    <2>10. fine(going)
      BY <2>5, <2>7, <2>8, <2>9 DEF Almost
    <2> QED
      BY <1>4, <1>7, <2>10 DEF x
  <1> QED
    BY <1>6, <1>7

-----------------------------------------------------------------------------
(* What becomes of a store. *)

GoodStore(s, t, edited, off) ==
    DOMAIN s \subseteq Jobs /\ \A j \in DOMAIN s : RecordOK(j, s[j], t, edited, off)

LEMMA MarkedStore ==
    ASSUME NEW s, NEW t, NEW edited, NEW off, GoodStore(s, t, edited, off), now \in Nat, NEW js
    PROVE  /\ GoodStore(Marked(s, js), t, edited, off)
           /\ DOMAIN Marked(s, js) = DOMAIN s
           /\ \A j \in DOMAIN s : /\ Same(Marked(s, js)[j], s[j])
                                  /\ j \notin js => Marked(s, js)[j] = s[j]
  <1>1. DOMAIN Marked(s, js) = DOMAIN s
    BY DEF Marked
  <1>2. ASSUME NEW j \in DOMAIN s
        PROVE  /\ RecordOK(j, Marked(s, js)[j], t, edited, off)
               /\ Same(Marked(s, js)[j], s[j])
               /\ j \notin js => Marked(s, js)[j] = s[j]
    <2>1. Marked(s, js)[j] = IF j \in js THEN [s[j] EXCEPT !.mark = now] ELSE s[j]
      BY DEF Marked
    <2>2. RecordOK(j, s[j], t, edited, off)
      BY DEF GoodStore
    <2> QED
      BY <2>1, <2>2, MarkRecord DEF Same, Alike
  <1> QED
    BY <1>1, <1>2 DEF GoodStore

LEMMA MaintainedStore ==
    ASSUME kind \in Kinds, now \in Nat, NEW s, NEW edited, NEW off,
           GoodStore(s, now, edited, off), NEW expired \in BOOLEAN
    PROVE  LET m == Maintained(s, expired)
           IN  /\ GoodStore(m, now, edited, off)
               /\ DOMAIN m = DOMAIN s
               /\ \A j \in DOMAIN s : /\ m[j].mark # None => s[j].mark # None
                                      /\ ~expired => Same(m[j], s[j])
  <1> DEFINE m == Maintained(s, expired)
  <1>1. DOMAIN m = DOMAIN s
    BY DEF Maintained
  <1> HIDE DEF m
  <1>2. ASSUME NEW j \in DOMAIN s
        PROVE  /\ RecordOK(j, m[j], now, edited, off)
               /\ m[j].mark # None => s[j].mark # None
               /\ ~expired => Same(m[j], s[j])
    <2>1. RecordOK(j, s[j], now, edited, off) /\ j \in Jobs
      BY DEF GoodStore
    <2>2. /\ RecordOK(j, m[j], now, edited, off)
          /\ Alike(m[j], s[j])
          /\ m[j].mark # None => s[j].mark # None
          /\ s[j].enabled => m[j].next = s[j].next \/ expired
      BY <2>1, MaintainedRecord DEF RecordOK, m
    <2> QED
      BY <2>2 DEF Same, Alike
  <1> QED
    BY <1>1, <1>2 DEF GoodStore, m

LEMMA RecomputedStore ==
    ASSUME kind \in Kinds, now \in Nat, NEW s, NEW edited, NEW off,
           GoodStore(s, now, edited, off)
    PROVE  LET m == RecomputeNextRuns(s)
           IN  /\ GoodStore(m, now, edited, off)
               /\ DOMAIN m = DOMAIN s
               /\ \A j \in DOMAIN s : m[j].mark # None => s[j].mark # None
  <1> DEFINE m == RecomputeNextRuns(s)
  <1>1. DOMAIN m = DOMAIN s
    BY DEF RecomputeNextRuns
  <1>2. ASSUME NEW j \in DOMAIN s
        PROVE  /\ RecordOK(j, m[j], now, edited, off)
               /\ m[j].mark # None => s[j].mark # None
    <2> DEFINE n == NormalizeJobTickState(s[j])
               y == [n EXCEPT !.next = ComputeJobNextRunAt(j, n, now)]
    <2>1. RecordOK(j, s[j], now, edited, off) /\ j \in Jobs
      BY DEF GoodStore
    <2>2. m[j] = IF n.enabled /\ (n.next = None \/ Reached(n.next)) THEN y ELSE n
      BY DEF RecomputeNextRuns
    <2>3. RecordOK(j, n, now, edited, off) /\ (n.mark # None => s[j].mark # None)
      BY <2>1, NormalizedRecord DEF RecordOK
    <2> HIDE DEF n, m
    <2>4. n.enabled /\ (n.next = None \/ Reached(n.next))
          => RecordOK(j, y, now, edited, off) /\ y.mark = n.mark
      BY <2>1, <2>3, ReplannedRecord DEF RecordOK
    <2> HIDE DEF y
    <2> QED
      BY <2>2, <2>3, <2>4
  <1> QED
    BY <1>1, <1>2 DEF GoodStore

JobsOf(es) == {e.job : e \in es}

LEMMA AppliedStore ==
    ASSUME kind \in Kinds, now \in Nat, NEW s, NEW edited, NEW off,
           GoodStore(s, now, edited, off), NEW es,
           \A e \in es : ExecOK(e, now) /\ e.state = "ended" /\ e.via # "force"
    PROVE  LET a == Applied(s, es)
               jobs == JobsOf(es)
           IN  /\ GoodStore(a, now, edited \ jobs, off \ jobs)
               /\ DOMAIN a \subseteq DOMAIN s
               /\ \A j \in DOMAIN a : IF j \in jobs THEN a[j].mark = None ELSE a[j] = s[j]
               /\ \A j \in DOMAIN s : j \notin jobs => j \in DOMAIN a
  <1> DEFINE a == Applied(s, es)
             jobs == JobsOf(es)
             result(j) == CHOOSE e \in es : e.job = j
             kept == {k \in DOMAIN s : ~(k \in jobs /\ Deletes(k, result(k)))}
  <1>1. a = [j \in kept |-> IF j \in jobs THEN ApplyJobResult(j, s[j], result(j)) ELSE s[j]]
    BY DEF Applied, JobsOf
  <1>2. \A j \in jobs : result(j) \in es
    <2> SUFFICES ASSUME NEW j \in jobs PROVE \E e \in es : e.job = j
      OBVIOUS
    <2> QED
      BY DEF JobsOf
  <1>3. kept \subseteq DOMAIN s /\ \A j \in DOMAIN s : j \notin jobs => j \in kept
    OBVIOUS
  <1> HIDE DEF result, kept, a, jobs
  <1>4. DOMAIN a = kept
    BY <1>1
  <1>5. ASSUME NEW j \in kept
        PROVE  /\ RecordOK(j, a[j], now, edited \ jobs, off \ jobs)
               /\ IF j \in jobs THEN a[j].mark = None ELSE a[j] = s[j]
    <2>1. j \in DOMAIN s /\ j \in Jobs /\ RecordOK(j, s[j], now, edited, off)
      BY <1>3 DEF GoodStore
    <2>2. CASE j \in jobs
      <3>1. a[j] = ApplyJobResult(j, s[j], result(j))
        BY <1>1, <2>2
      <3>2. /\ ExecOK(result(j), now) /\ result(j).state = "ended"
            /\ result(j).via # "force" /\ s[j] \in JobRecord
        BY <1>2, <2>1, <2>2 DEF RecordOK, Almost
      <3>3. /\ Almost(j, a[j], now, edited \ jobs, off \ jobs)
            /\ a[j].mark = None /\ Ahead(j, a[j])
        BY <2>1, <3>1, <3>2, AppliedRecord
      <3> QED
        BY <2>2, <3>3 DEF RecordOK
    <2>3. CASE j \notin jobs
      <3>1. a[j] = s[j]
        BY <1>1, <2>3
      <3> QED
        BY <2>1, <2>3, <3>1 DEF RecordOK, Almost, Over, Backed
    <2> QED
      BY <2>2, <2>3
  <1> QED
    BY <1>3, <1>4, <1>5 DEF GoodStore, a, jobs

LEMMA DeferredStore ==
    ASSUME now \in Nat, NEW s, NEW edited, NEW off, GoodStore(s, now, edited, off),
           NEW d \in Deferred(s)
    PROVE  /\ GoodStore(d, now, edited, off \cup plan.deferred) /\ DOMAIN d = DOMAIN s
           /\ \A j \in DOMAIN s : d[j].mark = s[j].mark
  <1> DEFINE todo == {j \in plan.deferred \cap DOMAIN s : s[j].enabled}
  <1>1. PICK turn \in [todo -> 1..Cardinality(todo)] :
             d = [j \in DOMAIN s |-> IF j \in todo
                            THEN [s[j] EXCEPT !.next = now + Stagger * turn[j]] ELSE s[j]]
    BY DEF Deferred
  <1>2. DOMAIN d = DOMAIN s
    BY <1>1
  <1>3. ASSUME NEW j \in DOMAIN s
        PROVE  /\ RecordOK(j, d[j], now, edited, off \cup plan.deferred)
               /\ d[j].mark = s[j].mark
    <2>1. RecordOK(j, s[j], now, edited, off)
      BY DEF GoodStore
    <2>2. CASE j \notin todo
      <3>1. d[j] = s[j]
        BY <1>1, <2>2
      <3> QED
        BY <2>1, <3>1 DEF RecordOK, Almost, Backed
    <2>3. CASE j \in todo
      <3> DEFINE n == now + Stagger * turn[j]
                 x == [s[j] EXCEPT !.next = n]
      <3>1. j \in plan.deferred /\ s[j].enabled
        BY <2>3
      <3>2. turn[j] \in Nat /\ turn[j] >= 1
        BY <2>3
      <3>3. Stagger \in Nat /\ None \notin Nat
        BY CronAssumption
      <3>4. n \in Nat /\ (WaitsPositive => n > now)
        <4>1. Stagger * turn[j] \in Nat /\ (Stagger > 0 => Stagger * turn[j] > 0)
          BY <3>2, <3>3
        <4> QED
          BY <4>1 DEF WaitsPositive
      <3>5. d[j] = x
        BY <1>1, <2>3
      <3> HIDE DEF n
      <3>6. /\ x \in JobRecord /\ x.enabled = s[j].enabled /\ x.next = n
            /\ x.time = s[j].time /\ x.lastRun = s[j].lastRun /\ x.status = s[j].status
            /\ x.errors = s[j].errors /\ x.mark = s[j].mark
        BY <2>1, <3>4 DEF RecordOK, Almost, JobRecord
      <3> HIDE DEF x
      <3>7. Almost(j, x, now, edited, off \cup plan.deferred)
        BY <2>1, <3>1, <3>3, <3>4, <3>6
           DEF RecordOK, Almost, Timed, Planned, Over, Backed
      <3>8. Ahead(j, x)
        <4>1. x.lastRun # None => x.lastRun \in Nat /\ x.lastRun <= now
          BY <2>1, <3>6 DEF RecordOK, Almost, Timed, JobRecord
        <4> QED
          BY <3>4, <3>6, <4>1 DEF Ahead
      <3> QED
        BY <3>5, <3>6, <3>7, <3>8 DEF RecordOK
    <2> QED
      BY <2>2, <2>3
  <1> QED
    BY <1>2, <1>3 DEF GoodStore

-----------------------------------------------------------------------------
(* The invariant. *)

Shapes ==
    /\ now \in 0..MaxTime
    /\ kind \in Kinds
    /\ unused \subseteq Jobs
    /\ phase \in {"down", "planning", "catchup", "arming", "started"}
    /\ timer \in BOOLEAN /\ running \in BOOLEAN
    /\ plan \in [skip : SUBSET Jobs, deferred : SUBSET Jobs]
    /\ crashes \in 0..MaxCrashes /\ requests \in 0..MaxRequests
    /\ touched \cup putOff \subseteq Jobs

Stores ==
    GoodStore(disk, now, touched, putOff) /\ GoodStore(mem, now, touched, putOff)

ExecsOK ==
    /\ \A e \in execs : ExecOK(e, now)
    /\ running <=> \E e \in execs : e.via = "tick"

\* The file and the memory of a gateway differ in marks and in what disabled jobs had
\* as their next run.
InStep ==
    phase # "down" => DOMAIN mem = DOMAIN disk /\ \A j \in DOMAIN mem : Same(mem[j], disk[j])

HasExec(s) == \A j \in DOMAIN s : s[j].mark # None => \E e \in execs : e.job = j

MarksEnd == phase # "down" => HasExec(disk) /\ HasExec(mem)

TimerSet ==
    phase = "started" /\ ~running /\ (HasNextWake(disk) \/ HasNextWake(mem)) => timer

SInv == Shapes /\ Stores /\ ExecsOK /\ InStep /\ MarksEnd /\ TimerSet

LEMMA WrittenStep ==
    ASSUME Shapes', kind' = kind, ExecsOK', disk' = mem',
           GoodStore(mem', now', touched', putOff'),
           \A j \in DOMAIN mem' : mem'[j].mark # None => \E e \in execs' : e.job = j,
           phase' = "started" /\ ~running' /\ HasNextWake(mem') => timer'
    PROVE  SInv'
  <1>1. Stores'
    BY DEF Stores, GoodStore, RecordOK, Almost, Planned, Over, Ahead
  <1>2. InStep'
    BY DEF InStep, Same, Alike
  <1>3. MarksEnd'
    BY DEF MarksEnd, HasExec
  <1>4. TimerSet'
    BY DEF TimerSet, HasNextWake
  <1> QED
    BY <1>1, <1>2, <1>3, <1>4 DEF SInv

\* Nothing happens to the stores, nor to the timer.
LEMMA UnwrittenStep ==
    ASSUME SInv, Shapes', ExecsOK',
           UNCHANGED <<kind, disk, mem, touched, putOff, timer, running>>,
           now' \in {now, now + 1}, now \in Nat,
           phase' = phase \/ (phase # "down" /\ phase' # "started"),
           \A e \in execs : \E f \in execs' : f.job = e.job
    PROVE  SInv'
  <1>1. Stores'
    <2>1. ASSUME NEW s \in {disk, mem} PROVE GoodStore(s, now', touched, putOff)
      <3>1. GoodStore(s, now, touched, putOff)
        BY DEF SInv, Stores
      <3>2. ASSUME NEW j \in DOMAIN s PROVE RecordOK(j, s[j], now', touched, putOff)
        <4>1. RecordOK(j, s[j], now, touched, putOff) /\ s[j] \in JobRecord
          BY <3>1 DEF GoodStore, RecordOK, Almost
        <4>2. Timed(s[j], now')
          BY <4>1 DEF RecordOK, Almost, Timed, JobRecord
        <4>3. Backed(j, s[j], now', touched \cup putOff)
          <5> SUFFICES ASSUME s[j].status = "error", s[j].enabled, s[j].next # None,
                              j \notin touched \cup putOff
                       PROVE  s[j].next >= Due(s[j]) \/ now' >= Due(s[j])
            BY DEF Backed
          <5>1. s[j].lastRun \in Nat /\ s[j].errors \in Nat
            BY <4>1, CronAssumption DEF RecordOK, Almost, Timed, JobRecord
          <5>2. Due(s[j]) \in Nat
            BY <5>1, BackoffResult DEF Due
          <5>3. s[j].next >= Due(s[j]) \/ now >= Due(s[j])
            BY <4>1 DEF RecordOK, Almost, Backed
          <5> QED
            BY <5>2, <5>3
        <4> QED
          BY <4>1, <4>2, <4>3 DEF RecordOK, Almost
      <3> QED
        BY <3>1, <3>2 DEF GoodStore
    <2> QED
      BY <2>1 DEF Stores, GoodStore, RecordOK, Almost, Planned, Over, Ahead
  <1>2. InStep'
    BY DEF SInv, InStep, Same, Alike
  <1>3. MarksEnd'
    <2>1. phase' # "down" => HasExec(disk) /\ HasExec(mem)
      BY DEF SInv, MarksEnd
    <2> QED
      BY <2>1 DEF MarksEnd, HasExec
  <1>4. TimerSet'
    BY DEF SInv, TimerSet, HasNextWake
  <1> QED
    BY <1>1, <1>2, <1>3, <1>4 DEF SInv

LEMMA ReloadedExecs ==
    ASSUME NEW t, NEW es, \A e \in es : ExecOK(e, t)
    PROVE  /\ \A g \in Reloaded(es) :
                 /\ ExecOK(g, t)
                 /\ \E e \in es : g = [e EXCEPT !.live = FALSE] /\ g.job = e.job /\ g.via = e.via
           /\ \A e \in es : \E g \in Reloaded(es) : g.job = e.job /\ g.via = e.via
  <1>1. ASSUME NEW e \in es
        PROVE  LET g == [e EXCEPT !.live = FALSE]
               IN  g \in Reloaded(es) /\ ExecOK(g, t) /\ g.job = e.job /\ g.via = e.via
    <2> DEFINE g == [e EXCEPT !.live = FALSE]
    <2>1. ExecOK(e, t) /\ e \in Execution
      BY DEF ExecOK
    <2>2. /\ g \in Execution /\ g.job = e.job /\ g.via = e.via /\ g.state = e.state
          /\ g.start = e.start /\ g.end = e.end /\ g.outcome = e.outcome /\ ~g.live
      BY <2>1 DEF Execution
    <2>3. g \in Reloaded(es)
      BY DEF Reloaded
    <2> HIDE DEF g
    <2>4. ExecOK(g, t)
      BY <2>1, <2>2 DEF ExecOK
    <2> QED
      BY <2>2, <2>3, <2>4 DEF g
  <1>2. \A g \in Reloaded(es) : \E e \in es : g = [e EXCEPT !.live = FALSE]
    BY DEF Reloaded
  <1> QED
    BY <1>1, <1>2

LEMMA BegunExec ==
    ASSUME NEW j \in Jobs, NEW via \in {"tick", "catchup", "due", "force"}, now \in Nat
    PROVE  /\ ExecOK(Exec(j, via, "queued", None), now)
           /\ ExecOK(Exec(j, via, "running", now), now)
  <1> DEFINE e == Exec(j, via, "queued", None)
             f == Exec(j, via, "running", now)
  <1>1. /\ e \in Execution /\ e.state = "queued" /\ (e.via # "tick" => ~e.live)
        /\ f \in Execution /\ f.state = "running" /\ (f.via # "tick" => ~f.live)
        /\ f.start = now
    BY DEF Exec, Execution
  <1> HIDE DEF e, f
  <1>2. ExecOK(e, now) /\ ExecOK(f, now)
    BY <1>1 DEF ExecOK
  <1> QED
    BY <1>2 DEF e, f

\* What the actions use of the shapes.
LEMMA ShapesNow ==
    ASSUME Shapes
    PROVE  now \in Nat /\ kind \in Kinds
  BY CronAssumption DEF Shapes

-----------------------------------------------------------------------------
(* The actions of a starting gateway. *)

LEMMA StartLoadsS == SInv /\ DownIsIdle /\ StartLoads => SInv'
  <1> SUFFICES ASSUME SInv, DownIsIdle, StartLoads PROVE SInv'
    OBVIOUS
  <1>1. /\ phase = "down" /\ execs = {} /\ ~timer /\ ~running
        /\ disk' = [j \in DOMAIN disk |-> [disk[j] EXCEPT !.mark = None]] /\ mem' = disk'
        /\ plan' = [NoPlan EXCEPT !.skip = {j \in DOMAIN disk : disk[j].mark # None}]
        /\ phase' = "planning"
        /\ UNCHANGED <<now, kind, unused, timer, running, execs, crashes, requests,
                       touched, putOff>>
    BY DEF StartLoads, DownIsIdle
  <1>2. GoodStore(disk, now, touched, putOff)
    BY DEF SInv, Stores
  <1>3. \A j \in DOMAIN disk : RecordOK(j, disk'[j], now, touched, putOff) /\ disk'[j].mark = None
    <2> SUFFICES ASSUME NEW j \in DOMAIN disk
                 PROVE  RecordOK(j, disk'[j], now, touched, putOff) /\ disk'[j].mark = None
      OBVIOUS
    <2>1. disk'[j] = [disk[j] EXCEPT !.mark = None]
      BY <1>1
    <2> QED
      BY <1>2, <2>1, MarkRecord DEF GoodStore
  <1>4. GoodStore(mem', now', touched', putOff')
    BY <1>1, <1>2, <1>3 DEF GoodStore
  <1>5. Shapes'
    <2>1. DOMAIN disk \subseteq Jobs
      BY <1>2 DEF GoodStore
    <2>2. plan' \in [skip : SUBSET Jobs, deferred : SUBSET Jobs]
      BY <1>1, <2>1 DEF NoPlan
    <2> QED
      BY <1>1, <2>2 DEF SInv, Shapes
  <1>6. ExecsOK'
    BY <1>1 DEF SInv, ExecsOK
  <1>7. DOMAIN mem' = DOMAIN disk
    BY <1>1
  <1> QED
    BY <1>1, <1>3, <1>4, <1>5, <1>6, <1>7, WrittenStep

LEMMA PlanS == SInv /\ PlanStartupCatchup => SInv'
  <1> SUFFICES ASSUME SInv, PlanStartupCatchup PROVE SInv'
    OBVIOUS
  <1> DEFINE missed == {j \in DOMAIN mem : IsMissed(j, mem[j])}
  <1>1. /\ phase = "planning" /\ phase' \in {"arming", "catchup"}
        /\ UNCHANGED <<now, kind, unused, timer, running, crashes, requests, touched, putOff>>
    BY DEF PlanStartupCatchup
  <1>2. CASE missed = {}
    <2>1. UNCHANGED <<disk, mem, execs, plan>>
      BY <1>2 DEF PlanStartupCatchup, store
    <2>2. Shapes' /\ ExecsOK'
      BY <1>1, <2>1 DEF SInv, Shapes, ExecsOK, ExecOK
    <2> QED
      BY <1>1, <2>1, <2>2, UnwrittenStep, ShapesNow DEF SInv
  <1>3. CASE missed # {}
    <2>1. PICK first \in SUBSET missed :
              /\ mem' = Marked(mem, first) /\ disk' = mem'
              /\ execs' = execs \cup {Exec(j, "catchup", "queued", None) : j \in first}
              /\ plan' = [plan EXCEPT !.deferred = missed \ first]
      BY <1>3 DEF PlanStartupCatchup
    <2>2. GoodStore(mem, now, touched, putOff) /\ now \in Nat
      BY ShapesNow DEF SInv, Stores
    <2>3. missed \subseteq Jobs
      BY <2>2 DEF GoodStore
    <2> HIDE DEF missed
    <2>4. \A j \in first : /\ ExecOK(Exec(j, "catchup", "queued", None), now)
                           /\ Exec(j, "catchup", "queued", None).via = "catchup"
                           /\ Exec(j, "catchup", "queued", None).job = j
      BY <2>1, <2>2, <2>3, BegunExec DEF Exec
    <2>5. ExecsOK'
      BY <1>1, <2>1, <2>4 DEF SInv, ExecsOK, ExecOK
    <2>6. Shapes'
      BY <1>1, <2>1, <2>3 DEF SInv, Shapes
    <2>7. /\ GoodStore(mem', now, touched, putOff) /\ DOMAIN mem' = DOMAIN mem
          /\ \A j \in DOMAIN mem : j \notin first => mem'[j] = mem[j]
      BY <2>1, <2>2, MarkedStore
    <2>8. ASSUME NEW j \in DOMAIN mem', mem'[j].mark # None
          PROVE  \E e \in execs' : e.job = j
      <3>1. CASE j \in first
        BY <2>1, <2>4, <3>1
      <3>2. CASE j \notin first
        <4>1. PICK e \in execs : e.job = j
          BY <1>1, <2>7, <2>8, <3>2 DEF SInv, MarksEnd, HasExec
        <4> QED
          BY <2>1, <4>1
      <3> QED
        BY <3>1, <3>2
    <2> QED
      BY <1>1, <2>1, <2>5, <2>6, <2>7, <2>8, WrittenStep
  <1> QED
    BY <1>2, <1>3

\* The outcomes of the executions of a tick or of a catch-up.
LEMMA OutcomesS ==
    ASSUME SInv, NEW via \in {"tick", "catchup"}, \A e \in Of(via) : e.state = "ended",
           phase # "down"
    PROVE  LET a == Applied(disk, Of(via))
               jobs == JobsOf(Of(via))
           IN  /\ GoodStore(a, now, touched \ jobs, putOff \ jobs)
               /\ DOMAIN a \subseteq DOMAIN disk
               /\ \A j \in DOMAIN a : a[j].mark # None => \E e \in execs \ Of(via) : e.job = j
               /\ \A j \in DOMAIN a : j \notin jobs => a[j] = disk[j]
  <1> DEFINE a == Applied(disk, Of(via))
             jobs == JobsOf(Of(via))
  <1>1. now \in Nat /\ kind \in Kinds /\ GoodStore(disk, now, touched, putOff)
    BY ShapesNow DEF SInv, Stores
  <1>2. \A e \in Of(via) : ExecOK(e, now) /\ e.state = "ended" /\ e.via # "force"
    BY DEF SInv, ExecsOK, Of
  <1>3. /\ GoodStore(a, now, touched \ jobs, putOff \ jobs)
        /\ DOMAIN a \subseteq DOMAIN disk
        /\ \A j \in DOMAIN a : IF j \in jobs THEN a[j].mark = None ELSE a[j] = disk[j]
    BY <1>1, <1>2, AppliedStore
  <1> HIDE DEF a
  <1>4. ASSUME NEW j \in DOMAIN a, a[j].mark # None PROVE \E e \in execs \ Of(via) : e.job = j
    <2>1. j \notin jobs /\ a[j] = disk[j] /\ j \in DOMAIN disk
      BY <1>3, <1>4
    <2>2. PICK e \in execs : e.job = j
      BY <1>4, <2>1 DEF SInv, MarksEnd, HasExec
    <2>3. e \notin Of(via)
      BY <2>1, <2>2 DEF JobsOf
    <2> QED
      BY <2>2, <2>3
  <1>5. \A j \in DOMAIN a : j \notin jobs => a[j] = disk[j]
    BY <1>3
  <1> QED
    BY <1>3, <1>4, <1>5 DEF a

LEMMA EndedExecs ==
    ASSUME ExecsOK, now' = now, NEW es \in SUBSET execs, execs' = Reloaded(es),
           running' <=> \E e \in es : e.via = "tick"
    PROVE  ExecsOK' /\ \A e \in es : \E g \in execs' : g.job = e.job
  <1>1. \A e \in es : ExecOK(e, now)
    BY DEF ExecsOK
  <1>2. /\ \A g \in Reloaded(es) :
              /\ ExecOK(g, now)
              /\ \E e \in es : g = [e EXCEPT !.live = FALSE] /\ g.job = e.job /\ g.via = e.via
        /\ \A e \in es : \E g \in Reloaded(es) : g.job = e.job /\ g.via = e.via
    BY <1>1, ReloadedExecs
  <1>3. \A g \in execs' : ExecOK(g, now)'
    <2> SUFFICES ASSUME NEW g \in execs' PROVE ExecOK(g, now')
      BY DEF ExecOK
    <2> QED
      BY <1>2
  <1>4. running' <=> \E e \in execs' : e.via = "tick"
    BY <1>2
  <1>5. \A e \in es : \E g \in execs' : g.job = e.job
    BY <1>2
  <1> QED
    BY <1>3, <1>4, <1>5 DEF ExecsOK, ExecOK

LEMMA ApplyStartupS == SInv /\ ApplyStartupCatchup => SInv'
  <1> SUFFICES ASSUME SInv, ApplyStartupCatchup PROVE SInv'
    OBVIOUS
  <1> DEFINE jobs == JobsOf(Of("catchup"))
             a == Applied(disk, Of("catchup"))
  <1>1. /\ phase = "catchup" /\ \A e \in Of("catchup") : e.state = "ended"
        /\ disk' = mem' /\ execs' = Reloaded(execs \ Of("catchup")) /\ phase' = "arming"
        /\ touched' = touched \ jobs /\ putOff' = (putOff \ jobs) \cup plan.deferred
        /\ UNCHANGED <<now, kind, unused, timer, running, plan, crashes, requests>>
    BY DEF ApplyStartupCatchup, JobsOf
  <1>2. PICK d \in Deferred(a) : mem' = Maintained(d, FALSE)
    BY DEF ApplyStartupCatchup
  <1>3. now \in Nat /\ kind \in Kinds
    BY ShapesNow DEF SInv
  <1>4. /\ GoodStore(a, now, touched \ jobs, putOff \ jobs)
        /\ \A j \in DOMAIN a : a[j].mark # None => \E e \in execs \ Of("catchup") : e.job = j
    BY <1>1, OutcomesS
  <1> HIDE DEF a, jobs
  <1>5. /\ GoodStore(d, now, touched', putOff') /\ DOMAIN d = DOMAIN a
        /\ \A j \in DOMAIN a : d[j].mark = a[j].mark
    <2>1. /\ GoodStore(d, now, touched \ jobs, (putOff \ jobs) \cup plan.deferred)
          /\ DOMAIN d = DOMAIN a /\ \A j \in DOMAIN a : d[j].mark = a[j].mark
      BY <1>2, <1>3, <1>4, DeferredStore
    <2> QED
      BY <1>1, <2>1
  <1>6. /\ GoodStore(mem', now, touched', putOff') /\ DOMAIN mem' = DOMAIN d
        /\ \A j \in DOMAIN d : mem'[j].mark # None => d[j].mark # None
    BY <1>2, <1>3, <1>5, MaintainedStore
  <1>7. ExecsOK' /\ \A e \in execs \ Of("catchup") : \E g \in execs' : g.job = e.job
    <2>1. running' <=> \E e \in execs \ Of("catchup") : e.via = "tick"
      BY <1>1 DEF SInv, ExecsOK, Of
    <2> QED
      BY <1>1, <2>1, EndedExecs DEF SInv
  <1>8. Shapes'
    BY <1>1 DEF SInv, Shapes
  <1>9. \A j \in DOMAIN mem' : mem'[j].mark # None => \E e \in execs' : e.job = j
    BY <1>4, <1>5, <1>6, <1>7
  <1> QED
    BY <1>1, <1>6, <1>7, <1>8, <1>9, WrittenStep

LEMMA StartArmsS == SInv /\ StartArms => SInv'
  <1> SUFFICES ASSUME SInv, StartArms PROVE SInv'
    OBVIOUS
  <1>1. /\ phase = "arming" /\ mem' = RecomputeNextRuns(disk) /\ disk' = mem'
        /\ timer' = HasNextWake(mem') /\ execs' = Reloaded(execs) /\ phase' = "started"
        /\ UNCHANGED <<now, kind, unused, running, plan, crashes, requests, touched, putOff>>
    BY DEF StartArms
  <1>2. now \in Nat /\ kind \in Kinds /\ GoodStore(disk, now, touched, putOff)
    BY ShapesNow DEF SInv, Stores
  <1>3. /\ GoodStore(mem', now, touched, putOff) /\ DOMAIN mem' = DOMAIN disk
        /\ \A j \in DOMAIN disk : mem'[j].mark # None => disk[j].mark # None
    BY <1>1, <1>2, RecomputedStore
  <1>4. ExecsOK' /\ \A e \in execs : \E g \in execs' : g.job = e.job
    BY <1>1, EndedExecs DEF SInv, ExecsOK
  <1>5. Shapes'
    BY <1>1 DEF SInv, Shapes, HasNextWake
  <1>6. ASSUME NEW j \in DOMAIN mem', mem'[j].mark # None PROVE \E e \in execs' : e.job = j
    <2>1. PICK e \in execs : e.job = j
      BY <1>1, <1>3, <1>6 DEF SInv, MarksEnd, HasExec
    <2> QED
      BY <1>4, <2>1
  <1> QED
    BY <1>1, <1>3, <1>4, <1>5, <1>6, WrittenStep

LEMMA CrashS == SInv /\ Crash => SInv'
  <1> SUFFICES ASSUME SInv, Crash PROVE SInv'
    OBVIOUS
  <1>1. /\ phase' = "down" /\ plan' = NoPlan /\ ~timer' /\ ~running'
        /\ mem' = <<>> /\ execs' = {} /\ crashes' = crashes + 1 /\ crashes < MaxCrashes
        /\ timer' = FALSE /\ running' = FALSE
        /\ UNCHANGED <<now, kind, disk, unused, requests, touched, putOff>>
    BY DEF Crash
  <1>2. DOMAIN mem' = {}
    BY <1>1
  <1>3. GoodStore(disk, now, touched, putOff)
    BY DEF SInv, Stores
  <1>4. Stores'
    BY <1>1, <1>2, <1>3 DEF Stores, GoodStore, RecordOK, Almost, Planned, Over, Ahead
  <1>5. Shapes'
    <2>1. plan' \in [skip : SUBSET Jobs, deferred : SUBSET Jobs]
      BY <1>1 DEF NoPlan
    <2>2. crashes' \in 0..MaxCrashes
      BY <1>1, CronAssumption DEF SInv, Shapes
    <2> QED
      BY <1>1, <2>1, <2>2 DEF SInv, Shapes
  <1> QED
    BY <1>1, <1>4, <1>5 DEF SInv, ExecsOK, InStep, MarksEnd, TimerSet

-----------------------------------------------------------------------------
(* Ticks and requests. *)

\* The memory is repaired or marked, and perhaps written.
LEMMA MemoryStep ==
    ASSUME SInv, Shapes', ExecsOK', disk' \in {disk, mem'}, phase # "down",
           UNCHANGED <<now, kind, touched, putOff, phase, timer, running>>,
           GoodStore(mem', now, touched, putOff), DOMAIN mem' = DOMAIN mem,
           \A j \in DOMAIN mem : Same(mem'[j], mem[j]),
           \A j \in DOMAIN mem : mem'[j].mark # None => \E e \in execs' : e.job = j,
           \A e \in execs : \E f \in execs' : f.job = e.job
    PROVE  SInv'
  <1>1. GoodStore(disk, now, touched, putOff)
    BY DEF SInv, Stores
  <1>2. Stores'
    <2>1. GoodStore(disk', now', touched', putOff')
      BY <1>1
    <2> QED
      BY <2>1 DEF Stores, GoodStore, RecordOK, Almost, Planned, Over, Ahead
  <1>3. InStep'
    BY DEF SInv, InStep, Same, Alike
  <1>4. MarksEnd'
    <2>1. \A j \in DOMAIN disk : disk[j].mark # None => \E f \in execs' : f.job = j
      BY DEF SInv, MarksEnd, HasExec
    <2>2. CASE disk' = disk
      BY <2>1, <2>2 DEF MarksEnd, HasExec
    <2>3. CASE disk' = mem'
      BY <2>3 DEF MarksEnd, HasExec
    <2> QED
      BY <2>2, <2>3
  <1>5. TimerSet'
    <2>1. HasNextWake(mem') => HasNextWake(mem)
      BY DEF HasNextWake, Same, Alike
    <2>2. CASE disk' = disk
      BY <2>1, <2>2 DEF SInv, TimerSet, HasNextWake
    <2>3. CASE disk' = mem'
      BY <2>1, <2>3 DEF SInv, TimerSet, HasNextWake
    <2> QED
      BY <2>2, <2>3
  <1> QED
    BY <1>2, <1>3, <1>4, <1>5 DEF SInv

LEMMA TimerFiresS == SInv /\ DownIsIdle /\ TimerFires => SInv'
  <1> SUFFICES ASSUME SInv, DownIsIdle, TimerFires PROVE SInv'
    OBVIOUS
  <1> DEFINE due == {j \in DOMAIN disk : IsRunnable(j, disk[j])}
  <1>1. /\ phase # "down" /\ ~running /\ disk' = mem' /\ timer
        /\ UNCHANGED <<now, kind, unused, phase, plan, crashes, requests, touched, putOff>>
    BY DEF TimerFires, DownIsIdle
  <1>2. now \in Nat /\ kind \in Kinds /\ GoodStore(disk, now, touched, putOff)
    BY ShapesNow DEF SInv, Stores
  <1>3. CASE due = {}
    <2>1. /\ mem' = Maintained(disk, TRUE) /\ timer' = HasNextWake(mem')
          /\ execs' = Reloaded(execs) /\ UNCHANGED running
      BY <1>3 DEF TimerFires
    <2>2. /\ GoodStore(mem', now, touched, putOff) /\ DOMAIN mem' = DOMAIN disk
          /\ \A j \in DOMAIN disk : mem'[j].mark # None => disk[j].mark # None
      BY <1>2, <2>1, MaintainedStore
    <2>3. ExecsOK' /\ \A e \in execs : \E g \in execs' : g.job = e.job
      BY <1>1, <2>1, EndedExecs DEF SInv, ExecsOK
    <2>4. Shapes'
      BY <1>1, <2>1 DEF SInv, Shapes, HasNextWake
    <2>5. ASSUME NEW j \in DOMAIN mem', mem'[j].mark # None PROVE \E e \in execs' : e.job = j
      <3>1. PICK e \in execs : e.job = j
        BY <1>1, <2>2, <2>5 DEF SInv, MarksEnd, HasExec
      <3> QED
        BY <2>3, <3>1
    <2> QED
      BY <1>1, <2>1, <2>2, <2>3, <2>4, <2>5, WrittenStep
  <1>4. CASE due # {}
    <2>1. /\ mem' = Marked(disk, due) /\ timer' = TRUE /\ running' = TRUE
          /\ execs' = Reloaded(execs) \cup {Exec(j, "tick", "queued", None) : j \in due}
      BY <1>4 DEF TimerFires
    <2>2. due \subseteq Jobs
      BY <1>2 DEF GoodStore
    <2> HIDE DEF due
    <2>3. /\ GoodStore(mem', now, touched, putOff) /\ DOMAIN mem' = DOMAIN disk
          /\ \A j \in DOMAIN disk : j \notin due => mem'[j] = disk[j]
      BY <1>2, <2>1, MarkedStore
    <2>4. \A j \in due : /\ ExecOK(Exec(j, "tick", "queued", None), now)
                         /\ Exec(j, "tick", "queued", None).via = "tick"
                         /\ Exec(j, "tick", "queued", None).job = j
      BY <1>2, <2>2, BegunExec DEF Exec
    <2>5. /\ \A g \in Reloaded(execs) : ExecOK(g, now)
          /\ \A e \in execs : \E g \in Reloaded(execs) : g.job = e.job
      <3>1. \A e \in execs : ExecOK(e, now)
        BY DEF SInv, ExecsOK
      <3> QED
        BY <3>1, ReloadedExecs
    <2>6. \A g \in execs' : ExecOK(g, now)
      BY <2>1, <2>4, <2>5
    <2>7. \E e \in execs' : e.via = "tick"
      BY <1>4, <2>1, <2>4
    <2>8. ExecsOK'
      BY <1>1, <2>1, <2>6, <2>7 DEF ExecsOK, ExecOK
    <2>9. Shapes'
      BY <1>1, <2>1 DEF SInv, Shapes
    <2>10. ASSUME NEW j \in DOMAIN mem', mem'[j].mark # None PROVE \E e \in execs' : e.job = j
      <3>1. CASE j \in due
        BY <2>1, <2>4, <3>1
      <3>2. CASE j \notin due
        <4>1. PICK e \in execs : e.job = j
          BY <1>1, <2>3, <2>10, <3>2 DEF SInv, MarksEnd, HasExec
        <4> QED
          BY <2>1, <2>5, <4>1
      <3> QED
        BY <3>1, <3>2
    <2> QED
      BY <1>1, <2>1, <2>3, <2>8, <2>9, <2>10, WrittenStep
  <1> QED
    BY <1>3, <1>4

LEMMA TickEndsS == SInv /\ DownIsIdle /\ TickEnds => SInv'
  <1> SUFFICES ASSUME SInv, DownIsIdle, TickEnds PROVE SInv'
    OBVIOUS
  <1> DEFINE jobs == JobsOf(Of("tick"))
             a == Applied(disk, Of("tick"))
  <1>1. /\ phase # "down" /\ \A e \in Of("tick") : e.state = "ended"
        /\ mem' = Maintained(a, FALSE) /\ disk' = mem'
        /\ execs' = Reloaded(execs \ Of("tick")) /\ running' = FALSE
        /\ timer' = HasNextWake(mem') /\ touched' = touched \ jobs /\ putOff' = putOff \ jobs
        /\ UNCHANGED <<now, kind, unused, phase, plan, crashes, requests>>
    BY DEF TickEnds, DownIsIdle, Settled, JobsOf
  <1>2. now \in Nat /\ kind \in Kinds
    BY ShapesNow DEF SInv
  <1>3. /\ GoodStore(a, now, touched \ jobs, putOff \ jobs)
        /\ \A j \in DOMAIN a : a[j].mark # None => \E e \in execs \ Of("tick") : e.job = j
    BY <1>1, OutcomesS
  <1> HIDE DEF a, jobs
  <1>4. /\ GoodStore(mem', now, touched \ jobs, putOff \ jobs) /\ DOMAIN mem' = DOMAIN a
        /\ \A j \in DOMAIN a : mem'[j].mark # None => a[j].mark # None
    BY <1>1, <1>2, <1>3, MaintainedStore
  <1>5. ExecsOK' /\ \A e \in execs \ Of("tick") : \E g \in execs' : g.job = e.job
    <2>1. ~\E e \in execs \ Of("tick") : e.via = "tick"
      BY DEF Of
    <2> QED
      BY <1>1, <2>1, EndedExecs DEF SInv
  <1>6. Shapes'
    BY <1>1 DEF SInv, Shapes, HasNextWake
  <1>7. \A j \in DOMAIN mem' : mem'[j].mark # None => \E e \in execs' : e.job = j
    BY <1>3, <1>4, <1>5
  <1> QED
    BY <1>1, <1>4, <1>5, <1>6, <1>7, WrittenStep

LEMMA ExecStaysOK ==
    ASSUME SInv, NEW e \in execs, NEW f, ExecOK(f, now), f.job = e.job, f.via = e.via,
           execs' = (execs \ {e}) \cup {f}, UNCHANGED <<now, running>>
    PROVE  ExecsOK' /\ \A d \in execs : \E g \in execs' : g.job = d.job
  <1>1. \A g \in execs' : ExecOK(g, now')
    BY DEF SInv, ExecsOK
  <1>2. running' <=> \E g \in execs' : g.via = "tick"
    BY DEF SInv, ExecsOK
  <1>3. \A d \in execs : \E g \in execs' : g.job = d.job
    OBVIOUS
  <1> QED
    BY <1>1, <1>2, <1>3 DEF ExecsOK, ExecOK

LEMMA ExecBeginsS == ASSUME SInv, DownIsIdle, NEW e \in execs, ExecBegins(e) PROVE SInv'
  <1> DEFINE f == [e EXCEPT !.state = "running", !.start = now]
  <1>1. /\ phase # "down" /\ e.state = "queued"
        /\ execs' = (execs \ {e}) \cup {f} /\ mem' \in {mem, Marked(mem, {e.job})}
        /\ UNCHANGED <<now, kind, disk, unused, phase, timer, running, plan, crashes, requests,
                       touched, putOff>>
    BY DEF ExecBegins, control, DownIsIdle
  <1>2. now \in Nat /\ GoodStore(mem, now, touched, putOff)
    BY ShapesNow DEF SInv, Stores
  <1>3. ExecOK(f, now) /\ f.job = e.job /\ f.via = e.via
    <2>1. ExecOK(e, now) /\ e \in Execution
      BY DEF SInv, ExecsOK, ExecOK
    <2>2. /\ f \in Execution /\ f.job = e.job /\ f.via = e.via /\ f.state = "running"
          /\ f.start = now /\ f.live = e.live
      BY <1>2, <2>1 DEF Execution
    <2> HIDE DEF f
    <2> QED
      BY <1>2, <2>1, <2>2 DEF ExecOK
  <1> HIDE DEF f
  <1>4. ExecsOK' /\ \A d \in execs : \E g \in execs' : g.job = d.job
    BY <1>1, <1>3, ExecStaysOK
  <1>5. /\ GoodStore(mem', now, touched, putOff) /\ DOMAIN mem' = DOMAIN mem
        /\ \A j \in DOMAIN mem : /\ Same(mem'[j], mem[j])
                                 /\ j # e.job => mem'[j] = mem[j]
    <2>1. CASE mem' = mem
      BY <1>2, <2>1 DEF Same, Alike
    <2>2. CASE mem' = Marked(mem, {e.job})
      BY <1>2, <2>2, MarkedStore
    <2> QED
      BY <1>1, <2>1, <2>2
  <1>6. ASSUME NEW j \in DOMAIN mem, mem'[j].mark # None PROVE \E g \in execs' : g.job = j
    <2>1. CASE j = e.job
      <3>1. f \in execs'
        BY <1>1
      <3> QED
        BY <1>3, <2>1, <3>1
    <2>2. CASE j # e.job
      BY <1>1, <1>4, <1>5, <1>6, <2>2 DEF SInv, MarksEnd, HasExec
    <2> QED
      BY <2>1, <2>2
  <1>7. Shapes'
    BY <1>1 DEF SInv, Shapes
  <1>8. disk' \in {disk, mem'}
    BY <1>1
  <1>9. \A j \in DOMAIN mem : Same(mem'[j], mem[j])
    BY <1>5
  <1> QED
    BY <1>1, <1>4, <1>5, <1>6, <1>7, <1>8, <1>9, MemoryStep

LEMMA ExecEndsS ==
    ASSUME SInv, DownIsIdle, NEW e \in execs, NEW outcome \in Outcomes, ExecEnds(e, outcome)
    PROVE  SInv'
  <1> DEFINE f == [e EXCEPT !.state = "ended", !.end = now, !.outcome = outcome]
  <1>1. /\ phase # "down" /\ e.state = "running" /\ execs' = (execs \ {e}) \cup {f}
        /\ UNCHANGED <<now, kind, disk, mem, unused, phase, timer, running, plan, crashes,
                       requests, touched, putOff>>
    BY DEF ExecEnds, control, store, DownIsIdle
  <1>2. now \in Nat
    BY ShapesNow DEF SInv
  <1>3. ExecOK(f, now) /\ f.job = e.job /\ f.via = e.via
    <2>1. ExecOK(e, now) /\ e \in Execution
      BY DEF SInv, ExecsOK, ExecOK
    <2>2. /\ f \in Execution /\ f.job = e.job /\ f.via = e.via /\ f.state = "ended"
          /\ f.start = e.start /\ f.end = now /\ f.live = e.live /\ f.outcome = outcome
      BY <1>2, <2>1 DEF Execution
    <2> HIDE DEF f
    <2> QED
      BY <1>1, <1>2, <2>1, <2>2 DEF ExecOK
  <1> HIDE DEF f
  <1>4. ExecsOK' /\ \A d \in execs : \E g \in execs' : g.job = d.job
    BY <1>1, <1>3, ExecStaysOK
  <1>5. Shapes'
    BY <1>1 DEF SInv, Shapes
  <1> QED
    BY <1>1, <1>2, <1>4, <1>5, UnwrittenStep

LEMMA ReadsS == SInv /\ (ListJobs \/ RefuseManualRun) => SInv'
  <1> SUFFICES ASSUME SInv, ListJobs \/ RefuseManualRun PROVE SInv'
    OBVIOUS
  <1>1. /\ phase # "down" /\ mem' = Maintained(mem, FALSE) /\ disk' \in {disk, mem'}
        /\ UNCHANGED <<now, kind, unused, phase, timer, running, plan, execs, crashes, requests,
                       touched, putOff>>
    BY DEF ListJobs, RefuseManualRun, control
  <1>2. now \in Nat /\ kind \in Kinds /\ GoodStore(mem, now, touched, putOff)
    BY ShapesNow DEF SInv, Stores
  <1>3. /\ GoodStore(mem', now, touched, putOff) /\ DOMAIN mem' = DOMAIN mem
        /\ \A j \in DOMAIN mem : /\ mem'[j].mark # None => mem[j].mark # None
                                 /\ Same(mem'[j], mem[j])
    BY <1>1, <1>2, MaintainedStore
  <1>4. Shapes' /\ ExecsOK'
    BY <1>1 DEF SInv, Shapes, ExecsOK, ExecOK
  <1>5. \A j \in DOMAIN mem : mem'[j].mark # None => \E e \in execs' : e.job = j
    BY <1>1, <1>3 DEF SInv, MarksEnd, HasExec
  <1> QED
    BY <1>1, <1>3, <1>4, <1>5, MemoryStep

LEMMA TimePassesS == SInv /\ TimePasses => SInv'
  <1> SUFFICES ASSUME SInv, TimePasses PROVE SInv'
    OBVIOUS
  <1>1. /\ now < MaxTime /\ now' = now + 1
        /\ UNCHANGED <<kind, disk, mem, unused, phase, timer, running, plan, execs, crashes,
                       requests, touched, putOff>>
    BY DEF TimePasses, store, control
  <1>2. now \in Nat
    BY ShapesNow DEF SInv
  <1>3. Shapes'
    BY <1>1, CronAssumption DEF SInv, Shapes
  <1>4. ExecsOK'
    BY <1>1, <1>2 DEF SInv, ExecsOK, ExecOK
  <1> QED
    BY <1>1, <1>2, <1>3, <1>4, UnwrittenStep

LEMMA EditedRecord ==
    ASSUME NEW j, NEW r, NEW t, NEW edited, NEW off, NEW more, edited \subseteq more,
           RecordOK(j, r, t, edited, off)
    PROVE  RecordOK(j, r, t, more, off)
  BY DEF RecordOK, Almost, Over, Backed

LEMMA AddS == ASSUME SInv, NEW j \in Jobs, NEW time \in Times, Add(j, time) PROVE SInv'
  <1> DEFINE new == NewJob(IF kind[j] = "at" THEN time ELSE now)
             added == [new EXCEPT !.next = ComputeJobNextRunAt(j, new, now)]
             s == [k \in DOMAIN mem \cup {j} |-> IF k = j THEN added ELSE mem[k]]
  <1>1. /\ mem' = RecomputeNextRuns(s) /\ disk' = mem' /\ timer' = HasNextWake(mem')
        /\ unused' = unused \ {j} /\ requests < MaxRequests /\ requests' = requests + 1
        /\ phase # "down"
        /\ UNCHANGED <<now, kind, phase, running, execs, plan, crashes, touched, putOff>>
    BY DEF Add, Persisted, Request
  <1>2. now \in Nat /\ kind \in Kinds /\ GoodStore(mem, now, touched, putOff)
    BY ShapesNow DEF SInv, Stores
  <1>3. /\ new \in JobRecord /\ new.enabled /\ new.lastRun = None /\ new.mark = None
        /\ new.status = "none" /\ new.errors = 0
    BY <1>2, CronAssumption DEF NewJob, JobRecord
  <1> HIDE DEF new
  <1>4. /\ ComputeJobNextRunAt(j, new, now) \in Nat
    BY <1>2, <1>3, ComputedResult
  <1>5. /\ added \in JobRecord /\ added.enabled /\ added.lastRun = None /\ added.mark = None
        /\ added.status = "none" /\ added.next \in Nat
    BY <1>3, <1>4 DEF JobRecord
  <1> HIDE DEF added
  <1>6. RecordOK(j, added, now, touched, putOff)
    BY <1>5, CronAssumption DEF RecordOK, Almost, Timed, Planned, Over, Backed, Ahead
  <1>7. /\ DOMAIN s = DOMAIN mem \cup {j}
        /\ \A k \in DOMAIN s : s[k] = IF k = j THEN added ELSE mem[k]
    OBVIOUS
  <1> HIDE DEF s
  <1>8. GoodStore(s, now, touched, putOff)
    BY <1>2, <1>6, <1>7 DEF GoodStore
  <1>9. /\ GoodStore(mem', now, touched, putOff) /\ DOMAIN mem' = DOMAIN s
        /\ \A k \in DOMAIN s : mem'[k].mark # None => s[k].mark # None
    BY <1>1, <1>2, <1>8, RecomputedStore
  <1>10. ASSUME NEW k \in DOMAIN mem', mem'[k].mark # None PROVE \E e \in execs' : e.job = k
    <2>1. k \in DOMAIN mem /\ mem[k].mark # None
      BY <1>5, <1>7, <1>9, <1>10
    <2> QED
      BY <1>1, <2>1 DEF SInv, MarksEnd, HasExec
  <1>11. ExecsOK'
    BY <1>1 DEF SInv, ExecsOK, ExecOK
  <1>12. Shapes'
    <2>1. requests' \in 0..MaxRequests
      BY <1>1, CronAssumption DEF SInv, Shapes
    <2> QED
      BY <1>1, <2>1 DEF SInv, Shapes, HasNextWake
  <1> QED
    BY <1>1, <1>9, <1>10, <1>11, <1>12, WrittenStep

LEMMA UpdateS ==
    ASSUME SInv, NEW j \in DOMAIN mem, NEW time \in Times \cup {mem[j].time},
           NEW enabled \in BOOLEAN, Update(j, enabled, time)
    PROVE  SInv'
  <1> DEFINE r == [mem[j] EXCEPT !.enabled = enabled, !.time = time]
             on == [r EXCEPT !.next = ComputeJobNextRunAt(j, r, now)]
             off == [r EXCEPT !.next = None, !.mark = None]
             x == IF enabled THEN on ELSE off
  <1>1. /\ mem' = [mem EXCEPT ![j] = x] /\ disk' = mem' /\ timer' = HasNextWake(mem')
        /\ touched' = touched \cup {j} /\ requests < MaxRequests /\ requests' = requests + 1
        /\ phase # "down"
        /\ UNCHANGED <<now, kind, unused, phase, running, execs, plan, crashes, putOff>>
    BY DEF Update, Persisted, Request
  <1>2. now \in Nat /\ kind \in Kinds /\ GoodStore(mem, now, touched, putOff)
    BY ShapesNow DEF SInv, Stores
  <1>3. /\ j \in Jobs /\ mem[j] \in JobRecord /\ Timed(mem[j], now) /\ time \in Nat
    BY <1>2, CronAssumption DEF GoodStore, RecordOK, Almost, JobRecord
  <1>4. /\ r \in JobRecord /\ r.enabled = enabled /\ r.mark = mem[j].mark
        /\ r.lastRun = mem[j].lastRun /\ r.status = mem[j].status
    BY <1>3 DEF JobRecord
  <1> HIDE DEF r
  <1>5. ASSUME enabled
        PROVE  RecordOK(j, x, now, touched', putOff) /\ x.mark \in {mem[j].mark, None}
    <2> DEFINE c == ComputeJobNextRunAt(j, r, now)
    <2>1. /\ c \in Nat \cup {None}
          /\ c = None <=> \/ ~r.enabled
                          \/ kind[j] = "at" /\ r.status = "ok" /\ ~Before(r.lastRun, r.time)
          /\ kind[j] = "at" /\ c # None => c = r.time
          /\ kind[j] # "at" /\ c # None /\ r.lastRun # None /\ r.lastRun <= now
             => c > r.lastRun
      BY <1>2, <1>3, <1>4, ComputedResult
    <2>2. x = [r EXCEPT !.next = c]
      BY <1>5
    <2> HIDE DEF c, x
    <2>3. /\ x \in JobRecord /\ x.enabled = r.enabled /\ x.mark = r.mark /\ x.next = c
          /\ x.lastRun = r.lastRun /\ x.status = r.status /\ x.time = r.time
      BY <1>4, <2>1, <2>2 DEF JobRecord
    <2>4. Timed(x, now)
      BY <1>3, <1>4, <2>3 DEF Timed
    <2>5. Planned(j, x)
      BY <1>5, <2>1, <2>3 DEF Planned
    <2>6. Over(j, x, touched') /\ Backed(j, x, now, touched' \cup putOff)
      BY <1>1 DEF Over, Backed
    <2>7. Ahead(j, x)
      <3>1. x.lastRun # None => x.lastRun \in Nat /\ x.lastRun <= now
        BY <2>3, <2>4 DEF Timed, JobRecord
      <3> QED
        BY <2>1, <2>3, <3>1, CronAssumption DEF Ahead
    <2>8. RecordOK(j, x, now, touched', putOff) /\ x.mark = mem[j].mark
      BY <1>4, <2>3, <2>4, <2>5, <2>6, <2>7 DEF RecordOK, Almost
    <2> QED
      BY <2>8
  <1>6. ASSUME ~enabled
        PROVE  RecordOK(j, x, now, touched', putOff) /\ x.mark \in {mem[j].mark, None}
    <2>1. x = [r EXCEPT !.next = None, !.mark = None]
      BY <1>6
    <2> HIDE DEF x
    <2>2. /\ x \in JobRecord /\ ~x.enabled /\ x.mark = None
          /\ x.lastRun = r.lastRun /\ x.status = r.status
      BY <1>4, <1>6, <2>1 DEF JobRecord
    <2>3. RecordOK(j, x, now, touched', putOff)
      BY <1>3, <1>4, <2>2 DEF RecordOK, Almost, Timed, Planned, Over, Backed, Ahead
    <2> QED
      BY <2>2, <2>3
  <1> HIDE DEF x
  <1>7. RecordOK(j, x, now, touched', putOff) /\ x.mark \in {mem[j].mark, None}
    BY <1>5, <1>6
  <1>8. /\ DOMAIN mem' = DOMAIN mem
        /\ \A k \in DOMAIN mem : mem'[k] = IF k = j THEN x ELSE mem[k]
    BY <1>1
  <1>9. GoodStore(mem', now', touched', putOff')
    <2>1. ASSUME NEW k \in DOMAIN mem', k # j PROVE RecordOK(k, mem'[k], now, touched', putOff)
      <3>1. RecordOK(k, mem[k], now, touched, putOff)
        BY <1>2, <1>8 DEF GoodStore
      <3>2. touched \subseteq touched'
        BY <1>1
      <3>3. RecordOK(k, mem[k], now, touched', putOff)
        BY <3>1, <3>2, EditedRecord
      <3> QED
        BY <1>8, <2>1, <3>3
    <2> QED
      BY <1>1, <1>2, <1>7, <1>8, <2>1 DEF GoodStore
  <1>10. ASSUME NEW k \in DOMAIN mem', mem'[k].mark # None PROVE \E e \in execs' : e.job = k
    <2>1. k \in DOMAIN mem /\ mem[k].mark # None
      BY <1>7, <1>8, <1>10
    <2> QED
      BY <1>1, <2>1 DEF SInv, MarksEnd, HasExec
  <1>11. ExecsOK'
    BY <1>1 DEF SInv, ExecsOK, ExecOK
  <1>12. Shapes'
    <2>1. requests' \in 0..MaxRequests
      BY <1>1, CronAssumption DEF SInv, Shapes
    <2> QED
      BY <1>1, <1>3, <2>1 DEF SInv, Shapes, HasNextWake
  <1> QED
    BY <1>1, <1>9, <1>10, <1>11, <1>12, WrittenStep

LEMMA RemoveS == ASSUME SInv, NEW j \in Jobs, Remove(j) PROVE SInv'
  <1>1. /\ mem' = [k \in DOMAIN mem \ {j} |-> mem[k]] /\ disk' = mem'
        /\ timer' = HasNextWake(mem') /\ requests < MaxRequests /\ requests' = requests + 1
        /\ phase # "down"
        /\ UNCHANGED <<now, kind, unused, phase, running, execs, plan, crashes, touched, putOff>>
    BY DEF Remove, Persisted, Request
  <1>2. GoodStore(mem, now, touched, putOff)
    BY DEF SInv, Stores
  <1>3. DOMAIN mem' \subseteq DOMAIN mem /\ \A k \in DOMAIN mem' : mem'[k] = mem[k]
    BY <1>1
  <1>4. GoodStore(mem', now', touched', putOff')
    BY <1>1, <1>2, <1>3 DEF GoodStore
  <1>5. \A k \in DOMAIN mem' : mem'[k].mark # None => \E e \in execs' : e.job = k
    BY <1>1, <1>3 DEF SInv, MarksEnd, HasExec
  <1>6. ExecsOK'
    BY <1>1 DEF SInv, ExecsOK, ExecOK
  <1>7. Shapes'
    <2>1. requests' \in 0..MaxRequests
      BY <1>1, CronAssumption DEF SInv, Shapes
    <2> QED
      BY <1>1, <2>1 DEF SInv, Shapes, HasNextWake
  <1> QED
    BY <1>1, <1>4, <1>5, <1>6, <1>7, WrittenStep

LEMMA SameTwice ==
    ASSUME NEW r, NEW q, NEW x, Same(r, q), Same(q, x)
    PROVE  Same(r, x)
  BY DEF Same, Alike

LEMMA PrepareS ==
    ASSUME SInv, NEW j \in Jobs, NEW mode \in {"due", "force"}, PrepareManualRun(j, mode)
    PROVE  SInv'
  <1> DEFINE s == Maintained(mem, FALSE)
             f == Exec(j, mode, "running", now)
  <1>1. /\ mem' = Marked(s, {j}) /\ disk' = mem' /\ execs' = execs \cup {f}
        /\ requests < MaxRequests /\ requests' = requests + 1 /\ phase # "down"
        /\ UNCHANGED <<now, kind, unused, phase, timer, running, plan, crashes, touched, putOff>>
    BY DEF PrepareManualRun, Request, control
  <1>2. now \in Nat /\ kind \in Kinds /\ GoodStore(mem, now, touched, putOff)
    BY ShapesNow DEF SInv, Stores
  <1>3. ExecOK(f, now) /\ f.job = j /\ f.via = mode
    BY <1>2, BegunExec DEF Exec
  <1>4. /\ GoodStore(s, now, touched, putOff) /\ DOMAIN s = DOMAIN mem
        /\ \A k \in DOMAIN mem : /\ s[k].mark # None => mem[k].mark # None
                                 /\ Same(s[k], mem[k])
    BY <1>2, MaintainedStore
  <1> HIDE DEF s, f
  <1>5. /\ GoodStore(mem', now, touched, putOff) /\ DOMAIN mem' = DOMAIN s
        /\ \A k \in DOMAIN s : /\ Same(mem'[k], s[k])
                               /\ k \notin {j} => mem'[k] = s[k]
    BY <1>1, <1>2, <1>4, MarkedStore
  <1>6. \A k \in DOMAIN mem : Same(mem'[k], mem[k])
    BY <1>4, <1>5, SameTwice
  <1>7. ASSUME NEW k \in DOMAIN mem, mem'[k].mark # None PROVE \E e \in execs' : e.job = k
    <2>1. CASE k = j
      BY <1>1, <1>3, <2>1
    <2>2. CASE k # j
      <3>1. mem[k].mark # None
        BY <1>4, <1>5, <1>7, <2>2
      <3>2. PICK e \in execs : e.job = k
        BY <1>1, <3>1 DEF SInv, MarksEnd, HasExec
      <3> QED
        BY <1>1, <3>2
    <2> QED
      BY <2>1, <2>2
  <1>8. ExecsOK'
    <2>1. \A e \in execs' : ExecOK(e, now')
      BY <1>1, <1>3 DEF SInv, ExecsOK
    <2>2. running' <=> \E e \in execs' : e.via = "tick"
      BY <1>1, <1>3 DEF SInv, ExecsOK
    <2> QED
      BY <2>1, <2>2 DEF ExecsOK, ExecOK
  <1>9. Shapes'
    <2>1. requests' \in 0..MaxRequests
      BY <1>1, CronAssumption DEF SInv, Shapes
    <2> QED
      BY <1>1, <2>1 DEF SInv, Shapes
  <1>10. disk' \in {disk, mem'} /\ DOMAIN mem' = DOMAIN mem
         /\ \A e \in execs : \E g \in execs' : g.job = e.job
    BY <1>1, <1>4, <1>5
  <1> QED
    BY <1>1, <1>5, <1>6, <1>7, <1>8, <1>9, <1>10, MemoryStep

\* What the outcome of a manual run makes of the store.
LEMMA FinishResult ==
    ASSUME SInv, DownIsIdle, NEW e \in execs, FinishManualRun(e), e.job \in DOMAIN mem
    PROVE  /\ execs' = Reloaded(execs \ {e}) /\ disk' = mem' /\ timer' = HasNextWake(mem')
           /\ GoodStore(mem', now, touched \ {e.job}, putOff \ {e.job})
           /\ DOMAIN mem' \subseteq DOMAIN disk
           /\ \A j \in DOMAIN mem' :
                /\ mem'[j].mark # None => j # e.job /\ disk[j].mark # None
                /\ j # e.job /\ WaitsPositive /\ disk[j].enabled /\ disk[j].next # None
                   => mem'[j].next = disk[j].next \/ j \in touched
  <1> DEFINE job == e.job
             r == ApplyJobResult(job, mem[job], e)
             s == IF Deletes(job, e) THEN [j \in DOMAIN disk \ {job} |-> disk[j]]
                  ELSE [j \in DOMAIN disk |->
                          IF j = job THEN [r EXCEPT !.time = disk[j].time] ELSE disk[j]]
             E == touched \ {job}
             O == putOff \ {job}
  <1>1. /\ e.via \in {"due", "force"} /\ e.state = "ended" /\ phase # "down"
        /\ execs' = Reloaded(execs \ {e})
        /\ mem' = Maintained(s, TRUE) /\ disk' = mem' /\ timer' = HasNextWake(mem')
    BY DEF FinishManualRun, Persisted, DownIsIdle
  <1>2. /\ now \in Nat /\ kind \in Kinds
        /\ GoodStore(mem, now, touched, putOff) /\ GoodStore(disk, now, touched, putOff)
    BY ShapesNow DEF SInv, Stores
  <1>3. job \in Jobs /\ mem[job] \in JobRecord /\ ExecOK(e, now)
    BY <1>2 DEF GoodStore, RecordOK, Almost, SInv, ExecsOK
  <1>4. job \in DOMAIN disk /\ disk[job].time = mem[job].time
    BY <1>1 DEF SInv, InStep, Same, Alike
  <1>5. /\ Almost(job, r, now, E, O) /\ r.mark = None /\ r.time = mem[job].time
        /\ Ahead(job, r) \/ Overdue(r)
    BY <1>1, <1>2, <1>3, AppliedRecord
  <1>6. [r EXCEPT !.time = disk[job].time] = r
    BY <1>4, <1>5 DEF Almost, JobRecord
  <1> HIDE DEF r
  <1>7. /\ DOMAIN s \subseteq DOMAIN disk
        /\ \A j \in DOMAIN s : s[j] = IF j = job THEN r ELSE disk[j]
    BY <1>6
  <1> HIDE DEF s
  <1>8. DOMAIN mem' = DOMAIN s
    BY <1>1 DEF Maintained
  <1>9. ASSUME NEW j \in DOMAIN s
        PROVE  /\ RecordOK(j, mem'[j], now, E, O)
               /\ mem'[j].mark # None => j # job /\ disk[j].mark # None
               /\ j # job /\ WaitsPositive /\ disk[j].enabled /\ disk[j].next # None
                  => mem'[j].next = disk[j].next \/ j \in touched
    <2>1. j \in DOMAIN disk /\ j \in Jobs /\ RecordOK(j, disk[j], now, touched, putOff)
      BY <1>2, <1>7 DEF GoodStore
    <2>2. CASE j = job
      <3>1. s[j] = r
        BY <1>7, <2>2
      <3>2. RecordOK(j, mem'[j], now, E, O) /\ (mem'[j].mark # None => s[j].mark # None)
        BY <1>1, <1>2, <1>5, <2>1, <2>2, <3>1, MaintainedRecord
      <3> QED
        BY <1>5, <2>2, <3>1, <3>2
    <2>3. CASE j # job
      <3>1. s[j] = disk[j]
        BY <1>7, <2>3
      <3>2. Almost(j, s[j], now, E, O) /\ Ahead(j, s[j])
        BY <2>1, <2>3, <3>1 DEF RecordOK, Almost, Over, Backed
      <3>3. /\ RecordOK(j, mem'[j], now, E, O) /\ (mem'[j].mark # None => s[j].mark # None)
            /\ s[j].enabled => \/ mem'[j].next = s[j].next
                               \/ /\ s[j].next # None
                                  /\ WaitsPositive /\ Ahead(j, s[j]) => j \in E
        <4>1. mem'[j] = Maintained(s, TRUE)[j]
          BY <1>1
        <4>2. /\ RecordOK(j, Maintained(s, TRUE)[j], now, E, O)
              /\ Maintained(s, TRUE)[j].mark # None => s[j].mark # None
              /\ s[j].enabled => \/ Maintained(s, TRUE)[j].next = s[j].next
                                 \/ /\ s[j].next # None
                                    /\ WaitsPositive /\ Ahead(j, s[j]) => j \in E
          BY <1>2, <2>1, <3>2, MaintainedRecord
        <4> QED
          BY <4>1, <4>2
      <3> QED
        BY <2>3, <3>1, <3>2, <3>3
    <2> QED
      BY <2>2, <2>3
  <1>10. GoodStore(mem', now, E, O)
    BY <1>2, <1>7, <1>8, <1>9 DEF GoodStore
  <1> QED
    BY <1>1, <1>7, <1>8, <1>9, <1>10

LEMMA FinishS == ASSUME SInv, DownIsIdle, NEW e \in execs, FinishManualRun(e) PROVE SInv'
  <1>1. /\ e.via \in {"due", "force"} /\ e.state = "ended" /\ phase # "down"
        /\ touched' = touched \ {e.job} /\ putOff' = putOff \ {e.job}
        /\ UNCHANGED <<now, kind, unused, phase, running, plan, crashes, requests>>
    BY DEF FinishManualRun, Settled, DownIsIdle
  <1>2. running <=> \E d \in execs \ {e} : d.via = "tick"
    BY <1>1 DEF SInv, ExecsOK
  <1>3. CASE e.job \in DOMAIN mem
    <2>1. /\ execs' = Reloaded(execs \ {e}) /\ disk' = mem' /\ timer' = HasNextWake(mem')
          /\ GoodStore(mem', now, touched', putOff') /\ DOMAIN mem' \subseteq DOMAIN disk
          /\ \A j \in DOMAIN mem' : mem'[j].mark # None => j # e.job /\ disk[j].mark # None
      BY <1>1, <1>3, FinishResult
    <2>2. ExecsOK' /\ \A d \in execs \ {e} : \E g \in execs' : g.job = d.job
      BY <1>1, <1>2, <2>1, EndedExecs DEF SInv
    <2>3. ASSUME NEW j \in DOMAIN mem', mem'[j].mark # None PROVE \E g \in execs' : g.job = j
      <3>1. PICK d \in execs : d.job = j
        BY <1>1, <2>1, <2>3 DEF SInv, MarksEnd, HasExec
      <3>2. d # e
        BY <2>1, <2>3, <3>1
      <3> QED
        BY <2>2, <3>1, <3>2
    <2>4. Shapes'
      BY <1>1, <2>1 DEF SInv, Shapes, HasNextWake
    <2> QED
      BY <1>1, <2>1, <2>2, <2>3, <2>4, WrittenStep
  <1>4. CASE e.job \notin DOMAIN mem
    <2>1. execs' = execs \ {e} /\ UNCHANGED <<disk, mem, timer>>
      BY <1>4 DEF FinishManualRun, store
    <2>2. e.job \notin DOMAIN disk
      BY <1>1, <1>4 DEF SInv, InStep
    <2>3. GoodStore(disk, now, touched', putOff') /\ GoodStore(mem, now, touched', putOff')
      BY <1>1, <1>4, <2>2 DEF SInv, Stores, GoodStore, RecordOK, Almost, Over, Backed
    <2>4. Stores'
      BY <1>1, <2>1, <2>3 DEF Stores, GoodStore, RecordOK, Almost, Planned, Over, Ahead
    <2>5. ExecsOK'
      BY <1>1, <1>2, <2>1 DEF SInv, ExecsOK, ExecOK
    <2>6. MarksEnd'
      <3>1. HasExec(disk) /\ HasExec(mem)
        BY <1>1 DEF SInv, MarksEnd
      <3>2. \A j \in DOMAIN disk : disk[j].mark # None => \E d \in execs' : d.job = j
        BY <2>1, <2>2, <3>1 DEF HasExec
      <3>3. \A j \in DOMAIN mem : mem[j].mark # None => \E d \in execs' : d.job = j
        BY <1>4, <2>1, <3>1 DEF HasExec
      <3> QED
        BY <2>1, <3>2, <3>3 DEF MarksEnd, HasExec
    <2>7. InStep' /\ TimerSet'
      BY <1>1, <2>1 DEF SInv, InStep, TimerSet, HasNextWake, Same, Alike
    <2>8. Shapes'
      BY <1>1, <2>1 DEF SInv, Shapes
    <2> QED
      BY <2>4, <2>5, <2>6, <2>7, <2>8 DEF SInv
  <1> QED
    BY <1>3, <1>4

-----------------------------------------------------------------------------
(* The invariant holds. *)

LEMMA InitS == Init => SInv
  <1> SUFFICES ASSUME Init PROVE SInv
    OBVIOUS
  <1>1. PICK times \in [Jobs -> Times] : disk = [j \in Jobs \ Fresh |->
                    LET r == NewJob(IF kind[j] = "at" THEN times[j] ELSE 0)
                    IN [r EXCEPT !.next = ComputeJobNextRunAt(j, r, 0)]]
    BY DEF Init
  <1>2. /\ now = 0 /\ kind \in Kinds /\ unused = Fresh /\ mem = <<>> /\ phase = "down"
        /\ plan = NoPlan /\ timer = FALSE /\ running = FALSE /\ execs = {} /\ crashes = 0
        /\ requests = 0 /\ touched = {} /\ putOff = {}
    BY DEF Init
  <1>3. ASSUME NEW j \in Jobs \ Fresh
        PROVE  RecordOK(j, disk[j], now, touched, putOff)
    <2> DEFINE new == NewJob(IF kind[j] = "at" THEN times[j] ELSE 0)
               added == [new EXCEPT !.next = ComputeJobNextRunAt(j, new, 0)]
    <2>1. times[j] \in Nat
      BY CronAssumption
    <2>2. /\ new \in JobRecord /\ new.enabled /\ new.lastRun = None /\ new.mark = None
          /\ new.status = "none" /\ new.errors = 0
      BY <2>1, CronAssumption DEF NewJob, JobRecord
    <2>3. disk[j] = added
      BY <1>1
    <2> HIDE DEF new
    <2>4. ComputeJobNextRunAt(j, new, 0) \in Nat
      BY <1>2, <2>2, ComputedResult
    <2>5. /\ added \in JobRecord /\ added.enabled /\ added.lastRun = None
          /\ added.status = "none" /\ added.next \in Nat
      BY <2>2, <2>4 DEF JobRecord
    <2> HIDE DEF added
    <2> QED
      BY <2>3, <2>5, CronAssumption DEF RecordOK, Almost, Timed, Planned, Over, Backed, Ahead
  <1>4. DOMAIN disk = Jobs \ Fresh
    BY <1>1
  <1>5. DOMAIN mem = {}
    BY <1>2
  <1>6. Stores
    BY <1>3, <1>4, <1>5 DEF Stores, GoodStore
  <1>7. Shapes
    <2>1. plan \in [skip : SUBSET Jobs, deferred : SUBSET Jobs]
      BY <1>2 DEF NoPlan
    <2>2. MaxTime \in Nat /\ MaxCrashes \in Nat /\ MaxRequests \in Nat /\ Fresh \subseteq Jobs
      BY CronAssumption
    <2>3. now \in 0..MaxTime /\ crashes \in 0..MaxCrashes /\ requests \in 0..MaxRequests
      BY <1>2, <2>2
    <2>4. unused \subseteq Jobs /\ touched \cup putOff \subseteq Jobs
      BY <1>2, <2>2
    <2> QED
      BY <1>2, <2>1, <2>3, <2>4 DEF Shapes
  <1> QED
    BY <1>2, <1>6, <1>7 DEF SInv, ExecsOK, InStep, MarksEnd, TimerSet

LEMMA NextS == SInv /\ DownIsIdle /\ Next => SInv'
  <1> SUFFICES ASSUME SInv, DownIsIdle, Next PROVE SInv'
    OBVIOUS
  <1>1. CASE StartLoads \/ PlanStartupCatchup \/ ApplyStartupCatchup \/ StartArms \/ Crash
    BY <1>1, StartLoadsS, PlanS, ApplyStartupS, StartArmsS, CrashS
  <1>2. CASE TimerFires \/ TickEnds \/ ListJobs \/ RefuseManualRun \/ TimePasses
    BY <1>2, TimerFiresS, TickEndsS, ReadsS, TimePassesS
  <1>3. CASE \E e \in execs : ExecBegins(e) \/ FinishManualRun(e)
    BY <1>3, ExecBeginsS, FinishS
  <1>4. CASE \E e \in execs, outcome \in Outcomes : ExecEnds(e, outcome)
    BY <1>4, ExecEndsS
  <1>5. CASE \E j \in Jobs, time \in Times : Add(j, time)
    BY <1>5, AddS
  <1>6. CASE \E j \in DOMAIN mem : \E time \in Times \cup {mem[j].time}, enabled \in BOOLEAN :
                 Update(j, enabled, time)
    BY <1>6, UpdateS
  <1>7. CASE \E j \in Jobs : Remove(j)
    BY <1>7, RemoveS
  <1>8. CASE \E j \in Jobs, mode \in {"due", "force"} : PrepareManualRun(j, mode)
    BY <1>8, PrepareS
  <1> QED
    BY <1>1, <1>2, <1>3, <1>4, <1>5, <1>6, <1>7, <1>8 DEF Next

\* With the history of the jobs whose executions lost their mark, which any step may extend.
Sound == SInv /\ excused \subseteq Jobs

LEMMA Soundness == Spec => [](IInv /\ Sound)
  <1>1. Init => Sound
    BY InitS DEF Init, Sound
  <1>2. IInv /\ Sound /\ [Next]_vars => Sound'
    <2> SUFFICES ASSUME IInv, SInv, excused \subseteq Jobs, [Next]_vars
                 PROVE  SInv' /\ excused' \subseteq Jobs
      BY DEF Sound
    <2>1. CASE Next
      <3>1. SInv' /\ excused' = Excused
        BY <2>1, NextS DEF IInv, Next
      <3>2. \A e \in execs' : e.job \in Jobs
        BY <3>1 DEF SInv, ExecsOK, ExecOK, Execution
      <3> QED
        BY <3>1, <3>2 DEF Excused
    <2>2. CASE UNCHANGED vars
      <3>1. UNCHANGED <<now, kind, disk, mem, unused, phase, timer, running, plan, execs, crashes,
                        requests, touched, putOff, excused>>
        BY <2>2 DEF vars, store, control, history
      <3>2. Stores'
        BY <3>1
           DEF SInv, Stores, GoodStore, RecordOK, Almost, Planned, Over, Ahead
      <3>3. Shapes' /\ ExecsOK'
        BY <3>1 DEF SInv, Shapes, ExecsOK, ExecOK
      <3>4. InStep' /\ MarksEnd' /\ TimerSet'
        BY <3>1
           DEF SInv, InStep, MarksEnd, TimerSet, HasExec, HasNextWake, Same, Alike
      <3> QED
        BY <3>1, <3>2, <3>3, <3>4 DEF SInv
    <2> QED
      BY <2>1, <2>2
  <1> QED
    BY <1>1, <1>2, Invariance, PTL DEF Spec

\* The types of the state are kept by every operation; the executions of a tick are there
\* exactly as long as the flag that keeps other ticks out.
THEOREM TypeCorrect == Spec => []TypeOK
  <1>1. IInv /\ Sound => TypeOK
    <2> SUFFICES ASSUME SInv, excused \subseteq Jobs PROVE TypeOK
      BY DEF Sound
    <2>1. \A s \in {disk, mem} : DOMAIN s \subseteq Jobs /\ \A j \in DOMAIN s : s[j] \in JobRecord
      BY DEF SInv, Stores, GoodStore, RecordOK, Almost
    <2>2. execs \subseteq Execution /\ (running <=> Of("tick") # {})
      BY DEF SInv, ExecsOK, ExecOK, Of
    <2> QED
      BY <2>1, <2>2 DEF SInv, Shapes, TypeOK
  <1> QED
    BY <1>1, Soundness, PTL

\* The scheduler does not die: whatever a section of the service does to the stores, it
\* arms the timer if a job is left that has a next run, and no mark is left without an
\* execution that will take it back.
THEOREM SchedulerStaysAlive == Spec => []SchedulerLives
  <1>1. IInv /\ Sound => SchedulerLives
    BY DEF Sound, SInv, TimerSet, MarksEnd, HasExec, SchedulerLives
  <1> QED
    BY <1>1, Soundness, PTL

LEMMA ReloadedJobs ==
    ASSUME ExecsOK, NEW es \in SUBSET execs, NEW g \in Reloaded(es)
    PROVE  \E d \in execs : g.job = d.job /\ g.via = d.via
  <1>1. PICK d \in es : g = [d EXCEPT !.live = FALSE]
    BY DEF Reloaded
  <1>2. d \in Execution
    BY DEF ExecsOK, ExecOK
  <1> QED
    BY <1>1, <1>2 DEF Execution

\* The scheduler executes what is due in the file, or what a start found to be missed.
LEMMA BegunByScheduler ==
    ASSUME SInv, Next, NEW e \in execs', Begins(e), Automatic(e)
    PROVE  \/ e.job \in DOMAIN disk /\ IsRunnable(e.job, disk[e.job])
           \/ /\ phase = "planning" /\ e.job \in DOMAIN mem /\ IsMissed(e.job, mem[e.job])
  <1>1. \A d \in execs : ExecOK(d, now)
    BY DEF SInv, ExecsOK
  <1>2. ASSUME NEW es \in SUBSET execs, e \in Reloaded(es) PROVE FALSE
    <2>1. PICK d \in execs : e.job = d.job /\ e.via = d.via
      BY <1>2, ReloadedJobs DEF SInv
    <2> QED
      BY <2>1 DEF Begins
  <1>3. e \notin execs
    BY DEF Begins
  <1>4. CASE PlanStartupCatchup
    <2> DEFINE missed == {j \in DOMAIN mem : IsMissed(j, mem[j])}
    <2>1. CASE missed = {}
      BY <1>3, <1>4, <2>1 DEF PlanStartupCatchup
    <2>2. CASE missed # {}
      <3>1. PICK first \in SUBSET missed :
                execs' = execs \cup {Exec(j, "catchup", "queued", None) : j \in first}
        BY <1>4, <2>2 DEF PlanStartupCatchup
      <3>2. PICK j \in first : e = Exec(j, "catchup", "queued", None)
        BY <1>3, <3>1
      <3> QED
        BY <1>4, <3>2 DEF Exec, PlanStartupCatchup
    <2> QED
      BY <2>1, <2>2
  <1>5. CASE TimerFires
    <2> DEFINE due == {j \in DOMAIN disk : IsRunnable(j, disk[j])}
    <2>1. CASE due = {}
      BY <1>2, <1>5, <2>1 DEF TimerFires
    <2>2. CASE due # {}
      <3>1. execs' = Reloaded(execs) \cup {Exec(j, "tick", "queued", None) : j \in due}
        BY <1>5, <2>2 DEF TimerFires
      <3>2. PICK j \in due : e = Exec(j, "tick", "queued", None)
        BY <1>2, <3>1
      <3> QED
        BY <3>2 DEF Exec
    <2> QED
      BY <2>1, <2>2
  <1>6. CASE StartLoads \/ ListJobs \/ RefuseManualRun \/ TimePasses \/ Crash
    BY <1>3, <1>6 DEF StartLoads, ListJobs, RefuseManualRun, TimePasses, Crash
  <1>7. CASE ApplyStartupCatchup \/ StartArms \/ TickEnds
    <2>1. PICK es \in SUBSET execs : execs' = Reloaded(es)
      BY <1>7 DEF ApplyStartupCatchup, StartArms, TickEnds
    <2> QED
      BY <1>2, <2>1
  <1>8. ASSUME NEW d \in execs, ExecBegins(d) PROVE FALSE
    <2> DEFINE f == [d EXCEPT !.state = "running", !.start = now]
    <2>1. e = f
      BY <1>3, <1>8 DEF ExecBegins
    <2>2. f.job = d.job /\ f.via = d.via
      BY <1>1 DEF ExecOK, Execution
    <2> HIDE DEF f
    <2> QED
      BY <2>1, <2>2 DEF Begins
  <1>9. ASSUME NEW d \in execs, NEW outcome, ExecEnds(d, outcome) PROVE FALSE
    <2> DEFINE f == [d EXCEPT !.state = "ended", !.end = now, !.outcome = outcome]
    <2>1. e = f
      BY <1>3, <1>9 DEF ExecEnds
    <2>2. f.job = d.job /\ f.via = d.via
      BY <1>1 DEF ExecOK, Execution
    <2> HIDE DEF f
    <2> QED
      BY <2>1, <2>2 DEF Begins
  <1>10. ASSUME NEW d \in execs, FinishManualRun(d) PROVE FALSE
    <2>1. execs' \in {execs \ {d}, Reloaded(execs \ {d})}
      BY <1>10 DEF FinishManualRun
    <2> QED
      BY <1>2, <1>3, <2>1
  <1>11. ASSUME NEW j, NEW mode \in {"due", "force"}, PrepareManualRun(j, mode) PROVE FALSE
    <2>1. e = Exec(j, mode, "running", now)
      BY <1>3, <1>11 DEF PrepareManualRun
    <2>2. e.via = mode
      BY <2>1 DEF Exec
    <2> QED
      BY <2>2 DEF Automatic
  <1>12. CASE \/ \E j \in Jobs, time \in Times : Add(j, time)
              \/ \E j \in DOMAIN mem : \E time \in Times \cup {mem[j].time}, enabled \in BOOLEAN :
                    Update(j, enabled, time)
              \/ \E j \in Jobs : Remove(j)
    BY <1>3, <1>12 DEF Add, Update, Remove
  <1> QED
    BY <1>4, <1>5, <1>6, <1>7, <1>8, <1>9, <1>10, <1>11, <1>12 DEF Next

\* A one-shot that completed is disabled, in the file and in memory, until a user edits
\* it, and disabled jobs are neither due nor missed.
THEOREM OneShotsRunOnce == Spec => OneShotRunsOnce
  <1>1. ASSUME SInv, [Next]_vars, ~UNCHANGED vars,
               NEW e \in execs', Begins(e), Automatic(e), kind[e.job] = "at",
               disk[e.job].status \in {"ok", "skipped"}
        PROVE  e.job \in touched
    <2>1. Next
      BY <1>1
    <2>2. CASE e.job \in DOMAIN disk /\ IsRunnable(e.job, disk[e.job])
      <3>1. RecordOK(e.job, disk[e.job], now, touched, putOff)
        BY <1>1, <2>2 DEF SInv, Stores, GoodStore
      <3> QED
        BY <1>1, <2>2, <3>1 DEF IsRunnable, RecordOK, Almost, Over
    <2>3. CASE phase = "planning" /\ e.job \in DOMAIN mem /\ IsMissed(e.job, mem[e.job])
      <3>1. mem[e.job].status = disk[e.job].status
        BY <1>1, <2>3 DEF SInv, InStep, Same, Alike
      <3> QED
        BY <1>1, <2>3, <3>1 DEF IsMissed
    <2> QED
      BY <1>1, <2>1, <2>2, <2>3, BegunByScheduler
  <1>2. SInv /\ [Next]_vars
        => [\A e \in execs' :
              Begins(e) /\ Automatic(e) /\ kind[e.job] = "at"
              /\ disk[e.job].status \in {"ok", "skipped"}
              => e.job \in touched]_vars
    BY <1>1
  <1>3. IInv /\ Sound => SInv
    BY DEF Sound
  <1> QED
    BY <1>2, <1>3, Soundness, PTL DEF Spec, OneShotRunsOnce

LEMMA ReadyAgain ==
    ASSUME now \in Nat, NEW j, NEW r, NEW edited, NEW off, RecordOK(j, r, now, edited, off),
           j \notin edited \cup off, r.enabled, r.status = "error",
           Reached(r.next) \/ (kind[j] # "at" /\ ~IsErrorBackoffPending(j, r))
    PROVE  now >= Due(r)
  <1>1. r.lastRun \in Nat /\ r.errors \in Nat /\ r.next \in Nat \cup {None}
    BY CronAssumption DEF RecordOK, Almost, Timed, JobRecord
  <1>2. ErrorBackoff(r.errors) \in Nat
    BY <1>1, BackoffResult
  <1>3. CASE Reached(r.next)
    <2>1. r.next \in Nat /\ r.next <= now
      BY <1>1, <1>3 DEF Reached
    <2>2. r.next >= Due(r) \/ now >= Due(r)
      BY <1>3 DEF RecordOK, Almost, Backed, Reached
    <2> QED
      BY <1>1, <1>2, <2>1, <2>2 DEF Due
  <1>4. CASE kind[j] # "at" /\ ~IsErrorBackoffPending(j, r)
    <2>1. r.lastRun # None
      BY <1>1, CronAssumption
    <2>2. ~(now < r.lastRun + ErrorBackoff(r.errors))
      BY <1>4, <2>1 DEF IsErrorBackoffPending
    <2> QED
      BY <1>1, <1>2, <2>2 DEF Due
  <1> QED
    BY <1>3, <1>4

\* The next run of a job that failed is after its backoff, and what a start finds to be
\* missed otherwise, a slot of a cron job, waits for the backoff as well.
THEOREM BackoffIsHonoured == Spec => BackoffHonoured
  <1>1. ASSUME SInv, [Next]_vars, ~UNCHANGED vars,
               NEW e \in execs', Begins(e), Automatic(e), disk[e.job].status = "error",
               e.job \notin touched \cup putOff
        PROVE  now >= disk[e.job].lastRun + ErrorBackoff(disk[e.job].errors)
    <2>1. Next
      BY <1>1
    <2>2. now \in Nat /\ Stores
      BY <1>1, ShapesNow DEF SInv
    <2>3. CASE e.job \in DOMAIN disk /\ IsRunnable(e.job, disk[e.job])
      <3>1. RecordOK(e.job, disk[e.job], now, touched, putOff)
        BY <2>2, <2>3 DEF Stores, GoodStore
      <3>2. disk[e.job].enabled /\ Reached(disk[e.job].next)
        BY <2>3 DEF IsRunnable
      <3> QED
        BY <1>1, <2>2, <3>1, <3>2, ReadyAgain DEF Due
    <2>4. CASE phase = "planning" /\ e.job \in DOMAIN mem /\ IsMissed(e.job, mem[e.job])
      <3> DEFINE r == mem[e.job]
      <3>1. RecordOK(e.job, r, now, touched, putOff)
        BY <2>2, <2>4 DEF Stores, GoodStore
      <3>2. /\ r.status = disk[e.job].status /\ r.lastRun = disk[e.job].lastRun
            /\ r.errors = disk[e.job].errors
        BY <1>1, <2>4 DEF SInv, InStep, Same, Alike
      <3>3. r.enabled
        BY <2>4 DEF IsMissed
      <3>4. r.next # None
        BY <1>1, <3>1, <3>2, <3>3 DEF RecordOK, Almost, Planned
      <3>5. Reached(r.next) \/ (kind[e.job] # "at" /\ ~IsErrorBackoffPending(e.job, r))
        BY <2>4, <3>4 DEF IsMissed
      <3>6. now >= Due(r)
        BY <1>1, <2>2, <3>1, <3>2, <3>3, <3>5, ReadyAgain
      <3> QED
        BY <3>2, <3>6 DEF Due
    <2> QED
      BY <1>1, <2>1, <2>3, <2>4, BegunByScheduler
  <1>2. SInv /\ [Next]_vars
        => [\A e \in execs' :
              Begins(e) /\ Automatic(e) /\ disk[e.job].status = "error"
              => \/ e.job \in touched \cup putOff
                 \/ now >= disk[e.job].lastRun + ErrorBackoff(disk[e.job].errors)]_vars
    BY <1>1
  <1>3. IInv /\ Sound => SInv
    BY DEF Sound
  <1> QED
    BY <1>2, <1>3, Soundness, PTL DEF Spec, BackoffHonoured

-----------------------------------------------------------------------------
(* Jobs that are past due. *)

\* No next run in the file changes, but those of disabled jobs.
NextsKept ==
    \A j \in DOMAIN disk \cap DOMAIN disk' : disk[j].enabled => disk'[j].next = disk[j].next

LEMMA UnwrittenKeeps == disk' = disk => NextsKept
  BY DEF NextsKept

LEMMA MemoryKeeps ==
    ASSUME SInv, phase # "down", disk' = mem', DOMAIN mem' \subseteq DOMAIN mem,
           \A j \in DOMAIN mem' : Same(mem'[j], mem[j])
    PROVE  NextsKept
  BY DEF SInv, InStep, NextsKept, Same, Alike

LEMMA ReadsKeep == SInv /\ (ListJobs \/ RefuseManualRun) => NextsKept
  <1> SUFFICES ASSUME SInv, ListJobs PROVE NextsKept
    BY UnwrittenKeeps DEF RefuseManualRun
  <1>1. phase # "down" /\ mem' = Maintained(mem, FALSE) /\ disk' = mem'
    BY DEF ListJobs
  <1>2. now \in Nat /\ kind \in Kinds /\ GoodStore(mem, now, touched, putOff)
    BY ShapesNow DEF SInv, Stores
  <1>3. DOMAIN mem' = DOMAIN mem /\ \A j \in DOMAIN mem : Same(mem'[j], mem[j])
    BY <1>1, <1>2, MaintainedStore
  <1> QED
    BY <1>1, <1>3, MemoryKeeps

LEMMA PrepareKeeps == ASSUME SInv, NEW j, NEW mode, PrepareManualRun(j, mode) PROVE NextsKept
  <1> DEFINE s == Maintained(mem, FALSE)
  <1>1. phase # "down" /\ mem' = Marked(s, {j}) /\ disk' = mem'
    BY DEF PrepareManualRun
  <1>2. now \in Nat /\ kind \in Kinds /\ GoodStore(mem, now, touched, putOff)
    BY ShapesNow DEF SInv, Stores
  <1>3. /\ GoodStore(s, now, touched, putOff) /\ DOMAIN s = DOMAIN mem
        /\ \A k \in DOMAIN mem : Same(s[k], mem[k])
    BY <1>2, MaintainedStore
  <1> HIDE DEF s
  <1>4. DOMAIN mem' = DOMAIN s /\ \A k \in DOMAIN s : Same(mem'[k], s[k])
    BY <1>1, <1>2, <1>3, MarkedStore
  <1>5. \A k \in DOMAIN mem : Same(mem'[k], mem[k])
    BY <1>3, <1>4, SameTwice
  <1> QED
    BY <1>1, <1>3, <1>4, <1>5, MemoryKeeps

LEMMA RemoveKeeps == ASSUME SInv, NEW j, Remove(j) PROVE NextsKept
  <1>1. phase # "down" /\ mem' = [k \in DOMAIN mem \ {j} |-> mem[k]] /\ disk' = mem'
    BY DEF Remove, Persisted
  <1> QED
    BY <1>1, MemoryKeeps DEF Same, Alike

\* A job for which a step may change the next run in the file though it is past due.
Moved(j) ==
    \/ \E e \in execs \ execs' : e.job = j
    \/ j \in touched' \/ unused' # unused \/ phase' # phase

PastDue(j) == disk[j].enabled /\ disk[j].mark = None /\ Reached(disk[j].next)

LEMMA UpdateMoves ==
    ASSUME SInv, NEW k \in DOMAIN mem, NEW enabled, NEW time, Update(k, enabled, time),
           NEW j \in DOMAIN disk \cap DOMAIN disk', disk[j].enabled,
           disk'[j].next # disk[j].next
    PROVE  Moved(j)
  <1>1. PICK x : mem' = [mem EXCEPT ![k] = x]
    BY DEF Update, Persisted
  <1>2. phase # "down" /\ disk' = mem' /\ touched' = touched \cup {k}
    BY DEF Update, Persisted
  <1>3. CASE j = k
    BY <1>2, <1>3 DEF Moved
  <1>4. CASE j # k
    BY <1>1, <1>2, <1>4 DEF SInv, InStep, Same, Alike
  <1> QED
    BY <1>3, <1>4

\* A tick that finds nothing due finds nothing past due.
LEMMA TimerFiresKeeps ==
    ASSUME SInv, TimerFires, NEW j \in DOMAIN disk, PastDue(j)
    PROVE  disk'[j].next = disk[j].next
  <1> DEFINE due == {k \in DOMAIN disk : IsRunnable(k, disk[k])}
  <1>1. j \in due
    BY DEF PastDue, IsRunnable
  <1>2. disk' = Marked(disk, due)
    BY <1>1 DEF TimerFires
  <1>3. now \in Nat /\ GoodStore(disk, now, touched, putOff)
    BY ShapesNow DEF SInv, Stores
  <1>4. Same(disk'[j], disk[j])
    BY <1>2, <1>3, MarkedStore
  <1> QED
    BY <1>4 DEF Same, Alike, PastDue

LEMMA TickEndsMoves ==
    ASSUME SInv, DownIsIdle, TickEnds,
           NEW j \in DOMAIN disk \cap DOMAIN disk', disk[j].enabled,
           disk'[j].next # disk[j].next
    PROVE  Moved(j)
  <1> DEFINE jobs == JobsOf(Of("tick"))
             a == Applied(disk, Of("tick"))
  <1>1. /\ phase # "down" /\ \A e \in Of("tick") : e.state = "ended"
        /\ disk' = Maintained(a, FALSE) /\ execs' = Reloaded(execs \ Of("tick"))
    BY DEF TickEnds, DownIsIdle
  <1>2. now \in Nat /\ kind \in Kinds
    BY ShapesNow DEF SInv
  <1>3. /\ GoodStore(a, now, touched \ jobs, putOff \ jobs)
        /\ \A k \in DOMAIN a : k \notin jobs => a[k] = disk[k]
    BY <1>1, OutcomesS
  <1> HIDE DEF a
  <1>4. DOMAIN disk' = DOMAIN a /\ \A k \in DOMAIN a : Same(disk'[k], a[k])
    BY <1>1, <1>2, <1>3, MaintainedStore
  <1>5. j \in jobs
    BY <1>3, <1>4 DEF Same, Alike
  <1>6. PICK e \in Of("tick") : e.job = j
    BY <1>5 DEF JobsOf
  <1>7. e \notin execs'
    <2> SUFFICES ASSUME e \in Reloaded(execs \ Of("tick")) PROVE FALSE
      BY <1>1
    <2>1. PICK d \in execs \ Of("tick") : e = [d EXCEPT !.live = FALSE]
      BY DEF Reloaded
    <2>2. d.via # "tick" /\ d \in Execution
      BY <2>1 DEF Of, SInv, ExecsOK, ExecOK
    <2>3. e.via = d.via
      BY <2>1, <2>2 DEF Execution
    <2> QED
      BY <1>6, <2>2, <2>3 DEF Of
  <1> QED
    BY <1>6, <1>7 DEF Moved, Of

LEMMA FinishMoves ==
    ASSUME WaitsPositive, SInv, DownIsIdle, NEW e \in execs, FinishManualRun(e),
           NEW j \in DOMAIN disk \cap DOMAIN disk', disk[j].enabled, disk[j].next # None,
           disk'[j].next # disk[j].next
    PROVE  Moved(j)
  <1>1. e.job \in DOMAIN mem
    BY DEF FinishManualRun, store
  <1>2. /\ execs' = Reloaded(execs \ {e}) /\ disk' = mem'
        /\ j # e.job => j \in touched
    BY <1>1, FinishResult
  <1>3. touched' = touched \ {e.job}
    BY DEF FinishManualRun, Settled
  <1>4. CASE j # e.job
    BY <1>2, <1>3, <1>4 DEF Moved
  <1>5. CASE j = e.job
    <2>1. e \notin execs'
      <3> SUFFICES ASSUME e \in Reloaded(execs \ {e}) PROVE FALSE
        BY <1>2
      <3>1. PICK d \in execs \ {e} : e = [d EXCEPT !.live = FALSE]
        BY DEF Reloaded
      <3>2. d \in Execution /\ (d.via # "tick" => ~d.live)
        BY <3>1 DEF SInv, ExecsOK, ExecOK
      <3>3. e.via = d.via /\ e.via # "tick"
        BY <3>1, <3>2 DEF Execution, FinishManualRun
      <3>4. e = d
        BY <3>1, <3>2, <3>3 DEF Execution
      <3> QED
        BY <3>1, <3>4
    <2> QED
      BY <1>5, <2>1 DEF Moved
  <1> QED
    BY <1>4, <1>5

\* Maintenance repairs what is missing, advances only slots that were executed, and finds
\* a slot that a result computed, or a retry, or the turn of a job that a start put off,
\* to be after the last run: provided that retries and turns are not at once.
THEOREM PastDueJobsAreKept == ASSUME WaitsPositive PROVE Spec => PastDueIsKept
  <1>1. ASSUME SInv, DownIsIdle, [Next]_vars, ~UNCHANGED vars,
               NEW j \in DOMAIN disk \cap DOMAIN disk', PastDue(j),
               disk'[j].next # disk[j].next
        PROVE  Moved(j)
    <2>1. disk[j].enabled /\ disk[j].next # None /\ ~NextsKept /\ disk' # disk
      BY <1>1 DEF PastDue, Reached, NextsKept
    <2>2. CASE StartLoads \/ PlanStartupCatchup \/ ApplyStartupCatchup \/ StartArms \/ Crash
      BY <2>1, <2>2
         DEF Moved, StartLoads, PlanStartupCatchup, ApplyStartupCatchup, StartArms, Crash, store
    <2>3. CASE TimerFires \/ TickEnds
      BY <1>1, <2>1, <2>3, TimerFiresKeeps, TickEndsMoves
    <2>4. CASE ListJobs \/ RefuseManualRun \/ TimePasses
      BY <1>1, <2>1, <2>4, ReadsKeep DEF TimePasses, store
    <2>5. CASE \E e \in execs : ExecBegins(e) \/ FinishManualRun(e)
      BY <1>1, <2>1, <2>5, FinishMoves, WaitsPositive DEF ExecBegins
    <2>6. CASE \E e \in execs, outcome \in Outcomes : ExecEnds(e, outcome)
      BY <2>1, <2>6 DEF ExecEnds, store
    <2>7. CASE \E k \in Jobs, time \in Times : Add(k, time)
      BY <2>7 DEF Add, Moved
    <2>8. CASE \E k \in DOMAIN mem : \E time \in Times \cup {mem[k].time}, enabled \in BOOLEAN :
                   Update(k, enabled, time)
      BY <1>1, <2>1, <2>8, UpdateMoves
    <2>9. CASE \E k \in Jobs : Remove(k)
      BY <1>1, <2>1, <2>9, RemoveKeeps
    <2>10. CASE \E k \in Jobs, mode \in {"due", "force"} : PrepareManualRun(k, mode)
      BY <1>1, <2>1, <2>10, PrepareKeeps
    <2> QED
      BY <1>1, <2>2, <2>3, <2>4, <2>5, <2>6, <2>7, <2>8, <2>9, <2>10 DEF Next
  <1>2. IInv /\ Sound /\ [Next]_vars
        => [\A j \in DOMAIN disk \cap DOMAIN disk' :
              /\ disk[j].enabled /\ disk[j].mark = None /\ Reached(disk[j].next)
              /\ disk'[j].next # disk[j].next
              => \/ \E e \in execs \ execs' : e.job = j
                 \/ j \in touched' \/ unused' # unused \/ phase' # phase]_vars
    BY <1>1 DEF IInv, Sound, PastDue, Moved
  <1> QED
    BY <1>2, Soundness, PTL DEF Spec, PastDueIsKept

=============================================================================
