------------------------- MODULE SubagentRegistryProofs -------------------------
(***************************************************************************)
(* Proofs about the registry of subagent runs, for any number of sessions, *)
(* of tries, of steered or woken runs and of troubles.                     *)
(*                                                                         *)
(* The records in memory and on disk both satisfy RecordOK, which relates  *)
(* the claim on the cleanup (handled) to what was told about the run: a    *)
(* run that is being announced, or of which something was told in a call   *)
(* that was not left without an answer, is claimed, and not by a kill;     *)
(* nothing is told yet of the runs that will follow it.                    *)
(***************************************************************************)
EXTENDS SubagentRegistryProperties, TLAPS

-----------------------------------------------------------------------------
(* The inductive invariant *)

Stages == {"none", "checking", "waking", "delivering", "asked", "done", "failed"}

Announcements == [at : Stages, wake : BOOLEAN, asks : 0..MaxAsks]

\* The announcements of one session.
Flows == [Numbers -> Announcements]

Killed(e) == e.suppress = "killed"

\* No telling of run n of s counts and, with the announcements f, none is under way.
Untold(s, f, n) == announced[s][n] = 0 /\ f[n].at = "none"

Caused(s, e) ==
    \/ announced[s][e.no] > 0 \/ <<s, e.no>> \in waived
    \/ e.retries = MaxRetries \/ e.expired \/ Killed(e)

RecordOK(s, f, e) ==
    /\ e \in Records
    /\ e.handled \/ e.completed \/ e.expired \/ e.retries > 0 => e.ended
    /\ Killed(e) => e.handled /\ e.completed /\ e.retries = 0 /\ e.ended
    /\ e.retries = MaxRetries => e.completed
    /\ e.known /\ e.completed => Caused(s, e)
    /\ e.known /\ ~Untold(s, f, e.no) => e.handled /\ ~Killed(e)
    /\ e.known => \A k \in Numbers : k > e.no => Untold(s, f, k)
    /\ e.known /\ f[e.no].at # "none" => ~e.completed

\* Only an announcement that has told nothing, or whose calls were left without an
\* answer, goes on to tell; the cleanup of the run that it announces is still open.
FlowOK(s, n) ==
    /\ announced[s][n] \in {0, 1}
    /\ flow[s][n].at \notin {"none", "asked", "done"} => announced[s][n] = 0
    /\ flow[s][n].at = "asked" => announced[s][n] = 1
    /\ flow[s][n].at = "done" => announced[s][n] > 0 \/ <<s, n>> \in waived
    /\ IsRun(s, n) /\ flow[s][n].at # "none" => ~reg[s].e.completed

\* A run that a steer restarts is the last one of its session.
SteeringOK(s, n) ==
    <<s, n>> \in steering =>
        /\ n < MaxRuns /\ (Known(s) => reg[s].e.no = n)
        /\ \A k \in Numbers : k > n => Untold(s, flow[s], k)
        /\ \A k \in Numbers : <<s, k>> \in steering => k = n

FreshOK(s) ==
    s \in fresh =>
        /\ ~Known(s) /\ ~disk[s].known
        /\ \A k \in Numbers : Untold(s, flow[s], k) /\ <<s, k>> \notin steering

Shapes ==
    /\ reg \in [Sessions -> [e : Records, m : Memory]]
    /\ disk \in [Sessions -> Records]
    /\ stored \subseteq Sessions
    /\ flow \in [Sessions -> Flows]
    /\ fresh \subseteq Sessions
    /\ steering \subseteq Sessions \X Numbers
    /\ up \in BOOLEAN
    /\ troubles \in 0..MaxTroubles
    /\ announced \in [Sessions -> [Numbers -> Nat]]
    /\ waived \subseteq Sessions \X Numbers

\* What an operation's parts work on: a record, and its memory within a step.
States == [e : Records,
           m : [agent : {"running", "failed", "over"}, waiting : BOOLEAN,
                completing : BOOLEAN, resumed : BOOLEAN, timer : BOOLEAN,
                retimer : BOOLEAN, begun : BOOLEAN]]

Sound(s, f, r) ==
    /\ r \in States
    /\ RecordOK(s, f, r.e)
    /\ r.m.completing => r.e.ended
    /\ r.m.begun => /\ r.e.known /\ r.e.ended /\ r.e.handled
                    /\ ~r.e.completed /\ ~Killed(r.e) /\ Untold(s, f, r.e.no)

Core ==
    /\ Shapes
    /\ \A s \in Sessions : Sound(s, flow[s], reg[s])
    /\ \A s \in Sessions : RecordOK(s, flow[s], disk[s])
    /\ \A s \in Sessions, n \in Numbers : FlowOK(s, n)

Claims ==
    /\ \A s \in Sessions : FreshOK(s)
    /\ \A s \in Sessions, n \in Numbers : SteeringOK(s, n)

IInv == Core /\ Claims

\* The record x is still about the run of r, if about any, and it is now claimed when
\* the run begins to be announced.
Keeps(r, x) ==
    /\ x.e.known => r.e.known /\ x.e.no = r.e.no
    /\ x.m.begun => x.e.handled /\ ~r.e.handled

-----------------------------------------------------------------------------
(* What the parts of the operations make of a sound record *)

LEMMA NoFlowIs == NoFlow \in Announcements /\ NoFlow.at = "none"
BY SubagentRegistryAssumption DEF NoFlow, Announcements, Stages

\* Without a record nothing is amiss.
LEMMA ForgottenSound ==
  ASSUME NEW s \in Sessions, NEW f \in Flows
  PROVE  Sound(s, f, Forgotten)
<1>1. Forgotten \in States
  BY SubagentRegistryAssumption DEF Forgotten, States, NoEntry, Nothing, Records, Numbers
<1>2. Forgotten.e = NoEntry /\ Forgotten.m = Nothing
  BY DEF Forgotten
<1>3. RecordOK(s, f, NoEntry)
  BY <1>1, <1>2, SubagentRegistryAssumption
     DEF RecordOK, NoEntry, States, Killed, Records, Numbers
<1> QED BY <1>1, <1>2, <1>3 DEF Sound, Nothing, NoEntry

\* An announcement that is over leaves the record sound.
LEMMA ClearedSound ==
  ASSUME NEW s \in Sessions, NEW f \in Flows, NEW g \in Flows, NEW r, Sound(s, f, r),
         \A n \in Numbers : g[n].at \in {f[n].at, "none"}
  PROVE  Sound(s, g, r)
<1>1. \A n \in Numbers : Untold(s, f, n) => Untold(s, g, n)
  BY DEF Untold, Flows
<1>2. r.e.no \in Numbers
  BY DEF Sound, States, Records
<1>3. RecordOK(s, g, r.e)
  BY <1>1, <1>2 DEF Sound, RecordOK
<1> QED BY <1>1, <1>2, <1>3 DEF Sound

\* beginSubagentCleanup claims the cleanup only of a run no telling of which counts.
LEMMA StartedSound ==
  ASSUME NEW s \in Sessions, NEW f \in Flows, NEW r, Sound(s, f, r), ~r.m.begun, r.e.ended
  PROVE  Sound(s, f, Started(r)) /\ Keeps(r, Started(r))
<1>1. CASE ~Begins(r)
  BY <1>1 DEF Started, Keeps
<1>2. CASE Begins(r)
  <2>0. r \in States
    BY DEF Sound
  <2> DEFINE x == [r EXCEPT !.e.handled = TRUE, !.m.begun = TRUE]
  <2>1. Started(r) = x
    BY <1>2 DEF Started
  <2>2. x \in States /\ x.e = [r.e EXCEPT !.handled = TRUE]
        /\ x.m = [r.m EXCEPT !.begun = TRUE]
    BY <2>0 DEF States, Records
  <2>3. Untold(s, f, r.e.no) /\ ~Killed(r.e)
    BY <1>2 DEF Begins, Sound, RecordOK
  <2>4. RecordOK(s, f, x.e)
    BY <2>0, <2>2, <2>3 DEF Sound, RecordOK, Killed, Caused, States, Records
  <2> QED BY <1>2, <2>0, <2>1, <2>2, <2>3, <2>4
          DEF Sound, Keeps, Killed, States, Records, Begins
<1> QED BY <1>1, <1>2

\* completeCleanupBookkeeping, for a cause.
LEMMA CompletedSound ==
  ASSUME NEW s \in Sessions, NEW f \in Flows, NEW r, Sound(s, f, r), r.e.ended,
         Caused(s, r.e), f[r.e.no].at = "none"
  PROVE  Sound(s, f, Completed(r)) /\ Keeps(r, Completed(r))
<1>0. r \in States
  BY DEF Sound
<1> DEFINE x == Completed(r)
<1>1. /\ x \in States
      /\ x.e = [r.e EXCEPT !.completed = TRUE, !.wake = FALSE]
      /\ x.m = [Nothing EXCEPT !.agent = r.m.agent]
  BY <1>0 DEF Completed, States, Records, Nothing
<1>2. RecordOK(s, f, x.e)
  BY <1>0, <1>1 DEF Sound, RecordOK, Killed, Caused, States, Records
<1> QED BY <1>0, <1>1, <1>2 DEF Sound, Keeps, Killed, States, Records, Nothing

\* Changes of the memory alone that claim nothing leave the record sound.
LEMMA MemorySound ==
  ASSUME NEW s \in Sessions, NEW f \in Flows, NEW r, NEW x \in States, Sound(s, f, r),
         x.e = r.e, x.m.completing => r.e.ended, ~x.m.begun
  PROVE  Sound(s, f, x) /\ Keeps(r, x)
BY DEF Sound, Keeps

\* resumeSubagentRun prunes, waits or announces; a run whose tries are used up is
\* completed before it could be resumed.
LEMMA ResumedSound ==
  ASSUME NEW s \in Sessions, NEW f \in Flows, NEW r, Sound(s, f, r), ~r.m.begun
  PROVE  Sound(s, f, Resumed(s, r)) /\ Keeps(r, Resumed(s, r))
<1>0. r \in States /\ r.e.retries \in 0..MaxRetries
  BY DEF Sound, States, Records
<1> DEFINE x == Resumed(s, r)
           seen == [r EXCEPT !.m.resumed = Steered(r)]
           waits == [r EXCEPT !.m.waiting = TRUE, !.m.resumed = TRUE]
           later == [r EXCEPT !.m.retimer = TRUE, !.m.resumed = TRUE]
           start == [Started(r) EXCEPT !.m.resumed = TRUE]
<1>1. Sound(s, f, Forgotten) /\ Keeps(r, Forgotten)
  BY ForgottenSound DEF Keeps, Forgotten, NoEntry, Nothing
<1>2. r.e.known /\ ~r.e.completed => ~(r.e.retries >= MaxRetries)
  BY <1>0, SubagentRegistryAssumption DEF Sound, RecordOK
<1>3. Sound(s, f, seen) /\ Keeps(r, seen)
  <2>1. seen \in States /\ seen.e = r.e /\ ~seen.m.begun /\ seen.m.completing = r.m.completing
    BY <1>0 DEF States, Steered
  <2> HIDE DEF seen
  <2> QED BY <2>1, MemorySound DEF Sound
<1>4. Sound(s, f, waits) /\ Keeps(r, waits)
  <2>1. waits \in States /\ waits.e = r.e /\ ~waits.m.begun
        /\ waits.m.completing = r.m.completing
    BY <1>0 DEF States
  <2> HIDE DEF waits
  <2> QED BY <2>1, MemorySound DEF Sound
<1>5. Sound(s, f, later) /\ Keeps(r, later)
  <2>1. later \in States /\ later.e = r.e /\ ~later.m.begun
        /\ later.m.completing = r.m.completing
    BY <1>0 DEF States
  <2> HIDE DEF later
  <2> QED BY <2>1, MemorySound DEF Sound
<1>6. r.e.ended => Sound(s, f, start) /\ Keeps(r, start)
  <2> HAVE r.e.ended
  <2>1. Sound(s, f, Started(r)) /\ Keeps(r, Started(r))
    BY StartedSound
  <2>2. start \in States /\ start.e = Started(r).e /\ start.m.begun = Started(r).m.begun
        /\ start.m.completing = Started(r).m.completing
    BY <2>1 DEF States, Sound
  <2> QED BY <2>1, <2>2 DEF Sound, Keeps
<1>a. /\ x = Resumed(s, r)
      /\ seen = [r EXCEPT !.m.resumed = Steered(r)]
      /\ waits = [r EXCEPT !.m.waiting = TRUE, !.m.resumed = TRUE]
      /\ later = [r EXCEPT !.m.retimer = TRUE, !.m.resumed = TRUE]
      /\ start = [Started(r) EXCEPT !.m.resumed = TRUE]
  OBVIOUS
<1> HIDE DEF x, seen, waits, later, start
<1>7. \/ x \in {r, Forgotten, seen, waits, later}
      \/ x = start /\ r.e.ended
  <2>1. CASE r.m.resumed \/ ~r.e.known \/ s \notin stored \/ r.e.completed
    BY <1>a, <2>1 DEF Resumed
  <2>2. CASE /\ ~(r.m.resumed \/ ~r.e.known \/ s \notin stored \/ r.e.completed)
             /\ r.e.ended
    BY <1>a, <1>2, <2>2 DEF Resumed
  <2>3. CASE /\ ~(r.m.resumed \/ ~r.e.known \/ s \notin stored \/ r.e.completed)
             /\ ~r.e.ended
    BY <1>a, <1>2, <2>3 DEF Resumed
  <2> QED BY <2>1, <2>2, <2>3
<1>8. Sound(s, f, r) /\ Keeps(r, r)
  BY DEF Keeps
<1>9. Sound(s, f, x) /\ Keeps(r, x)
  BY <1>1, <1>3, <1>4, <1>5, <1>6, <1>7, <1>8
<1> QED BY <1>9 DEF x

\* retryDeferredCompletedAnnounces
LEMMA RetriedSound ==
  ASSUME NEW s \in Sessions, NEW f \in Flows, NEW r, Sound(s, f, r), ~r.m.begun
  PROVE  Sound(s, f, Retried(s, r)) /\ Keeps(r, Retried(s, r))
<1> DEFINE y == [r EXCEPT !.m.resumed = FALSE]
<1>0. r \in States
  BY DEF Sound
<1>1. y \in States /\ y.e = r.e /\ ~y.m.begun /\ y.m.completing = r.m.completing
  BY <1>0 DEF States
<1>2. Sound(s, f, y)
  BY <1>1, MemorySound DEF Sound
<1>3. Retried(s, r) \in {r, Resumed(s, y)}
  BY DEF Retried
<1>4. Sound(s, f, Resumed(s, y)) /\ Keeps(y, Resumed(s, y))
  BY <1>1, <1>2, ResumedSound
<1> QED BY <1>1, <1>3, <1>4 DEF Keeps

\* completeSubagentRun takes a kill's cleanup back only when no telling of it counts.
LEMMA CompletingSound ==
  ASSUME NEW s \in Sessions, NEW f \in Flows, NEW r, Sound(s, f, r), ~r.m.begun,
         NEW reason
  PROVE  /\ Sound(s, f, Completing(r, reason)) /\ Keeps(r, Completing(r, reason))
         /\ ~Completing(r, reason).m.begun
<1>0. r \in States /\ r.e \in Records
  BY DEF Sound, States
<1> DEFINE e == IF Late(r, reason)
                THEN [r.e EXCEPT !.suppress = "none", !.handled = FALSE, !.completed = FALSE]
                ELSE r.e
           x == Completing(r, reason)
<1>1. e \in Records /\ e.known = r.e.known /\ e.no = r.e.no
  BY <1>0 DEF Records
<1>2. RecordOK(s, f, [e EXCEPT !.ended = TRUE]) /\ [e EXCEPT !.ended = TRUE] \in Records
  <2>1. CASE Late(r, reason)
    <3>1. Killed(r.e)
      BY <2>1 DEF Late, Killed
    <3>2. r.e.retries = 0 /\ (r.e.known => Untold(s, f, r.e.no))
      BY <3>1 DEF Sound, RecordOK
    <3>3. [e EXCEPT !.ended = TRUE] =
            [r.e EXCEPT !.suppress = "none", !.handled = FALSE, !.completed = FALSE,
                        !.ended = TRUE]
      BY <2>1
    <3> QED BY <1>0, <3>2, <3>3, SubagentRegistryAssumption
            DEF Sound, RecordOK, Killed, Records
  <2>2. CASE ~Late(r, reason)
    <3>1. [e EXCEPT !.ended = TRUE] = [r.e EXCEPT !.ended = TRUE]
      BY <2>2
    <3> QED BY <1>0, <3>1 DEF Sound, RecordOK, Killed, Records, Caused
  <2> QED BY <2>1, <2>2
<1>3. /\ x.e = [e EXCEPT !.ended = TRUE, !.ok = (reason = "complete"),
                        !.expired = @ /\ e.completed]
      /\ x.m = [r.m EXCEPT !.agent = IF @ = "failed" THEN "over" ELSE @, !.completing = TRUE]
      /\ x = [e |-> x.e, m |-> x.m]
  BY DEF Completing
<1>4. x \in States /\ ~x.m.begun
  BY <1>0, <1>1, <1>3 DEF States, Records
<1>5. RecordOK(s, f, x.e)
  BY <1>1, <1>2, <1>3, <1>4 DEF RecordOK, Killed, Caused, Records, States
<1>6. x.e.ended /\ x.e.known = r.e.known /\ x.e.no = r.e.no
  BY <1>1, <1>3 DEF Records
<1> QED BY <1>4, <1>5, <1>6 DEF Sound, Keeps

-----------------------------------------------------------------------------
(* What a step makes of the records and the announcements *)

\* The variables beside the records and the announcements keep their shapes.
Rest ==
    /\ stored' \subseteq Sessions /\ fresh' \subseteq Sessions
    /\ steering' \subseteq Sessions \X Numbers
    /\ up' \in BOOLEAN /\ troubles' \in 0..MaxTroubles

\* Announcements may have ended.
Fewer(flows) ==
    /\ flows \in [Sessions -> Flows]
    /\ \A s \in Sessions, n \in Numbers : flows[s][n] \in {flow[s][n], NoFlow}

LEMMA Unbegun ==
  ASSUME NEW r \in States
  PROVE  LET x == [r EXCEPT !.m.begun = FALSE]
         IN  /\ x.e = r.e /\ x.m = [r.m EXCEPT !.begun = FALSE]
             /\ x \in [e : Records, m : Memory] /\ x \in States
<1> DEFINE x == [r EXCEPT !.m.begun = FALSE]
<1>1. x.e = r.e /\ x.m = [r.m EXCEPT !.begun = FALSE]
  BY DEF States
<1>2. x.e \in Records /\ x.m \in Memory
  BY <1>1 DEF States, Memory
<1>3. x \in States
  BY <1>1 DEF States, Memory
<1>4. x \in [e : Records, m : Memory]
  BY <1>1, <1>2, <1>3 DEF States
<1> QED BY <1>1, <1>3, <1>4

\* Where the announcements are after the registry became new.
LEMMA BecomesFlow ==
  ASSUME NEW new, NEW flows \in [Sessions -> Flows], Becomes(new, flows),
         NEW s \in Sessions, new[s] \in States
  PROVE  /\ flow'[s] \in Flows
         /\ \A n \in Numbers :
               flow'[s][n].at = IF new[s].m.begun /\ n = new[s].e.no THEN "checking"
                                ELSE flows[s][n].at
         /\ reg'[s].e = new[s].e
         /\ reg'[s] \in [e : Records, m : Memory]
         /\ reg'[s] \in States
         /\ ~reg'[s].m.begun
         /\ reg'[s].m.completing = new[s].m.completing
<1>1. reg'[s] = [new[s] EXCEPT !.m.begun = FALSE]
  BY DEF Becomes
<1>2. /\ reg'[s].e = new[s].e /\ reg'[s].m = [new[s].m EXCEPT !.begun = FALSE]
      /\ reg'[s] \in [e : Records, m : Memory]
      /\ reg'[s] \in States
  BY <1>1, Unbegun
<1>3. flow'[s] = IF new[s].m.begun
                 THEN [flows[s] EXCEPT ![new[s].e.no] =
                          [at |-> "checking", wake |-> new[s].e.wake /\ ~new[s].e.woken,
                           asks |-> 0]]
                 ELSE flows[s]
  BY DEF Becomes
<1>4. flows[s] \in Flows /\ new[s].e.no \in Numbers
  BY DEF States, Records
<1>5. [at |-> "checking", wake |-> new[s].e.wake /\ ~new[s].e.woken, asks |-> 0]
        \in Announcements
  BY SubagentRegistryAssumption DEF Announcements, Stages, States, Records
<1>6. flow'[s] \in Flows
  BY <1>3, <1>4, <1>5 DEF Flows
<1>7. \A n \in Numbers :
         flow'[s][n].at = IF new[s].m.begun /\ n = new[s].e.no THEN "checking"
                          ELSE flows[s][n].at
  BY <1>3, <1>4 DEF Flows
<1> QED BY <1>2, <1>6, <1>7 DEF States, Memory

\* A record is sound for the announcements of after the step if it was before and no
\* other run of its session begins to be announced.
LEMMA RecordStays ==
  ASSUME NEW s \in Sessions, NEW f \in Flows, NEW e, RecordOK(s, f, e),
         NEW g \in Flows, NEW b \in BOOLEAN,
         b => e.known /\ e.handled /\ ~Killed(e) /\ ~e.completed,
         \A n \in Numbers : g[n].at = IF b /\ n = e.no THEN "checking" ELSE f[n].at
  PROVE  RecordOK(s, g, e)
<1>1. e \in Records /\ e.no \in Numbers /\ Numbers \subseteq Nat
  BY DEF RecordOK, Records, Numbers
<1>2. \A n \in Numbers : Untold(s, f, n) /\ ~(b /\ n = e.no) => Untold(s, g, n)
  BY DEF Untold
<1>3. e.known /\ ~Untold(s, g, e.no) => e.handled /\ ~Killed(e)
  BY <1>1, <1>2 DEF RecordOK
<1>4. e.known => \A k \in Numbers : k > e.no => Untold(s, g, k)
  <2> SUFFICES ASSUME e.known, NEW k \in Numbers, k > e.no PROVE Untold(s, g, k)
    OBVIOUS
  <2>1. k # e.no
    BY <1>1
  <2> QED BY <1>2, <2>1 DEF RecordOK
<1>5. e.known /\ g[e.no].at # "none" => ~e.completed
  BY <1>1 DEF RecordOK
<1> QED BY <1>3, <1>4, <1>5 DEF RecordOK

\* The records in memory after the registry became new.
LEMMA BecomesSound ==
  ASSUME Core, NEW new, NEW flows, Fewer(flows), Becomes(new, flows), UNCHANGED history,
         \A s \in Sessions : Sound(s, flows[s], new[s]),
         NEW s \in Sessions
  PROVE  /\ Sound(s, flow[s], reg[s])'
         /\ \A n \in Numbers : FlowOK(s, n)'
<1> DEFINE b == new[s].m.begun
           e == new[s].e
<1>1. flows \in [Sessions -> Flows] /\ flows[s] \in Flows /\ Sound(s, flows[s], new[s])
  BY DEF Fewer
<1>2. new[s] \in States /\ b \in BOOLEAN /\ e \in Records /\ e.no \in Numbers
  BY <1>1 DEF Sound, States, Records
<1>3. /\ flow'[s] \in Flows
      /\ \A n \in Numbers : flow'[s][n].at = IF b /\ n = e.no THEN "checking"
                                             ELSE flows[s][n].at
      /\ reg'[s].e = e
      /\ reg'[s] \in States /\ ~reg'[s].m.begun
      /\ reg'[s].m.completing = new[s].m.completing
  BY <1>1, <1>2, BecomesFlow
<1>4. RecordOK(s, flows[s], e)
  BY <1>1 DEF Sound
<1>5. b => /\ e.known /\ e.ended /\ e.handled /\ ~e.completed /\ ~Killed(e)
           /\ Untold(s, flows[s], e.no)
  BY <1>1 DEF Sound
<1>6. RecordOK(s, flow'[s], e)
  BY <1>2, <1>3, <1>4, <1>5, <1>1, RecordStays
<1>7. announced' = announced /\ waived' = waived
  BY DEF history
<1>8. RecordOK(s, flow[s], reg[s].e)'
  BY <1>3, <1>6, <1>7 DEF RecordOK, Untold, Caused, Killed
<1>9. reg'[s].e.known /\ flow'[s][reg'[s].e.no].at # "none" => ~reg'[s].e.completed
  BY <1>8 DEF RecordOK
<1>10. Sound(s, flow[s], reg[s])'
  BY <1>1, <1>3, <1>8, <1>9 DEF Sound
<1>11. ASSUME NEW n \in Numbers PROVE FlowOK(s, n)'
  <2>1. FlowOK(s, n)
    BY DEF Core
  <2>2. flows[s][n].at \in {flow[s][n].at, "none"}
    BY DEF Fewer, NoFlow
  <2>3. b /\ n = e.no => announced[s][n] = 0
    BY <1>5 DEF Untold
  <2>4. /\ flow'[s][n].at \notin {"none", "asked", "done"} => announced[s][n] = 0
        /\ flow'[s][n].at = "asked" => announced[s][n] = 1
        /\ flow'[s][n].at = "done" => announced[s][n] > 0 \/ <<s, n>> \in waived
    BY <1>3, <2>1, <2>2, <2>3 DEF FlowOK
  <2>5. IsRun(s, n)' /\ flow'[s][n].at # "none" => ~reg'[s].e.completed
    BY <1>9 DEF IsRun, Known
  <2> QED BY <1>7, <2>1, <2>4, <2>5 DEF FlowOK
<1> QED BY <1>10, <1>11

\* The file: all is written, or nothing begins and what is written is sound.
DiskStep(new) ==
    \/ Persist
    \/ /\ disk' \in [Sessions -> Records]
       /\ \A s \in Sessions :
             /\ ~new[s].m.begun
             /\ RecordOK(s, flow[s], disk'[s])
             /\ disk'[s].known => Known(s) \/ disk[s].known

LEMMA BecomesCore ==
  ASSUME Core, NEW new, NEW flows, Fewer(flows), Becomes(new, flows), UNCHANGED history,
         \A s \in Sessions : Sound(s, flows[s], new[s]), DiskStep(new), Rest
  PROVE  Core'
<1>1. \A s \in Sessions : Sound(s, flow[s], reg[s])' /\ \A n \in Numbers : FlowOK(s, n)'
  BY BecomesSound
<1>2. /\ reg' \in [Sessions -> [e : Records, m : Memory]]
      /\ flow' \in [Sessions -> Flows]
  <2>1. \A s \in Sessions : new[s] \in States
    BY DEF Sound
  <2>2. \A s \in Sessions : flow'[s] \in Flows /\ reg'[s] \in [e : Records, m : Memory]
    BY <2>1, BecomesFlow DEF Fewer
  <2>3. reg' = [s \in Sessions |-> reg'[s]] /\ flow' = [s \in Sessions |-> flow'[s]]
    BY DEF Becomes
  <2> QED BY <2>2, <2>3
<1>3. /\ disk' \in [Sessions -> Records]
      /\ \A s \in Sessions : RecordOK(s, flow'[s], disk'[s])
  <2>1. CASE Persist
    <3>1. \A s \in Sessions : disk'[s] = reg'[s].e /\ reg'[s].e \in Records
      BY <1>2, <2>1 DEF Persist
    <3>2. disk' \in [Sessions -> Records]
      BY <1>2, <2>1 DEF Persist
    <3>3. \A s \in Sessions : RecordOK(s, flow[s], reg[s].e)'
      BY <1>1 DEF Sound
    <3> QED BY <3>1, <3>2, <3>3 DEF RecordOK, Untold, Caused, Killed, history
  <2>2. CASE ~Persist
    <3>1. disk' \in [Sessions -> Records]
      BY <2>2 DEF DiskStep
    <3>2. ASSUME NEW s \in Sessions PROVE RecordOK(s, flow'[s], disk'[s])
      <4>1. RecordOK(s, flow[s], disk'[s]) /\ ~new[s].m.begun /\ disk'[s] \in Records
        BY <2>2, <3>1 DEF DiskStep
      <4>2. \A n \in Numbers : flow'[s][n].at \in {flow[s][n].at, "none"}
        <5>1. \A n \in Numbers : flow'[s][n].at = flows[s][n].at
          BY <4>1, BecomesFlow DEF Sound, Fewer
        <5> QED BY <5>1 DEF Fewer, NoFlow
      <4>3. \A n \in Numbers : Untold(s, flow[s], n) => Untold(s, flow'[s], n)
        BY <4>2 DEF Untold
      <4> QED BY <4>1, <4>2, <4>3 DEF RecordOK, Records
    <3> QED BY <3>1, <3>2
  <2> QED BY <2>1, <2>2
<1>4. announced' = announced /\ waived' = waived
  BY DEF history
<1>5. Shapes'
  BY <1>2, <1>3, <1>4 DEF Shapes, Rest, Core
<1>6. \A s \in Sessions : RecordOK(s, flow[s], disk[s])'
  BY <1>3, <1>4 DEF RecordOK, Untold, Caused, Killed
<1> QED BY <1>1, <1>5, <1>6 DEF Core

\* A session whose record keeps to its run keeps what is claimed of it; a steer may
\* begin to restart the run.
LEMMA ClaimsKept ==
  ASSUME IInv, NEW new, NEW flows, Fewer(flows), Becomes(new, flows), UNCHANGED history,
         NEW s \in Sessions, Sound(s, flows[s], new[s]), Keeps(reg[s], new[s]),
         DiskStep(new), fresh' \subseteq fresh,
         \A n \in Numbers : <<s, n>> \in steering' =>
            <<s, n>> \in steering \/ (Known(s) /\ reg[s].e.no = n /\ n < MaxRuns)
  PROVE  FreshOK(s)' /\ \A n \in Numbers : SteeringOK(s, n)'
<1>0. announced' = announced /\ waived' = waived
  BY DEF history
<1>1. /\ Known(s)' => Known(s) /\ reg'[s].e.no = reg[s].e.no
      /\ \A n \in Numbers :
            flow'[s][n].at # "none" =>
               flow[s][n].at # "none" \/ (Known(s) /\ n = reg[s].e.no)
  <2>1. /\ reg'[s].e = new[s].e
        /\ \A n \in Numbers :
              flow'[s][n].at = IF new[s].m.begun /\ n = new[s].e.no THEN "checking"
                               ELSE flows[s][n].at
    BY BecomesFlow DEF Sound, Fewer
  <2>2. \A n \in Numbers : flows[s][n].at \in {flow[s][n].at, "none"}
    BY DEF Fewer, NoFlow
  <2>3. new[s].m.begun => new[s].e.known
    BY DEF Sound
  <2> QED BY <2>1, <2>2, <2>3 DEF Keeps, Known
<1>2. FreshOK(s)'
  <2> SUFFICES ASSUME s \in fresh' PROVE /\ ~Known(s)' /\ ~disk'[s].known
                                         /\ \A k \in Numbers : /\ Untold(s, flow[s], k)'
                                                               /\ <<s, k>> \notin steering'
    BY DEF FreshOK
  <2>1. /\ ~Known(s) /\ ~disk[s].known
        /\ \A k \in Numbers : Untold(s, flow[s], k) /\ <<s, k>> \notin steering
    BY DEF IInv, Claims, FreshOK
  <2>2. ~Known(s)'
    BY <1>1, <2>1
  <2>3. ~disk'[s].known
    BY <2>1, <2>2 DEF DiskStep, Persist, Known
  <2>4. \A k \in Numbers : Untold(s, flow[s], k)'
    BY <1>0, <1>1, <2>1 DEF Untold
  <2> QED BY <2>1, <2>2, <2>3, <2>4
<1>3. ASSUME NEW n \in Numbers PROVE SteeringOK(s, n)'
  <2> SUFFICES ASSUME <<s, n>> \in steering'
               PROVE  /\ n < MaxRuns /\ (Known(s)' => reg'[s].e.no = n)
                      /\ \A k \in Numbers : k > n => Untold(s, flow[s], k)'
                      /\ \A k \in Numbers : <<s, k>> \in steering' => k = n
    BY DEF SteeringOK
  <2>0. Sound(s, flow[s], reg[s]) /\ reg[s].e.no \in Numbers
    BY DEF IInv, Core, Sound, States, Records
  <2>1. /\ n < MaxRuns /\ (Known(s) => reg[s].e.no = n)
        /\ \A k \in Numbers : k > n => Untold(s, flow[s], k)
        /\ \A k \in Numbers : <<s, k>> \in steering' => k = n
    <3>1. CASE <<s, n>> \in steering
      BY <3>1 DEF IInv, Claims, SteeringOK
    <3>2. CASE <<s, n>> \notin steering
      <4>1. Known(s) /\ reg[s].e.no = n /\ n < MaxRuns
        BY <3>2
      <4> QED BY <2>0, <4>1 DEF IInv, Claims, SteeringOK, Sound, RecordOK, Known
    <3> QED BY <3>1, <3>2
  <2>2. \A k \in Numbers : k > n => Untold(s, flow[s], k)'
    BY <1>0, <1>1, <2>1 DEF Untold, Numbers
  <2> QED BY <1>1, <2>1, <2>2
<1> QED BY <1>2, <1>3

\* Every step in which the registry becomes new and each record keeps to its run.
LEMMA BecomesInv ==
  ASSUME IInv, NEW new, NEW flows, Fewer(flows), Becomes(new, flows), UNCHANGED history,
         \A s \in Sessions : Sound(s, flows[s], new[s]) /\ Keeps(reg[s], new[s]),
         DiskStep(new), Rest, fresh' \subseteq fresh,
         \A s \in Sessions, n \in Numbers : <<s, n>> \in steering' =>
            <<s, n>> \in steering \/ (Known(s) /\ reg[s].e.no = n /\ n < MaxRuns)
  PROVE  IInv'
<1>1. Core'
  BY BecomesCore DEF IInv
<1>2. ASSUME NEW s \in Sessions PROVE FreshOK(s)' /\ \A n \in Numbers : SteeringOK(s, n)'
  BY ClaimsKept
<1> QED BY <1>1, <1>2 DEF IInv, Claims

\* PersistChanges writes whenever an announcement begins.
LEMMA ChangesAreWritten ==
  ASSUME IInv, NEW new, NEW flows, Fewer(flows), Becomes(new, flows), PersistChanges,
         \A s \in Sessions : Sound(s, flows[s], new[s]) /\ Keeps(reg[s], new[s])
  PROVE  DiskStep(new)
<1>1. CASE \E s \in Sessions : reg'[s].e # reg[s].e
  BY <1>1 DEF PersistChanges, DiskStep
<1>2. CASE ~\E s \in Sessions : reg'[s].e # reg[s].e
  <2>1. disk' = disk
    BY <1>2 DEF PersistChanges
  <2>2. \A s \in Sessions : new[s].e = reg[s].e
    BY <1>2, BecomesFlow DEF Sound, Fewer
  <2>3. \A s \in Sessions : ~new[s].m.begun
    BY <2>2 DEF Keeps
  <2> QED BY <2>1, <2>3 DEF DiskStep, IInv, Core, Shapes
<1> QED BY <1>1, <1>2

\* The file is left as it is and nothing begins.
LEMMA NothingWritten ==
  ASSUME IInv, NEW new, UNCHANGED disk, \A s \in Sessions : ~new[s].m.begun
  PROVE  DiskStep(new)
BY DEF DiskStep, IInv, Core, Shapes

LEMMA SoundNow ==
  ASSUME IInv, NEW s \in Sessions
  PROVE  /\ Sound(s, flow[s], reg[s]) /\ ~reg[s].m.begun /\ reg[s] \in States
         /\ flow[s] \in Flows /\ reg[s].e \in Records /\ reg[s].e.no \in Numbers
         /\ reg[s] \in [e : Records, m : Memory]
<1>1. reg[s] \in [e : Records, m : Memory] /\ Sound(s, flow[s], reg[s]) /\ flow[s] \in Flows
  BY DEF IInv, Core, Shapes
<1> QED BY <1>1 DEF Sound, States, Records, Memory

\* The same when one record changes.
LEMMA HereInv ==
  ASSUME IInv, NEW s \in Sessions, NEW r, BecomesHere(s, r), UNCHANGED history,
         Sound(s, flow[s], r), Keeps(reg[s], r), Rest, fresh' \subseteq fresh,
         \A t \in Sessions, n \in Numbers : <<t, n>> \in steering' =>
            <<t, n>> \in steering \/ (Known(t) /\ reg[t].e.no = n /\ n < MaxRuns),
         \/ Persist \/ PersistChanges \/ (UNCHANGED disk /\ ~r.m.begun)
         \/ DiskStep([reg EXCEPT ![s] = r])
  PROVE  IInv'
<1> DEFINE new == [reg EXCEPT ![s] = r]
<1>1. Becomes(new, flow)
  BY DEF BecomesHere
<1>2. Fewer(flow)
  BY DEF Fewer, IInv, Core, Shapes
<1>3. \A t \in Sessions : new[t] = IF t = s THEN r ELSE reg[t]
  BY DEF IInv, Core, Shapes
<1>4. \A t \in Sessions : Keeps(reg[t], reg[t]) /\ ~reg[t].m.begun
  BY SoundNow DEF Keeps
<1>5. ASSUME NEW t \in Sessions PROVE Sound(t, flow[t], new[t]) /\ Keeps(reg[t], new[t])
  BY <1>3, <1>4, SoundNow
<1>6. (UNCHANGED disk /\ ~r.m.begun) => DiskStep(new)
  BY <1>3, <1>4, NothingWritten
<1> HIDE DEF new
<1>7. PersistChanges => DiskStep(new)
  BY <1>1, <1>2, <1>5, ChangesAreWritten
<1>8. DiskStep(new)
  BY <1>6, <1>7 DEF DiskStep, new
<1> QED BY <1>1, <1>2, <1>5, <1>8, BecomesInv

-----------------------------------------------------------------------------
(* The runs and their ends *)

LEMMA RestKept ==
  ASSUME IInv, \/ UNCHANGED world
               \/ Trouble /\ UNCHANGED calm
               \/ UNCHANGED <<stored, fresh, up, troubles>> /\ steering' \subseteq steering
  PROVE  /\ Rest /\ fresh' \subseteq fresh
         /\ \A t \in Sessions, n \in Numbers : <<t, n>> \in steering' => <<t, n>> \in steering
BY SubagentRegistryAssumption DEF Rest, world, calm, Trouble, IInv, Core, Shapes

\* One thing about the memory of a session changes.
LEMMA MemoryChanges ==
  ASSUME NEW r \in States, ~r.m.begun
  PROVE  \A b \in BOOLEAN :
            /\ LET x == [r EXCEPT !.m.completing = b]
               IN  x \in States /\ x.e = r.e /\ x.m.completing = b /\ ~x.m.begun
            /\ LET x == [r EXCEPT !.m.waiting = b]
               IN  x \in States /\ x.e = r.e /\ x.m.completing = r.m.completing
                   /\ ~x.m.begun
            /\ LET x == [r EXCEPT !.m.timer = b]
               IN  x \in States /\ x.e = r.e /\ x.m.completing = r.m.completing
                   /\ ~x.m.begun
            /\ LET x == [r EXCEPT !.m.retimer = b, !.m.resumed = b]
               IN  x \in States /\ x.e = r.e /\ x.m.completing = r.m.completing
                   /\ ~x.m.begun
BY DEF States

LEMMA CompletionGoesOnInv ==
  ASSUME IInv, NEW s \in Sessions, CompletionGoesOn(s) PROVE IInv'
<1> DEFINE r == [reg[s] EXCEPT !.m.completing = FALSE]
           x == IF Steered(r) THEN r ELSE Started(r)
<1>1. BecomesHere(s, x) /\ Persist /\ UNCHANGED history /\ reg[s].m.completing
      /\ UNCHANGED world
  BY DEF CompletionGoesOn
<1>2. r \in States /\ r.e = reg[s].e /\ ~r.m.completing /\ ~r.m.begun
  BY SoundNow, MemoryChanges
<1> HIDE DEF r
<1>3. Sound(s, flow[s], r) /\ r.e.ended
  BY <1>1, <1>2, SoundNow, MemorySound DEF Sound
<1>4. Sound(s, flow[s], x) /\ Keeps(r, x)
  BY <1>2, <1>3, SoundNow, StartedSound DEF Keeps
<1>5. Keeps(reg[s], x)
  BY <1>2, <1>4 DEF Keeps
<1> HIDE DEF x
<1> QED BY <1>1, <1>4, <1>5, RestKept, HereInv

LEMMA LifecycleEndInv ==
  ASSUME IInv, NEW s \in Sessions, LifecycleEnd(s) PROVE IInv'
<1> DEFINE r == [reg[s] EXCEPT !.m.agent = "over"]
           x == Completing(r, "complete")
<1>1. BecomesHere(s, x) /\ UNCHANGED disk /\ UNCHANGED history /\ UNCHANGED world
  BY DEF LifecycleEnd
<1>2. r \in States /\ r.e = reg[s].e /\ r.m.completing = reg[s].m.completing /\ ~r.m.begun
  BY SoundNow DEF States
<1> HIDE DEF r
<1>3. Sound(s, flow[s], r)
  BY <1>2, SoundNow, MemorySound DEF Sound
<1>4. Sound(s, flow[s], x) /\ Keeps(r, x) /\ ~x.m.begun
  BY <1>2, <1>3, SoundNow, CompletingSound
<1>5. Keeps(reg[s], x)
  BY <1>2, <1>4 DEF Keeps
<1> HIDE DEF x
<1> QED BY <1>1, <1>4, <1>5, RestKept, HereInv

LEMMA LifecycleErrorInv ==
  ASSUME IInv, NEW s \in Sessions, LifecycleError(s) PROVE IInv'
<1> DEFINE r == [reg[s] EXCEPT !.m.agent = "failed"]
<1>1. BecomesHere(s, r) /\ UNCHANGED disk /\ UNCHANGED history /\ Trouble /\ UNCHANGED calm
  BY DEF LifecycleError
<1>2. r \in States /\ r.e = reg[s].e /\ r.m.completing = reg[s].m.completing /\ ~r.m.begun
  BY SoundNow DEF States
<1> HIDE DEF r
<1>3. Sound(s, flow[s], r) /\ Keeps(reg[s], r)
  BY <1>2, SoundNow, MemorySound DEF Sound
<1> QED BY <1>1, <1>2, <1>3, RestKept, HereInv

LEMMA LifecycleStartInv ==
  ASSUME IInv, NEW s \in Sessions, LifecycleStart(s) PROVE IInv'
<1> DEFINE r == [reg[s] EXCEPT !.m.agent = "running"]
<1>1. BecomesHere(s, r) /\ Persist /\ UNCHANGED history /\ UNCHANGED world
  BY DEF LifecycleStart
<1>2. r \in States /\ r.e = reg[s].e /\ r.m.completing = reg[s].m.completing /\ ~r.m.begun
  BY SoundNow DEF States
<1> HIDE DEF r
<1>3. Sound(s, flow[s], r) /\ Keeps(reg[s], r)
  BY <1>2, SoundNow, MemorySound DEF Sound
<1> QED BY <1>1, <1>2, <1>3, RestKept, HereInv

LEMMA GraceOverInv ==
  ASSUME IInv, NEW s \in Sessions, GraceOver(s) PROVE IInv'
<1>1. PICK agent \in {"running", "over"} :
         LET r == [reg[s] EXCEPT !.m.agent = agent]
         IN BecomesHere(s, IF r.e.ok THEN r ELSE Completing(r, "error"))
  BY DEF GraceOver
<1> DEFINE r == [reg[s] EXCEPT !.m.agent = agent]
           x == IF r.e.ok THEN r ELSE Completing(r, "error")
<1>2. BecomesHere(s, x) /\ UNCHANGED disk /\ UNCHANGED history /\ UNCHANGED world
  BY <1>1 DEF GraceOver
<1>3. r \in States /\ r.e = reg[s].e /\ r.m.completing = reg[s].m.completing /\ ~r.m.begun
  BY SoundNow DEF States
<1> HIDE DEF r
<1>4. Sound(s, flow[s], r) /\ Keeps(reg[s], r)
  BY <1>3, SoundNow, MemorySound DEF Sound
<1>5. Sound(s, flow[s], x) /\ Keeps(r, x) /\ ~x.m.begun
  <2>1. /\ Sound(s, flow[s], Completing(r, "error")) /\ Keeps(r, Completing(r, "error"))
        /\ ~Completing(r, "error").m.begun
    BY <1>3, <1>4, SoundNow, CompletingSound
  <2> QED BY <1>3, <1>4, <2>1 DEF Keeps
<1>6. Keeps(reg[s], x)
  BY <1>3, <1>5 DEF Keeps
<1> HIDE DEF x
<1> QED BY <1>2, <1>5, <1>6, RestKept, HereInv

LEMMA WaitReturnsInv ==
  ASSUME IInv, NEW s \in Sessions, NEW reason, WaitReturns(s, reason) PROVE IInv'
<1> DEFINE r == [reg[s] EXCEPT !.m.waiting = FALSE]
           x == Completing(r, reason)
           new == [reg EXCEPT ![s] = x]
<1>1. /\ BecomesHere(s, x) /\ UNCHANGED history /\ UNCHANGED world /\ Known(s)
      /\ disk' = [t \in Sessions |->
                     IF t = s THEN [reg[s].e EXCEPT !.ended = TRUE] ELSE reg[t].e]
  BY DEF WaitReturns
<1>2. r \in States /\ r.e = reg[s].e /\ r.m.completing = reg[s].m.completing /\ ~r.m.begun
  BY SoundNow, MemoryChanges
<1> HIDE DEF r
<1>3. Sound(s, flow[s], r)
  BY <1>2, SoundNow, MemorySound DEF Sound
<1>4. Sound(s, flow[s], x) /\ Keeps(r, x) /\ ~x.m.begun
  BY <1>2, <1>3, SoundNow, CompletingSound
<1>5. Keeps(reg[s], x)
  BY <1>2, <1>4 DEF Keeps
<1> HIDE DEF x
<1>6. DiskStep(new)
  <2>1. \A t \in Sessions : ~new[t].m.begun
    BY <1>4, SoundNow DEF IInv, Core, Shapes
  <2>2. [reg[s].e EXCEPT !.ended = TRUE] \in Records
    BY SoundNow DEF Records
  <2>3. RecordOK(s, flow[s], [reg[s].e EXCEPT !.ended = TRUE])
    <3> DEFINE e == reg[s].e
    <3>1. RecordOK(s, flow[s], e) /\ e \in Records
      BY SoundNow DEF Sound
    <3> HIDE DEF e
    <3>2. RecordOK(s, flow[s], [e EXCEPT !.ended = TRUE])
      BY <3>1 DEF RecordOK, Caused, Killed, Records
    <3> QED BY <3>2 DEF e
  <2>4. ASSUME NEW t \in Sessions
        PROVE  /\ disk'[t] \in Records /\ RecordOK(t, flow[t], disk'[t])
               /\ disk'[t].known => Known(t)
    <3>1. CASE t = s
      BY <1>1, <2>2, <2>3, <3>1
    <3>2. CASE t # s
      <4>1. disk'[t] = reg[t].e
        BY <1>1, <3>2
      <4> QED BY <4>1, SoundNow DEF Sound, Known
    <3> QED BY <3>1, <3>2
  <2>5. disk' \in [Sessions -> Records]
    BY <1>1, <2>4
  <2> QED BY <2>1, <2>4, <2>5 DEF DiskStep
<1> QED BY <1>1, <1>4, <1>5, <1>6, RestKept, HereInv

LEMMA WaitFailsInv ==
  ASSUME IInv, NEW s \in Sessions, WaitFails(s) PROVE IInv'
<1> DEFINE r == [reg[s] EXCEPT !.m.waiting = FALSE]
<1>1. BecomesHere(s, r) /\ UNCHANGED disk /\ UNCHANGED history /\ Trouble /\ UNCHANGED calm
  BY DEF WaitFails
<1>2. r \in States /\ r.e = reg[s].e /\ r.m.completing = reg[s].m.completing /\ ~r.m.begun
  BY SoundNow, MemoryChanges
<1> HIDE DEF r
<1>3. Sound(s, flow[s], r) /\ Keeps(reg[s], r)
  BY <1>2, SoundNow, MemorySound DEF Sound
<1> QED BY <1>1, <1>2, <1>3, RestKept, HereInv

-----------------------------------------------------------------------------
(* The timers *)

LEMMA TimerFiresInv ==
  ASSUME IInv, NEW s \in Sessions, TimerFires(s) PROVE IInv'
<1> DEFINE r == [reg[s] EXCEPT !.m.timer = FALSE]
           x == Resumed(s, r)
<1>1. BecomesHere(s, x) /\ PersistChanges /\ UNCHANGED history /\ UNCHANGED world
  BY DEF TimerFires
<1>2. r \in States /\ r.e = reg[s].e /\ r.m.completing = reg[s].m.completing /\ ~r.m.begun
  BY SoundNow, MemoryChanges
<1> HIDE DEF r
<1>3. Sound(s, flow[s], r)
  BY <1>2, SoundNow, MemorySound DEF Sound
<1>4. Sound(s, flow[s], x) /\ Keeps(r, x)
  BY <1>2, <1>3, SoundNow, ResumedSound
<1>5. Keeps(reg[s], x)
  BY <1>2, <1>4 DEF Keeps
<1> HIDE DEF x
<1> QED BY <1>1, <1>4, <1>5, RestKept, HereInv

LEMMA RetimerFiresInv ==
  ASSUME IInv, NEW s \in Sessions, RetimerFires(s) PROVE IInv'
<1> DEFINE r == [reg[s] EXCEPT !.m.retimer = FALSE, !.m.resumed = FALSE]
           x == Resumed(s, r)
<1>1. BecomesHere(s, x) /\ PersistChanges /\ UNCHANGED history /\ UNCHANGED world
  BY DEF RetimerFires
<1>2. r \in States /\ r.e = reg[s].e /\ r.m.completing = reg[s].m.completing /\ ~r.m.begun
  BY SoundNow, MemoryChanges
<1> HIDE DEF r
<1>3. Sound(s, flow[s], r)
  BY <1>2, SoundNow, MemorySound DEF Sound
<1>4. Sound(s, flow[s], x) /\ Keeps(r, x)
  BY <1>2, <1>3, SoundNow, ResumedSound
<1>5. Keeps(reg[s], x)
  BY <1>2, <1>4 DEF Keeps
<1> HIDE DEF x
<1> QED BY <1>1, <1>4, <1>5, RestKept, HereInv

\* An expiry only adds a cause.
LEMMA ExpireInv ==
  ASSUME IInv, NEW s \in Sessions, Expire(s) PROVE IInv'
<1> DEFINE o == reg[s]
           x == [o EXCEPT !.e.expired = TRUE]
           d == [disk[s] EXCEPT !.expired = disk[s].ended]
           new == [reg EXCEPT ![s] = x]
<1>1. /\ BecomesHere(s, x) /\ UNCHANGED history /\ UNCHANGED world
      /\ Known(s) /\ reg[s].e.ended /\ disk' = [disk EXCEPT ![s].expired = disk[s].ended]
  BY DEF Expire
<1>a. o \in States /\ o.e \in Records /\ ~o.m.begun
  BY SoundNow
<1> HIDE DEF o
<1>b. /\ x \in States /\ x.e = [o.e EXCEPT !.expired = TRUE] /\ x.m = o.m
      /\ ~x.m.begun
  BY <1>a DEF States, Records
<1> USE DEF o
<1>2. /\ x \in States /\ x.e = [reg[s].e EXCEPT !.expired = TRUE] /\ x.m = reg[s].m
      /\ ~x.m.begun
  BY <1>b
<1>3. RecordOK(s, flow[s], [reg[s].e EXCEPT !.expired = TRUE])
  <2> DEFINE e == reg[s].e
  <2>1. RecordOK(s, flow[s], e) /\ e \in Records /\ e.ended
    BY <1>1, SoundNow DEF Sound
  <2> HIDE DEF e
  <2>2. RecordOK(s, flow[s], [e EXCEPT !.expired = TRUE])
    BY <2>1 DEF RecordOK, Caused, Killed, Records
  <2> QED BY <2>2 DEF e
<1>4. RecordOK(s, flow[s], d) /\ d \in Records /\ d.known = disk[s].known
  <2> DEFINE e == disk[s]
  <2>1. RecordOK(s, flow[s], e) /\ e \in Records
    BY DEF IInv, Core, Shapes
  <2>2. d = [e EXCEPT !.expired = e.ended]
    OBVIOUS
  <2> HIDE DEF e, d
  <2>3. RecordOK(s, flow[s], d) /\ d \in Records /\ d.known = e.known
    BY <2>1, <2>2 DEF RecordOK, Caused, Killed, Records
  <2> QED BY <2>3 DEF e
<1>5. Sound(s, flow[s], x) /\ Keeps(reg[s], x)
  <2>1. x.e.known = reg[s].e.known /\ x.e.no = reg[s].e.no
        /\ x.e.completed = reg[s].e.completed /\ x.e.ended = reg[s].e.ended
    BY <1>2, SoundNow DEF Records
  <2> HIDE DEF x
  <2> QED BY <1>2, <1>3, <2>1, SoundNow DEF Sound, Keeps
<1>6. DiskStep(new)
  <2>1. \A t \in Sessions : ~new[t].m.begun
    BY <1>2, SoundNow DEF IInv, Core, Shapes
  <2>2. disk \in [Sessions -> Records]
    BY DEF IInv, Core, Shapes
  <2>3. \A t \in Sessions : disk'[t] = IF t = s THEN d ELSE disk[t]
    BY <1>1, <2>2
  <2> HIDE DEF d, new
  <2>4. \A t \in Sessions : /\ disk'[t] \in Records /\ RecordOK(t, flow[t], disk'[t])
                            /\ disk'[t].known => disk[t].known
    BY <1>4, <2>2, <2>3 DEF IInv, Core
  <2>5. disk' \in [Sessions -> Records]
    BY <1>1, <2>2, <2>4
  <2> QED BY <2>1, <2>4, <2>5 DEF DiskStep
<1> HIDE DEF x
<1> QED BY <1>1, <1>5, <1>6, RestKept, HereInv

-----------------------------------------------------------------------------
(* Kills, steers, archiving and restarts *)

\* A run that is killed had not ended: nothing was told of it and no try was made.
LEMMA KillInv ==
  ASSUME IInv, NEW s \in Sessions, Kill(s) PROVE IInv'
<1> DEFINE r == reg[s]
           x == [r EXCEPT !.e.ended = TRUE, !.e.ok = FALSE,
                          !.e.handled = TRUE, !.e.completed = TRUE, !.e.suppress = "killed",
                          !.m.agent = IF @ = "failed" THEN "over" ELSE @]
           e == [r.e EXCEPT !.ended = TRUE, !.ok = FALSE, !.handled = TRUE,
                            !.completed = TRUE, !.suppress = "killed"]
<1>1. /\ BecomesHere(s, x) /\ Persist /\ UNCHANGED history /\ Trouble /\ UNCHANGED calm
      /\ Known(s) /\ ~r.e.ended
  BY DEF Kill
<1>2. Sound(s, flow[s], r) /\ r \in States /\ r.e \in Records /\ ~r.m.begun
      /\ r.e.known /\ r.e.no \in Numbers
  BY <1>1, SoundNow DEF Known
<1> HIDE DEF r
<1>3. x \in States /\ x.e = e /\ ~x.m.begun
  BY <1>2 DEF States, Records
<1>4. r.e.retries = 0 /\ Untold(s, flow[s], r.e.no)
  BY <1>1, <1>2 DEF Sound, RecordOK, Records
<1>5. RecordOK(s, flow[s], e)
  BY <1>2, <1>4, SubagentRegistryAssumption
     DEF Sound, RecordOK, Caused, Killed, Records, Untold
<1>6. e.known /\ e.no = r.e.no /\ e.ended
  BY <1>2 DEF Records
<1> HIDE DEF x, e
<1>7. Sound(s, flow[s], x)
  BY <1>3, <1>4, <1>5, <1>6 DEF Sound, Untold
<1>8. Keeps(reg[s], x)
  BY <1>2, <1>3, <1>6 DEF Keeps, r
<1> QED BY <1>1, <1>7, <1>8, RestKept, HereInv

LEMMA SteerMarksInv ==
  ASSUME IInv, NEW s \in Sessions, SteerMarks(s) PROVE IInv'
<1> DEFINE r == reg[s]
           x == [r EXCEPT !.e.suppress = "steer-restart"]
           e == [r.e EXCEPT !.suppress = "steer-restart"]
<1>1. /\ BecomesHere(s, x) /\ Persist /\ UNCHANGED history /\ Trouble
      /\ UNCHANGED <<stored, fresh, up>> /\ steering' = steering \cup {<<s, r.e.no>>}
      /\ Known(s) /\ ~r.e.ended /\ r.e.no < MaxRuns
  BY DEF SteerMarks
<1>2. Sound(s, flow[s], r) /\ r \in States /\ r.e \in Records /\ ~r.m.begun
      /\ r.e.known /\ r.e.no \in Numbers
  BY <1>1, SoundNow DEF Known
<1>0. Rest /\ fresh' \subseteq fresh
  BY <1>1, <1>2, SubagentRegistryAssumption DEF Rest, Trouble, IInv, Core, Shapes
<1>3. \A t \in Sessions, n \in Numbers : <<t, n>> \in steering' =>
         <<t, n>> \in steering \/ (Known(t) /\ reg[t].e.no = n /\ n < MaxRuns)
  BY <1>1
<1> HIDE DEF r
<1>4. x \in States /\ x.e = e /\ x.m = r.m
  BY <1>2 DEF States, Records
<1>5. RecordOK(s, flow[s], e)
  BY <1>1, <1>2 DEF Sound, RecordOK, Caused, Killed, Records
<1>6. e.known /\ e.no = r.e.no /\ e.ended = r.e.ended /\ e.completed = r.e.completed
  BY <1>2 DEF Records
<1> HIDE DEF x, e
<1>7. Sound(s, flow[s], x)
  BY <1>2, <1>4, <1>5, <1>6 DEF Sound
<1>8. Keeps(reg[s], x)
  BY <1>2, <1>4, <1>6 DEF Keeps, r
<1> QED BY <1>0, <1>1, <1>3, <1>7, <1>8, HereInv

\* Only a record that the steer marked is given back: none that was killed.
LEMMA SteerFailsInv ==
  ASSUME IInv, NEW s \in Sessions, NEW n \in Numbers, SteerFails(s, n) PROVE IInv'
<1> DEFINE o == reg[s]
           r == [o EXCEPT !.e.suppress = "none", !.m.resumed = FALSE]
           again == IF r.e.ended /\ ~r.e.completed THEN Resumed(s, r) ELSE r
           x == IF IsRun(s, n) /\ Steered(o) THEN again ELSE o
           e == [o.e EXCEPT !.suppress = "none"]
<1>1. /\ BecomesHere(s, x) /\ PersistChanges /\ UNCHANGED history
      /\ steering' = steering \ {<<s, n>>} /\ UNCHANGED <<stored, fresh, up, troubles>>
  BY DEF SteerFails
<1>2. Sound(s, flow[s], o) /\ o \in States /\ o.e \in Records /\ ~o.m.begun /\ flow[s] \in Flows
  BY SoundNow
<1> HIDE DEF o
<1>3. r \in States /\ r.e = e /\ ~r.m.begun /\ r.m.completing = o.m.completing
  BY <1>2 DEF States, Records
<1>4. Steered(o) => Sound(s, flow[s], r)
  <2> HAVE Steered(o)
  <2>1. ~Killed(o.e)
    BY DEF Steered, Killed
  <2>2. RecordOK(s, flow[s], e)
    BY <1>2, <2>1 DEF Sound, RecordOK, Caused, Killed, Records
  <2>3. e.known = o.e.known /\ e.no = o.e.no /\ e.ended = o.e.ended
        /\ e.completed = o.e.completed
    BY <1>2 DEF Records
  <2> HIDE DEF r, e
  <2> QED BY <1>2, <1>3, <2>2, <2>3 DEF Sound
<1>5. r.e.known = o.e.known /\ r.e.no = o.e.no /\ r.e.handled = o.e.handled
  BY <1>2, <1>3 DEF Records
<1> HIDE DEF r
<1>6. Steered(o) => Sound(s, flow[s], again) /\ Keeps(r, again)
  BY <1>2, <1>3, <1>4, ResumedSound DEF Keeps
<1>7. Sound(s, flow[s], x) /\ Keeps(o, x)
  BY <1>2, <1>5, <1>6 DEF Keeps
<1> HIDE DEF x
<1> QED BY <1>1, <1>7, RestKept, HereInv DEF o

LEMMA SweepInv ==
  ASSUME IInv, NEW s \in Sessions, Sweep(s) PROVE IInv'
<1>1. /\ BecomesHere(s, Forgotten) /\ (Persist \/ UNCHANGED disk) /\ UNCHANGED history
      /\ Trouble /\ stored' = stored \ {s} /\ UNCHANGED <<fresh, steering, up>>
  BY DEF Sweep
<1>2. Rest /\ fresh' \subseteq fresh
  BY <1>1, SubagentRegistryAssumption DEF Rest, Trouble, IInv, Core, Shapes
<1>3. Sound(s, flow[s], Forgotten) /\ Keeps(reg[s], Forgotten) /\ ~Forgotten.m.begun
  BY SoundNow, ForgottenSound DEF Keeps, Forgotten, NoEntry, Nothing
<1> QED BY <1>1, <1>2, <1>3, HereInv

\* A stop of the gateway forgets the announcements, and the file takes over.
LEMMA CrashInv ==
  ASSUME IInv, Crash PROVE IInv'
<1> DEFINE silent == [n \in Numbers |-> NoFlow]
<1>1. /\ reg' = [s \in Sessions |-> [e |-> disk[s], m |-> Nothing]]
      /\ flow' = [s \in Sessions |-> silent] /\ steering' = {} /\ up' = FALSE
      /\ disk' = disk /\ stored' = stored /\ fresh' = fresh
      /\ announced' = announced /\ waived' = waived /\ Trouble
  BY DEF Crash, history
<1>2. silent \in Flows /\ \A n \in Numbers : silent[n].at = "none"
  BY NoFlowIs DEF Flows
<1>3. ASSUME NEW s \in Sessions, NEW e, RecordOK(s, flow[s], e) PROVE RecordOK(s, silent, e)
  <2>1. \A n \in Numbers : Untold(s, flow[s], n) => Untold(s, silent, n)
    BY <1>2 DEF Untold
  <2>2. e \in Records /\ e.no \in Numbers
    BY <1>3 DEF RecordOK, Records
  <2> HIDE DEF silent
  <2> QED BY <1>2, <1>3, <2>1, <2>2 DEF RecordOK
<1> HIDE DEF silent
<1>4. ASSUME NEW s \in Sessions
      PROVE  /\ reg'[s].e = disk[s] /\ reg'[s].m = Nothing /\ flow'[s] = silent
             /\ reg'[s] \in [e : Records, m : Memory] /\ reg'[s] \in States
             /\ RecordOK(s, silent, disk[s])
  <2>1. disk[s] \in Records /\ RecordOK(s, flow[s], disk[s])
    BY DEF IInv, Core, Shapes
  <2>2. reg'[s] = [e |-> disk[s], m |-> Nothing]
    BY <1>1
  <2> QED BY <1>1, <1>3, <2>1, <2>2 DEF Nothing, Memory, States
<1>5. Shapes'
  <2>1. reg' \in [Sessions -> [e : Records, m : Memory]] /\ flow' \in [Sessions -> Flows]
    BY <1>1, <1>2, <1>4
  <2>2. troubles' \in 0..MaxTroubles
    BY <1>1, SubagentRegistryAssumption DEF Trouble, IInv, Core, Shapes
  <2> QED BY <1>1, <2>1, <2>2 DEF IInv, Core, Shapes
<1>6. ASSUME NEW s \in Sessions PROVE Sound(s, flow[s], reg[s])'
  <2>1. RecordOK(s, flow[s], reg[s].e)'
    BY <1>1, <1>4 DEF RecordOK, Untold, Caused, Killed
  <2>2. reg'[s].e.no \in Numbers
    BY <1>4 DEF States, Records
  <2> QED BY <1>2, <1>4, <2>1, <2>2 DEF Sound, Nothing
<1>7. ASSUME NEW s \in Sessions PROVE RecordOK(s, flow[s], disk[s])'
  BY <1>1, <1>4 DEF RecordOK, Untold, Caused, Killed
<1>8. ASSUME NEW s \in Sessions, NEW n \in Numbers PROVE FlowOK(s, n)' /\ SteeringOK(s, n)'
  <2>1. flow'[s][n].at = "none"
    BY <1>2, <1>4
  <2>2. announced[s][n] \in {0, 1}
    BY DEF IInv, Core, FlowOK
  <2> QED BY <1>1, <2>1, <2>2 DEF FlowOK, SteeringOK
<1>9. ASSUME NEW s \in Sessions PROVE FreshOK(s)'
  <2>1. FreshOK(s)
    BY DEF IInv, Claims
  <2> QED BY <1>1, <1>2, <1>4, <2>1 DEF FreshOK, Known, Untold
<1> QED BY <1>5, <1>6, <1>7, <1>8, <1>9 DEF IInv, Core, Claims

LEMMA RestartInv ==
  ASSUME IInv, Restart PROVE IInv'
<1> DEFINE new == [s \in Sessions |-> Resumed(s, reg[s])]
<1>1. /\ Becomes(new, flow) /\ PersistChanges /\ UNCHANGED history /\ up' = TRUE
      /\ UNCHANGED <<stored, fresh, steering, troubles>>
  BY DEF Restart
<1>2. Rest /\ fresh' \subseteq fresh /\ Fewer(flow)
  BY <1>1 DEF Rest, Fewer, IInv, Core, Shapes
<1>3. ASSUME NEW s \in Sessions PROVE Sound(s, flow[s], new[s]) /\ Keeps(reg[s], new[s])
  BY SoundNow, ResumedSound
<1> HIDE DEF new
<1>4. DiskStep(new)
  BY <1>1, <1>2, <1>3, ChangesAreWritten
<1> QED BY <1>1, <1>2, <1>3, <1>4, BecomesInv

-----------------------------------------------------------------------------
(* Runs that are started in a session *)

LEMMA RunningSound ==
  ASSUME NEW s \in Sessions, NEW f \in Flows, NEW no \in Numbers, NEW woken \in BOOLEAN,
         \A k \in Numbers : k >= no => Untold(s, f, k)
  PROVE  Sound(s, f, Running(no, woken)) /\ ~Running(no, woken).m.begun
<1> DEFINE r == Running(no, woken)
<1>1. /\ r.e = [NoEntry EXCEPT !.known = TRUE, !.no = no, !.woken = woken]
      /\ r.m = [Nothing EXCEPT !.agent = "running", !.waiting = TRUE]
      /\ r = [e |-> r.e, m |-> r.m]
  BY DEF Running
<1>2. NoEntry \in Records
  BY SubagentRegistryAssumption DEF NoEntry, Records, Numbers
<1>3. r.e \in Records /\ r.e.no = no /\ ~r.e.ended /\ ~r.e.completed /\ ~r.e.handled
      /\ ~r.e.expired /\ r.e.retries = 0 /\ r.e.suppress = "none"
  BY <1>1, <1>2 DEF NoEntry, Records
<1>4. ~r.m.completing /\ ~r.m.begun /\ r.m.agent = "running" /\ r \in States
  BY <1>1, <1>3 DEF Nothing, States
<1> HIDE DEF r
<1>5. Untold(s, f, no) /\ \A k \in Numbers : k > no => Untold(s, f, k)
  BY DEF Numbers
<1>6. RecordOK(s, f, r.e)
  BY <1>3, <1>5, SubagentRegistryAssumption DEF RecordOK, Killed
<1>7. Sound(s, f, r) /\ ~r.m.begun
  BY <1>3, <1>4, <1>6 DEF Sound
<1> QED BY <1>7 DEF r

\* A run starts in a session that no steer is restarting any more.
LEMMA RunningInv ==
  ASSUME IInv, NEW s \in Sessions, NEW no \in Numbers, NEW woken \in BOOLEAN, NEW flows,
         Fewer(flows), Becomes([reg EXCEPT ![s] = Running(no, woken)], flows),
         \A k \in Numbers : k >= no => Untold(s, flows[s], k),
         Persist, UNCHANGED history, Rest, fresh' \subseteq fresh, s \notin fresh',
         steering' \subseteq steering, \A k \in Numbers : <<s, k>> \notin steering'
  PROVE  IInv'
<1> DEFINE new == [reg EXCEPT ![s] = Running(no, woken)]
<1>1. \A t \in Sessions : new[t] = IF t = s THEN Running(no, woken) ELSE reg[t]
  BY DEF IInv, Core, Shapes
<1>2. \A t \in Sessions : flows[t] \in Flows
  BY DEF Fewer
<1>3. ASSUME NEW t \in Sessions PROVE Sound(t, flows[t], new[t])
  <2>1. CASE t = s
    BY <1>1, <1>2, <2>1, RunningSound
  <2>2. CASE t # s
    <3>1. \A n \in Numbers : flows[t][n].at \in {flow[t][n].at, "none"}
      BY DEF Fewer, NoFlow
    <3>2. Sound(t, flows[t], reg[t])
      BY <1>2, <3>1, SoundNow, ClearedSound
    <3> QED BY <1>1, <2>2, <3>2
  <2> QED BY <2>1, <2>2
<1>4. \A t \in Sessions : t # s => Keeps(reg[t], new[t])
  BY <1>1, SoundNow DEF Keeps
<1> HIDE DEF new
<1>5. DiskStep(new)
  BY DEF DiskStep
<1>6. Core'
  BY <1>3, <1>5, BecomesCore DEF IInv, new
<1>7. ASSUME NEW t \in Sessions
      PROVE  FreshOK(t)' /\ \A n \in Numbers : SteeringOK(t, n)'
  <2>1. CASE t = s
    BY <2>1 DEF FreshOK, SteeringOK
  <2>2. CASE t # s
    <3>1. Becomes(new, flows)
      BY DEF new
    <3> QED BY <1>3, <1>4, <1>5, <2>2, <3>1, ClaimsKept
  <2> QED BY <2>1, <2>2
<1> QED BY <1>6, <1>7 DEF IInv, Claims

LEMMA RegisterInv ==
  ASSUME IInv, NEW s \in Sessions, Register(s) PROVE IInv'
<1>1. /\ Becomes([reg EXCEPT ![s] = Running(0, FALSE)], flow) /\ Persist /\ UNCHANGED history
      /\ s \in fresh /\ stored' = stored \cup {s} /\ fresh' = fresh \ {s}
      /\ UNCHANGED <<steering, up, troubles>>
  BY DEF Register, BecomesHere, history
<1>2. Rest /\ fresh' \subseteq fresh /\ s \notin fresh'
  BY <1>1 DEF Rest, IInv, Core, Shapes
<1>3. Fewer(flow)
  BY DEF Fewer, IInv, Core, Shapes
<1>4. \A k \in Numbers : Untold(s, flow[s], k) /\ <<s, k>> \notin steering'
  BY <1>1 DEF IInv, Claims, FreshOK
<1>5. 0 \in Numbers
  BY SubagentRegistryAssumption DEF Numbers
<1> QED BY <1>1, <1>2, <1>3, <1>4, <1>5, RunningInv

LEMMA WakeInv ==
  ASSUME IInv, NEW s \in Sessions, NEW n \in Numbers, Wake(s, n) PROVE IInv'
<1> DEFINE flows == [flow EXCEPT ![s][n] = NoFlow]
<1>1. /\ Becomes([reg EXCEPT ![s] = Running(n + 1, TRUE)], flows) /\ Persist
      /\ UNCHANGED history /\ UNCHANGED world /\ Known(s) /\ reg[s].e.no = n /\ n < MaxRuns
      /\ \A k \in Numbers : <<s, k>> \notin steering
  BY DEF Wake, IsRun
<1>2. Rest /\ fresh' \subseteq fresh /\ steering' \subseteq steering
  BY <1>1, RestKept DEF world
<1>3. Fewer(flows)
  BY NoFlowIs DEF Fewer, IInv, Core, Shapes, Flows
<1>4. s \notin fresh'
  BY <1>1, <1>2 DEF IInv, Claims, FreshOK
<1>5. n + 1 \in Numbers
  BY <1>1, SubagentRegistryAssumption DEF Numbers
<1>6. \A k \in Numbers : k >= n + 1 => Untold(s, flows[s], k)
  <2> SUFFICES ASSUME NEW k \in Numbers, k >= n + 1 PROVE Untold(s, flows[s], k)
    OBVIOUS
  <2>1. k > n
    BY DEF Numbers
  <2>2. Untold(s, flow[s], k)
    BY <1>1, <2>1, SoundNow DEF Sound, RecordOK, Known
  <2>3. flows[s][k].at \in {flow[s][k].at, "none"}
    BY <1>3 DEF Fewer, NoFlow
  <2> QED BY <2>2, <2>3 DEF Untold
<1> HIDE DEF flows
<1> QED BY <1>1, <1>2, <1>3, <1>4, <1>5, <1>6, RunningInv

LEMMA SteerSucceedsInv ==
  ASSUME IInv, NEW s \in Sessions, NEW n \in Numbers, SteerSucceeds(s, n) PROVE IInv'
<1>1. /\ Becomes([reg EXCEPT ![s] = Running(n + 1, FALSE)], flow) /\ Persist
      /\ UNCHANGED history /\ <<s, n>> \in steering /\ steering' = steering \ {<<s, n>>}
      /\ stored' = stored \cup {s} /\ UNCHANGED <<fresh, up, troubles>>
  BY DEF SteerSucceeds, BecomesHere, history
<1>2. /\ n < MaxRuns /\ \A k \in Numbers : k > n => Untold(s, flow[s], k)
      /\ \A k \in Numbers : <<s, k>> \in steering => k = n
  BY <1>1 DEF IInv, Claims, SteeringOK
<1>3. Rest /\ fresh' \subseteq fresh /\ steering' \subseteq steering
  BY <1>1 DEF Rest, IInv, Core, Shapes
<1>4. Fewer(flow)
  BY DEF Fewer, IInv, Core, Shapes
<1>5. s \notin fresh'
  BY <1>1 DEF IInv, Claims, FreshOK
<1>6. n + 1 \in Numbers /\ \A k \in Numbers : k >= n + 1 => Untold(s, flow[s], k)
  BY <1>2, SubagentRegistryAssumption DEF Numbers
<1>7. \A k \in Numbers : <<s, k>> \notin steering'
  BY <1>1, <1>2
<1> QED BY <1>1, <1>3, <1>4, <1>5, <1>6, <1>7, RunningInv

-----------------------------------------------------------------------------
(* Announcements and their ends *)

\* An announcement of the run that is there: the run is claimed and still open.
LEMMA Announcing ==
  ASSUME IInv, NEW s \in Sessions, NEW n \in Numbers, IsRun(s, n), flow[s][n].at # "none",
         NEW flows, flows = [flow EXCEPT ![s][n] = NoFlow]
  PROVE  /\ Fewer(flows)
         /\ flows[s][n].at = "none"
         /\ \A t \in Sessions : Sound(t, flows[t], reg[t])
         /\ reg[s].e.known /\ reg[s].e.no = n
         /\ reg[s].e.handled /\ reg[s].e.ended /\ ~reg[s].e.completed /\ ~Killed(reg[s].e)
<1>1. Fewer(flows)
  BY NoFlowIs DEF Fewer, IInv, Core, Shapes, Flows
<1>2. flows[s][n].at = "none"
  BY DEF IInv, Core, Shapes, Flows, NoFlow
<1>3. ASSUME NEW t \in Sessions PROVE Sound(t, flows[t], reg[t])
  <2>1. \A k \in Numbers : flows[t][k].at \in {flow[t][k].at, "none"}
    BY <1>1 DEF Fewer, NoFlow
  <2>2. flows[t] \in Flows
    BY <1>1 DEF Fewer
  <2> QED BY <2>1, <2>2, SoundNow, ClearedSound
<1>4. reg[s].e.known /\ reg[s].e.no = n
  BY DEF IsRun, Known
<1>5. ~Untold(s, flow[s], n)
  BY DEF Untold
<1>6. reg[s].e.handled /\ reg[s].e.ended /\ ~Killed(reg[s].e)
  BY <1>4, <1>5, SoundNow DEF Sound, RecordOK
<1>7. ~reg[s].e.completed
  BY DEF IInv, Core, FlowOK
<1> QED BY <1>1, <1>2, <1>3, <1>4, <1>6, <1>7

LEMMA ClosesInv ==
  ASSUME IInv, NEW s \in Sessions, NEW n \in Numbers, NEW r, Closes(s, n, r), IsRun(s, n),
         flow[s][n].at # "none", Sound(s, [flow[s] EXCEPT ![n] = NoFlow], r),
         Keeps(reg[s], r)
  PROVE  IInv'
<1> DEFINE flows == [flow EXCEPT ![s][n] = NoFlow]
           new == [t \in Sessions |-> IF t = s THEN r ELSE Retried(t, reg[t])]
<1>1. Becomes(new, flows) /\ Persist /\ UNCHANGED world /\ UNCHANGED history
  BY DEF Closes
<1>2. Fewer(flows) /\ \A t \in Sessions : Sound(t, flows[t], reg[t])
  BY Announcing
<1>3. flows[s] = [flow[s] EXCEPT ![n] = NoFlow]
  BY DEF IInv, Core, Shapes
<1> HIDE DEF flows
<1>4. ASSUME NEW t \in Sessions PROVE Sound(t, flows[t], new[t]) /\ Keeps(reg[t], new[t])
  <2>1. CASE t = s
    BY <1>3, <2>1
  <2>2. CASE t # s
    <3>1. flows[t] \in Flows
      BY <1>2 DEF Fewer
    <3> QED BY <1>2, <2>2, <3>1, SoundNow, RetriedSound
  <2> QED BY <2>1, <2>2
<1> HIDE DEF new
<1>5. DiskStep(new)
  BY <1>1 DEF DiskStep
<1> QED BY <1>1, <1>2, <1>4, <1>5, RestKept, BecomesInv

LEMMA DoneInv ==
  ASSUME IInv, NEW s \in Sessions, NEW n \in Numbers, Done(s, n) PROVE IInv'
<1> DEFINE f == [flow[s] EXCEPT ![n] = NoFlow]
           r == reg[s]
           x == IF s \in Deletes THEN Forgotten ELSE Completed(r)
<1>1. Closes(s, n, x) /\ IsRun(s, n) /\ flow[s][n].at = "done"
  BY DEF Done, Flowing
<1> DEFINE flows == [flow EXCEPT ![s][n] = NoFlow]
<1>2. /\ f \in Flows /\ f[n].at = "none" /\ f = flows[s] /\ flows = [flow EXCEPT ![s][n] = NoFlow]
  BY SoundNow, NoFlowIs DEF Flows, IInv, Core, Shapes
<1> HIDE DEF flows, f
<1>3. Sound(s, f, r) /\ r.e.no = n /\ r.e.ended
  BY <1>1, <1>2, Announcing
<1>4. Caused(s, r.e)
  BY <1>1, <1>3 DEF IInv, Core, FlowOK, Caused
<1>5. Sound(s, f, Completed(r)) /\ Keeps(r, Completed(r))
  BY <1>2, <1>3, <1>4, CompletedSound
<1>6. Sound(s, f, Forgotten) /\ Keeps(r, Forgotten)
  BY <1>2, ForgottenSound DEF Keeps, Forgotten, NoEntry, Nothing
<1>7. Sound(s, f, x) /\ Keeps(r, x)
  BY <1>5, <1>6
<1> HIDE DEF x
<1> QED BY <1>1, <1>7, ClosesInv DEF f

\* The last try completes the cleanup, for a cause.
LEMMA GiveUpInv ==
  ASSUME IInv, NEW s \in Sessions, NEW n \in Numbers, GiveUp(s, n) PROVE IInv'
<1> DEFINE f == [flow[s] EXCEPT ![n] = NoFlow]
           r == reg[s]
           p == PendingBelow(s)
           x == Completed(Tried(r, p))
<1>1. Closes(s, n, x) /\ IsRun(s, n) /\ flow[s][n].at = "failed" /\ GivesUp(r, p)
  BY DEF GiveUp, Flowing
<1> DEFINE flows == [flow EXCEPT ![s][n] = NoFlow]
<1>2. /\ f \in Flows /\ f[n].at = "none" /\ f = flows[s] /\ flows = [flow EXCEPT ![s][n] = NoFlow]
  BY SoundNow, NoFlowIs DEF Flows, IInv, Core, Shapes
<1> HIDE DEF flows, f
<1>3. /\ Sound(s, f, r) /\ r.e.no = n /\ r.e.ended /\ r.e.known /\ r.e.handled
      /\ ~r.e.completed /\ ~Killed(r.e)
  BY <1>1, <1>2, Announcing
<1>4. r \in States /\ r.e \in Records /\ ~r.m.begun
  BY SoundNow
<1> HIDE DEF r, p
<1>5. r.e.retries \in 0..MaxRetries /\ r.e.retries # MaxRetries
  BY <1>3, <1>4 DEF Sound, RecordOK, Records
<1> DEFINE tries == IF p THEN r.e.retries ELSE r.e.retries + 1
           e == [r.e EXCEPT !.retries = tries, !.completed = TRUE, !.wake = FALSE]
<1>6. tries \in 0..MaxRetries /\ (r.e.expired \/ tries = MaxRetries)
  BY <1>1, <1>5, SubagentRegistryAssumption DEF GivesUp
<1>7. /\ x.e = [Tried(r, p).e EXCEPT !.completed = TRUE, !.wake = FALSE]
      /\ x.m = [Nothing EXCEPT !.agent = Tried(r, p).m.agent]
      /\ x = [e |-> x.e, m |-> x.m]
  BY DEF Completed
<1>8. Tried(r, p).m = r.m /\ Tried(r, p).e = [r.e EXCEPT !.retries = tries]
  BY <1>4 DEF Tried, States, Records
<1>9. x.e = e /\ x.m = [Nothing EXCEPT !.agent = r.m.agent]
  BY <1>4, <1>7, <1>8 DEF Records
<1> HIDE DEF x, tries
<1>10. e \in Records /\ e.retries = tries /\ e.known = r.e.known /\ e.no = r.e.no
       /\ e.completed /\ e.ended = r.e.ended /\ e.handled = r.e.handled
       /\ e.suppress = r.e.suppress /\ e.expired = r.e.expired
  BY <1>4, <1>6 DEF Records
<1> HIDE DEF e
<1>11. RecordOK(s, f, e)
  BY <1>2, <1>3, <1>6, <1>10 DEF Sound, RecordOK, Killed, Caused
<1>12. Sound(s, f, x) /\ Keeps(r, x)
  BY <1>2, <1>3, <1>4, <1>7, <1>9, <1>10, <1>11 DEF Sound, Keeps, States, Nothing
<1> QED BY <1>1, <1>12, ClosesInv DEF f, r

\* A try that failed before the last gives the cleanup back, for a run of which
\* no telling counts.
LEMMA TryLaterInv ==
  ASSUME IInv, NEW s \in Sessions, NEW n \in Numbers, TryLater(s, n) PROVE IInv'
<1> DEFINE flows == [flow EXCEPT ![s][n] = NoFlow]
           r == reg[s]
           p == PendingBelow(s)
           x == Later(r, p)
           new == [reg EXCEPT ![s] = x]
<1>1. /\ IsRun(s, n) /\ flow[s][n].at = "failed" /\ ~GivesUp(r, p)
      /\ Becomes([reg EXCEPT ![s] = Later(@, p)], flows) /\ Persist
      /\ UNCHANGED world /\ UNCHANGED history
  BY DEF TryLater, Flowing
<1>2. Becomes(new, flows) /\ flows = [flow EXCEPT ![s][n] = NoFlow]
  BY <1>1
<1> HIDE DEF flows
<1>3. /\ \A t \in Sessions : flows[t] \in Flows /\ Sound(t, flows[t], reg[t])
      /\ flows[s][n].at = "none" /\ Fewer(flows)
      /\ r.e.no = n /\ r.e.ended /\ r.e.known /\ r.e.handled /\ ~r.e.completed /\ ~Killed(r.e)
  <2>1. /\ Fewer(flows)
        /\ flows[s][n].at = "none"
        /\ \A t \in Sessions : Sound(t, flows[t], reg[t])
        /\ reg[s].e.known /\ reg[s].e.no = n
        /\ reg[s].e.handled /\ reg[s].e.ended /\ ~reg[s].e.completed /\ ~Killed(reg[s].e)
    <3>1. IsRun(s, n) /\ flow[s][n].at # "none"
      BY <1>1
    <3>2. flows = [flow EXCEPT ![s][n] = NoFlow]
      BY <1>2
    <3>3. Fewer(flows) /\ \A t \in Sessions : Sound(t, flows[t], reg[t])
      BY <3>1, <3>2, Announcing
    <3>4. flows[s][n].at = "none"
      BY <3>1, <3>2, Announcing
    <3>5. /\ reg[s].e.known /\ reg[s].e.no = n
          /\ reg[s].e.handled /\ reg[s].e.ended /\ ~reg[s].e.completed /\ ~Killed(reg[s].e)
      BY <3>1, <3>2, Announcing
    <3> QED BY <3>3, <3>4, <3>5
  <2> QED BY <2>1 DEF Fewer
<1>4. r \in States /\ r.e \in Records /\ ~r.m.begun /\ Sound(s, flows[s], r)
  BY <1>3, SoundNow
<1>5. Untold(s, flows[s], n)
  BY <1>1, <1>3 DEF IInv, Core, FlowOK, Untold
<1>6. \A t \in Sessions : new[t] = IF t = s THEN x ELSE reg[t]
  BY DEF IInv, Core, Shapes
<1>7. \A t \in Sessions : Keeps(reg[t], reg[t])
  BY SoundNow DEF Keeps
<1>8. p \in BOOLEAN
  BY DEF PendingBelow
<1> HIDE DEF r, p, new
<1>9. r.e.retries \in 0..MaxRetries /\ (~p => r.e.retries + 1 < MaxRetries)
      /\ r.e.retries # MaxRetries
  BY <1>1, <1>3, <1>4, SubagentRegistryAssumption DEF GivesUp, Sound, RecordOK, Records
<1> DEFINE tries == IF p THEN r.e.retries ELSE r.e.retries + 1
           e == [r.e EXCEPT !.retries = tries, !.wake = @ \/ p, !.handled = FALSE]
<1>10. tries \in 0..MaxRetries /\ tries # MaxRetries
  BY <1>9, SubagentRegistryAssumption
<1>11. Tried(r, p) = [r EXCEPT !.e.retries = tries]
  BY <1>4 DEF Tried, States, Records
<1>12. /\ Tried(r, p).m = r.m /\ Tried(r, p).e = [r.e EXCEPT !.retries = tries]
       /\ Tried(r, p) \in States
  BY <1>4, <1>10, <1>11 DEF States, Records
<1>13. x.e = e /\ x.m = [r.m EXCEPT !.timer = TRUE, !.resumed = FALSE] /\ x \in States
  <2> DEFINE y == Tried(r, p)
  <2>1. x = [y EXCEPT !.e.wake = @ \/ p, !.e.handled = FALSE, !.m.timer = TRUE,
                      !.m.resumed = FALSE]
    BY DEF Later
  <2>2. y \in States /\ y.m = r.m /\ y.e = [r.e EXCEPT !.retries = tries]
    BY <1>12
  <2> HIDE DEF y
  <2>a. [y EXCEPT !.e.wake = @ \/ p] \in States
    BY <1>8, <2>2 DEF States, Records
  <2>b. [y EXCEPT !.e.wake = @ \/ p, !.e.handled = FALSE] \in States
    BY <2>a DEF States, Records
  <2> DEFINE z == [y EXCEPT !.e.wake = @ \/ p, !.e.handled = FALSE]
  <2>z. x = [z EXCEPT !.m.timer = TRUE, !.m.resumed = FALSE]
    BY <2>1
  <2>c. x \in States
    <3> HIDE DEF z, x
    <3>1. z \in States
      BY <2>b DEF z
    <3> QED BY <2>z, <3>1 DEF States
  <2>d. x.e = [y.e EXCEPT !.wake = @ \/ p, !.handled = FALSE]
    BY <2>1, <2>2 DEF States
  <2>e. x.m = [y.m EXCEPT !.timer = TRUE, !.resumed = FALSE]
    BY <2>1, <2>2 DEF States
  <2>3. /\ x.e = [y.e EXCEPT !.wake = @ \/ p, !.handled = FALSE]
        /\ x.m = [y.m EXCEPT !.timer = TRUE, !.resumed = FALSE]
        /\ x \in States
    BY <2>c, <2>d, <2>e
  <2> HIDE DEF x, tries
  <2>4. x.e = e
    BY <1>4, <1>8, <1>10, <2>2, <2>3 DEF Records
  <2> QED BY <2>2, <2>3, <2>4
<1> HIDE DEF x, tries
<1>14. e \in Records /\ e.retries = tries /\ e.known = r.e.known /\ e.no = r.e.no
       /\ e.completed = r.e.completed /\ e.ended = r.e.ended /\ ~e.handled
       /\ e.suppress = r.e.suppress /\ e.expired = r.e.expired
  BY <1>4, <1>8, <1>10 DEF Records
<1> HIDE DEF e
<1>15. RecordOK(s, flows[s], e)
  BY <1>3, <1>4, <1>5, <1>10, <1>14 DEF Sound, RecordOK, Killed, Caused
<1>16. x.m.begun = r.m.begun /\ x.m.completing = r.m.completing
  BY <1>4, <1>13 DEF States
<1>17. Sound(s, flows[s], x) /\ Keeps(r, x)
  BY <1>3, <1>4, <1>13, <1>14, <1>15, <1>16 DEF Sound, Keeps
<1>18. \A t \in Sessions : Sound(t, flows[t], new[t]) /\ Keeps(reg[t], new[t])
  BY <1>3, <1>6, <1>7, <1>17 DEF r
<1>19. DiskStep(new)
  BY <1>1 DEF DiskStep
<1> QED BY <1>1, <1>2, <1>3, <1>18, <1>19, RestKept, BecomesInv

\* A step of an announcement: one stage changes, with what was told of the run.
LEMMA StageInv ==
  ASSUME IInv, NEW s \in Sessions, NEW n \in Numbers, flow[s][n].at # "none",
         NEW x \in Announcements, flow' = [flow EXCEPT ![s][n] = x],
         announced' \in [Sessions -> [Numbers -> Nat]],
         waived' \subseteq Sessions \X Numbers, waived \subseteq waived',
         announced'[s][n] \in {0, 1},
         \A t \in Sessions, k \in Numbers :
            ~(t = s /\ k = n) => announced'[t][k] = announced[t][k],
         x.at \notin {"none", "asked", "done"} => announced'[s][n] = 0,
         x.at = "asked" => announced'[s][n] = 1,
         x.at = "done" => announced'[s][n] > 0 \/ <<s, n>> \in waived',
         x.at = "none" => announced' = announced /\ ~IsRun(s, n),
         stored' \subseteq Sessions, UNCHANGED <<reg, disk, fresh, steering, up, troubles>>
  PROVE  IInv'
<1>1. /\ flow' \in [Sessions -> Flows]
      /\ \A t \in Sessions, k \in Numbers :
            flow'[t][k].at = IF t = s /\ k = n THEN x.at ELSE flow[t][k].at
  BY DEF IInv, Core, Shapes, Flows
<1>2. ASSUME NEW t \in Sessions, NEW k \in Numbers, ~(t = s /\ k = n), announced[t][k] > 0
      PROVE  announced'[t][k] > 0
  BY <1>2
<1>3. ASSUME NEW t \in Sessions, NEW k \in Numbers, ~(t = s /\ k = n)
      PROVE  Untold(t, flow[t], k) <=> Untold(t, flow[t], k)'
  BY <1>1, <1>3 DEF Untold
<1>4. ~Untold(s, flow[s], n)
  BY DEF Untold
<1>5. ASSUME NEW t \in Sessions, NEW e, RecordOK(t, flow[t], e)
      PROVE  /\ e \in Records
             /\ e.known /\ e.completed => Caused(t, e)'
             /\ e.known /\ ~Untold(t, flow[t], e.no)' => e.handled /\ ~Killed(e)
             /\ e.known => \A k \in Numbers : k > e.no => Untold(t, flow[t], k)'
             /\ e.known /\ flow'[t][e.no].at # "none" => ~e.completed
  <2>1. e \in Records /\ e.no \in Numbers
    BY <1>5 DEF RecordOK, Records
  <2>5. e.known /\ e.completed => ~(t = s /\ e.no = n)
    BY <1>5 DEF RecordOK
  <2>2. e.known /\ e.completed => Caused(t, e)'
    BY <1>2, <1>5, <2>1, <2>5 DEF RecordOK, Caused
  <2>6. e.known /\ flow'[t][e.no].at # "none" => ~e.completed
    BY <1>1, <1>5, <2>1, <2>5 DEF RecordOK
  <2>3. e.known /\ ~Untold(t, flow[t], e.no)' => e.handled /\ ~Killed(e)
    BY <1>3, <1>4, <1>5, <2>1 DEF RecordOK
  <2>4. e.known => \A k \in Numbers : k > e.no => Untold(t, flow[t], k)'
    BY <1>3, <1>4, <1>5, <2>1 DEF RecordOK
  <2> QED BY <2>1, <2>2, <2>3, <2>4, <2>6
<1>6. ASSUME NEW t \in Sessions PROVE RecordOK(t, flow[t], reg[t].e)'
  <2>1. RecordOK(t, flow[t], reg[t].e)
    BY SoundNow DEF Sound
  <2> QED BY <1>5, <2>1 DEF RecordOK, Killed
<1>7. ASSUME NEW t \in Sessions PROVE RecordOK(t, flow[t], disk[t])'
  <2>1. RecordOK(t, flow[t], disk[t])
    BY DEF IInv, Core
  <2> QED BY <1>5, <2>1 DEF RecordOK, Killed
<1>8. ASSUME NEW t \in Sessions PROVE Sound(t, flow[t], reg[t])'
  <2>1. Sound(t, flow[t], reg[t]) /\ ~reg[t].m.begun /\ reg[t].e.no \in Numbers
    BY SoundNow
  <2> QED BY <1>6, <2>1 DEF Sound
<1>9. ASSUME NEW t \in Sessions, NEW k \in Numbers PROVE FlowOK(t, k)'
  <2>1. FlowOK(t, k)
    BY DEF IInv, Core
  <2>2. announced'[t][k] \in {0, 1}
    BY <2>1 DEF FlowOK
  <2>3. IsRun(t, k)' /\ flow'[t][k].at # "none" => ~reg'[t].e.completed
    BY <1>6 DEF IsRun, Known, RecordOK
  <2>4. CASE t = s /\ k = n
    <3>1. flow'[t][k].at = x.at
      BY <1>1, <2>4
    <3> QED BY <2>2, <2>3, <2>4, <3>1 DEF FlowOK
  <2>5. CASE ~(t = s /\ k = n)
    <3>1. flow'[t][k].at = flow[t][k].at /\ announced'[t][k] = announced[t][k]
      BY <1>1, <2>5
    <3> QED BY <2>1, <2>2, <2>3, <3>1 DEF FlowOK
  <2> QED BY <2>4, <2>5
<1>10. ASSUME NEW t \in Sessions PROVE FreshOK(t)'
  BY <1>3, <1>4 DEF IInv, Claims, FreshOK, Known
<1>11. ASSUME NEW t \in Sessions, NEW k \in Numbers PROVE SteeringOK(t, k)'
  <2>1. SteeringOK(t, k)
    BY DEF IInv, Claims
  <2>2. (\A j \in Numbers : j > k => Untold(t, flow[t], j))
          => \A j \in Numbers : j > k => Untold(t, flow[t], j)'
    BY <1>3, <1>4
  <2> QED BY <2>1, <2>2 DEF SteeringOK, Known
<1>12. Shapes'
  BY <1>1 DEF IInv, Core, Shapes
<1> QED BY <1>7, <1>8, <1>9, <1>10, <1>11, <1>12 DEF IInv, Core, Claims

\* A stage is entered from another one.
LEMMA GoesInv ==
  ASSUME IInv, NEW s \in Sessions, NEW n \in Numbers, flow[s][n].at # "none",
         NEW at \in Stages, FlowGoes(s, n, at), at \notin {"none", "asked"},
         announced' \in [Sessions -> [Numbers -> Nat]],
         waived' \subseteq Sessions \X Numbers, waived \subseteq waived',
         announced'[s][n] \in {0, 1},
         \A t \in Sessions, k \in Numbers :
            ~(t = s /\ k = n) => announced'[t][k] = announced[t][k],
         at # "done" => announced'[s][n] = 0,
         at = "done" => announced'[s][n] > 0 \/ <<s, n>> \in waived',
         stored' \subseteq Sessions, UNCHANGED <<reg, disk, fresh, steering, up, troubles>>
  PROVE  IInv'
<1> DEFINE x == [NoFlow EXCEPT !.at = at]
<1>1. flow' = [flow EXCEPT ![s][n] = x]
  BY DEF FlowGoes
<1>2. x \in Announcements /\ x.at = at
  BY NoFlowIs DEF Announcements
<1> HIDE DEF x
<1> QED BY <1>1, <1>2, StageInv

LEMMA Undelivered ==
  ASSUME IInv, NEW s \in Sessions, NEW n \in Numbers,
         flow[s][n].at \notin {"none", "asked", "done"}
  PROVE  announced[s][n] = 0
BY DEF IInv, Core, FlowOK

\* A stage before the end is entered and nothing is told.
LEMMA QuietlyInv ==
  ASSUME IInv, NEW s \in Sessions, NEW n \in Numbers,
         flow[s][n].at \notin {"none", "asked", "done"},
         NEW at \in Stages, FlowGoes(s, n, at), at \notin {"none", "asked", "done"},
         stored' \subseteq Sessions,
         UNCHANGED <<reg, disk, fresh, steering, up, troubles, announced, waived>>
  PROVE  IInv'
<1>1. announced[s][n] = 0
  BY Undelivered
<1>2. /\ announced' \in [Sessions -> [Numbers -> Nat]]
      /\ waived' \subseteq Sessions \X Numbers /\ waived \subseteq waived'
  BY DEF IInv, Core, Shapes
<1> QED BY <1>1, <1>2, GoesInv

LEMMA WaiveInv ==
  ASSUME IInv, NEW s \in Sessions, NEW n \in Numbers,
         flow[s][n].at \notin {"none", "asked", "done"}, Waive(s, n)
  PROVE  IInv'
<1>1. /\ FlowGoes(s, n, "done") /\ waived' = waived \cup {<<s, n>>} /\ SessionGoes(s)
      /\ UNCHANGED <<reg, disk, fresh, steering, up, troubles, announced>>
  BY DEF Waive
<1>2. stored' \subseteq Sessions
  BY <1>1 DEF SessionGoes, IInv, Core, Shapes
<1>3. /\ announced' \in [Sessions -> [Numbers -> Nat]]
      /\ waived' \subseteq Sessions \X Numbers /\ waived \subseteq waived'
      /\ <<s, n>> \in waived'
  BY <1>1 DEF IInv, Core, Shapes
<1>4. "done" \in Stages
  BY DEF Stages
<1>5. announced'[s][n] \in {0, 1}
  BY <1>1, Undelivered
<1> QED BY <1>1, <1>2, <1>3, <1>4, <1>5, GoesInv

LEMMA CheckInv ==
  ASSUME IInv, NEW s \in Sessions, NEW n \in Numbers, Check(s, n) PROVE IInv'
<1>1. flow[s][n].at \notin {"none", "asked", "done"}
  BY DEF Check, Flowing
<1>2. CASE Waive(s, n)
  BY <1>1, <1>2, WaiveInv
<1>3. CASE ~Waive(s, n)
  <2>1. /\ UNCHANGED <<reg, disk>> /\ UNCHANGED world /\ UNCHANGED history
        /\ \/ FlowGoes(s, n, "failed") \/ FlowGoes(s, n, "waking")
           \/ FlowGoes(s, n, "delivering")
    BY <1>3 DEF Check
  <2>2. stored' \subseteq Sessions
        /\ UNCHANGED <<reg, disk, fresh, steering, up, troubles, announced, waived>>
    BY <2>1 DEF world, history, IInv, Core, Shapes
  <2>3. {"failed", "waking", "delivering"} \subseteq Stages
    BY DEF Stages
  <2>4. CASE FlowGoes(s, n, "failed")
    BY <1>1, <2>2, <2>3, <2>4, QuietlyInv
  <2>5. CASE FlowGoes(s, n, "waking")
    BY <1>1, <2>2, <2>3, <2>5, QuietlyInv
  <2>6. CASE FlowGoes(s, n, "delivering")
    BY <1>1, <2>2, <2>3, <2>6, QuietlyInv
  <2> QED BY <2>1, <2>4, <2>5, <2>6
<1> QED BY <1>2, <1>3

LEMMA WakeFailsInv ==
  ASSUME IInv, NEW s \in Sessions, NEW n \in Numbers, WakeFails(s, n) PROVE IInv'
<1>1. /\ flow[s][n].at \notin {"none", "asked", "done"} /\ FlowGoes(s, n, "delivering")
      /\ UNCHANGED <<reg, disk>> /\ UNCHANGED world /\ UNCHANGED history
  BY DEF WakeFails, Flowing
<1>2. stored' \subseteq Sessions /\ "delivering" \in Stages
      /\ UNCHANGED <<reg, disk, fresh, steering, up, troubles, announced, waived>>
  BY <1>1 DEF world, history, IInv, Core, Shapes, Stages
<1> QED BY <1>1, <1>2, QuietlyInv

LEMMA DeliveryFailsInv ==
  ASSUME IInv, NEW s \in Sessions, NEW n \in Numbers, DeliveryFails(s, n) PROVE IInv'
<1>1. /\ flow[s][n].at \notin {"none", "asked", "done"} /\ FlowGoes(s, n, "failed")
      /\ SessionGoes(s)
      /\ UNCHANGED <<reg, disk, fresh, steering, up, troubles, announced, waived>>
  BY DEF DeliveryFails, Flowing, history
<1>2. stored' \subseteq Sessions /\ "failed" \in Stages
  BY <1>1 DEF SessionGoes, IInv, Core, Shapes, Stages
<1> QED BY <1>1, <1>2, QuietlyInv

\* A call is made only for a run of which nothing that was told still counts.
LEMMA AskInv ==
  ASSUME IInv, NEW s \in Sessions, NEW n \in Numbers, Ask(s, n) PROVE IInv'
<1> DEFINE x == [flow[s][n] EXCEPT !.at = "asked", !.asks = @ + 1]
<1>1. /\ flow[s][n].at \notin {"none", "asked", "done"} /\ flow[s][n].asks < MaxAsks
      /\ announced' = [announced EXCEPT ![s][n] = @ + 1]
      /\ UNCHANGED <<reg, disk, stored, fresh, steering, up, troubles, waived>>
  BY DEF Ask, Flowing, world
<1>2. flow[s][n] \in Announcements
  BY DEF IInv, Core, Shapes, Flows
<1>3. flow' = [flow EXCEPT ![s][n] = x]
  BY DEF Ask
<1>4. x \in Announcements /\ x.at = "asked"
  <2>1. flow[s][n].asks + 1 \in 0..MaxAsks
    BY <1>1, <1>2, SubagentRegistryAssumption DEF Announcements
  <2>2. x = [flow[s][n] EXCEPT !.at = "asked", !.asks = flow[s][n].asks + 1]
    OBVIOUS
  <2> QED BY <1>2, <2>1, <2>2 DEF Announcements, Stages
<1> HIDE DEF x
<1>5. announced[s][n] = 0
  BY <1>1, Undelivered
<1>6. /\ announced' \in [Sessions -> [Numbers -> Nat]]
      /\ announced'[s][n] = 1
      /\ \A t \in Sessions, k \in Numbers :
            ~(t = s /\ k = n) => announced'[t][k] = announced[t][k]
  BY <1>1, <1>5 DEF IInv, Core, Shapes
<1>7. stored' \subseteq Sessions /\ waived' \subseteq Sessions \X Numbers
      /\ waived \subseteq waived' /\ flow[s][n].at # "none"
      /\ UNCHANGED <<reg, disk, fresh, steering, up, troubles>>
  BY <1>1 DEF IInv, Core, Shapes
<1> QED BY <1>3, <1>4, <1>6, <1>7, StageInv

\* Without an answer it is as if the call had not been made.
LEMMA UnansweredInv ==
  ASSUME IInv, NEW s \in Sessions, NEW n \in Numbers, Unanswered(s, n) PROVE IInv'
<1> DEFINE x == [flow[s][n] EXCEPT !.at = "delivering"]
<1>1. /\ flow[s][n].at = "asked"
      /\ announced' = [announced EXCEPT ![s][n] = @ - 1]
      /\ UNCHANGED <<reg, disk, stored, fresh, steering, up, troubles, waived>>
  BY DEF Unanswered, Flowing, world
<1>2. flow[s][n] \in Announcements
  BY DEF IInv, Core, Shapes, Flows
<1>3. flow' = [flow EXCEPT ![s][n] = x]
  BY DEF Unanswered
<1>4. x \in Announcements /\ x.at = "delivering"
  BY <1>2 DEF Announcements, Stages
<1> HIDE DEF x
<1>5. announced[s][n] = 1
  BY <1>1 DEF IInv, Core, FlowOK
<1>6. /\ announced' \in [Sessions -> [Numbers -> Nat]]
      /\ announced'[s][n] = 0
      /\ \A t \in Sessions, k \in Numbers :
            ~(t = s /\ k = n) => announced'[t][k] = announced[t][k]
  BY <1>1, <1>5 DEF IInv, Core, Shapes
<1>7. stored' \subseteq Sessions /\ waived' \subseteq Sessions \X Numbers
      /\ waived \subseteq waived' /\ flow[s][n].at # "none"
      /\ UNCHANGED <<reg, disk, fresh, steering, up, troubles>>
  BY <1>1 DEF IInv, Core, Shapes
<1> QED BY <1>3, <1>4, <1>6, <1>7, StageInv

LEMMA DeliverInv ==
  ASSUME IInv, NEW s \in Sessions, NEW n \in Numbers, Deliver(s, n) PROVE IInv'
<1>1. /\ flow[s][n].at = "asked" /\ FlowGoes(s, n, "done") /\ SessionGoes(s)
      /\ UNCHANGED <<reg, disk, fresh, steering, up, troubles, announced, waived>>
  BY DEF Deliver, Flowing, history
<1>2. announced'[s][n] \in {0, 1} /\ announced'[s][n] > 0
  <2>1. announced[s][n] = 1
    BY <1>1 DEF IInv, Core, FlowOK
  <2> QED BY <1>1, <2>1
<1>3. /\ announced' \in [Sessions -> [Numbers -> Nat]]
      /\ \A t \in Sessions, k \in Numbers : announced'[t][k] = announced[t][k]
  BY <1>1 DEF IInv, Core, Shapes
<1>4. stored' \subseteq Sessions /\ "done" \in Stages
      /\ waived' \subseteq Sessions \X Numbers /\ waived \subseteq waived'
  BY <1>1 DEF SessionGoes, IInv, Core, Shapes, Stages
<1>5. /\ flow[s][n].at # "none" /\ FlowGoes(s, n, "done")
      /\ UNCHANGED <<reg, disk, fresh, steering, up, troubles>>
  BY <1>1
<1> QED BY <1>2, <1>3, <1>4, <1>5, GoesInv

\* Nor is anything queued or steered for another run.
LEMMA FallBackInv ==
  ASSUME IInv, NEW s \in Sessions, NEW n \in Numbers, FallBack(s, n) PROVE IInv'
<1>1. /\ flow[s][n].at \notin {"none", "asked", "done"} /\ FlowGoes(s, n, "done")
      /\ announced' = [announced EXCEPT ![s][n] = @ + 1] /\ SessionGoes(s)
      /\ UNCHANGED <<reg, disk, fresh, steering, up, troubles, waived>>
  BY DEF FallBack, Flowing
<1>2. announced[s][n] = 0
  BY <1>1, Undelivered
<1>3. /\ announced' \in [Sessions -> [Numbers -> Nat]]
      /\ announced'[s][n] = 1
      /\ \A t \in Sessions, k \in Numbers :
            ~(t = s /\ k = n) => announced'[t][k] = announced[t][k]
  BY <1>1, <1>2 DEF IInv, Core, Shapes
<1>4. stored' \subseteq Sessions /\ "done" \in Stages
      /\ waived' \subseteq Sessions \X Numbers /\ waived \subseteq waived'
  BY <1>1 DEF SessionGoes, IInv, Core, Shapes, Stages
<1>5. /\ announced'[s][n] \in {0, 1} /\ announced'[s][n] > 0
      /\ flow[s][n].at # "none" /\ "done" # "none"
  BY <1>1, <1>3
<1>6. /\ FlowGoes(s, n, "done")
      /\ UNCHANGED <<reg, disk, fresh, steering, up, troubles>> /\ waived' = waived
  BY <1>1
<1> QED BY <1>3, <1>4, <1>5, <1>6, GoesInv

LEMMA PointlessInv ==
  ASSUME IInv, NEW s \in Sessions, NEW n \in Numbers, Pointless(s, n) PROVE IInv'
<1>1. /\ flow[s][n].at # "none" /\ ~IsRun(s, n)
      /\ flow' = [flow EXCEPT ![s][n] = NoFlow]
      /\ UNCHANGED <<reg, disk>> /\ UNCHANGED world /\ UNCHANGED history
  BY DEF Pointless, Flowing
<1>2. NoFlow \in Announcements /\ NoFlow.at = "none"
  BY NoFlowIs
<1>3. /\ UNCHANGED <<reg, disk, fresh, steering, up, troubles>>
      /\ announced' = announced /\ waived' = waived /\ stored' = stored
  BY <1>1 DEF world, history
<1>4. /\ announced' \in [Sessions -> [Numbers -> Nat]] /\ stored' \subseteq Sessions
      /\ waived' \subseteq Sessions \X Numbers /\ waived \subseteq waived'
      /\ announced'[s][n] \in {0, 1}
  BY <1>3 DEF IInv, Core, Shapes, FlowOK
<1> QED BY <1>1, <1>2, <1>3, <1>4, StageInv

LEMMA AnnouncementInv ==
  ASSUME IInv, NEW s \in Sessions, NEW n \in Numbers, Announcement(s, n) PROVE IInv'
<1>1. Silent(s, n) => IInv'
  BY WaiveInv DEF Silent, Flowing
<1> QED BY <1>1, CheckInv, WakeFailsInv, AskInv, DeliverInv, UnansweredInv, FallBackInv,
           DeliveryFailsInv, DoneInv, GiveUpInv, TryLaterInv, PointlessInv DEF Announcement

-----------------------------------------------------------------------------
(* The theorems *)

LEMMA InitInv == Init => IInv
<1> SUFFICES ASSUME Init PROVE IInv
  OBVIOUS
<1>1. NoEntry \in Records /\ Nothing \in Memory
  BY SubagentRegistryAssumption DEF NoEntry, Nothing, Records, Memory, Numbers
<1>2. [n \in Numbers |-> NoFlow] \in Flows
  BY NoFlowIs DEF Flows
<1>3. Shapes
  BY <1>1, <1>2, SubagentRegistryAssumption DEF Init, Shapes, Forgotten
<1>4. ASSUME NEW s \in Sessions
      PROVE  /\ Sound(s, flow[s], reg[s]) /\ RecordOK(s, flow[s], disk[s])
             /\ ~Known(s) /\ ~disk[s].known
  <2>1. reg[s] = Forgotten /\ disk[s] = Forgotten.e /\ flow[s] \in Flows
    BY <1>2 DEF Init, Forgotten
  <2>2. Sound(s, flow[s], Forgotten)
    BY <2>1, ForgottenSound
  <2>3. ~Forgotten.e.known
    BY DEF Forgotten, NoEntry
  <2> QED BY <2>1, <2>2, <2>3 DEF Sound, Known
<1>5. ASSUME NEW s \in Sessions, NEW n \in Numbers
      PROVE  /\ announced[s][n] = 0 /\ flow[s][n].at = "none" /\ <<s, n>> \notin steering
  BY NoFlowIs DEF Init
<1>6. \A s \in Sessions : FreshOK(s)
  BY <1>4, <1>5 DEF FreshOK, Untold
<1>7. \A s \in Sessions, n \in Numbers : FlowOK(s, n) /\ SteeringOK(s, n)
  BY <1>5 DEF FlowOK, SteeringOK
<1> QED BY <1>3, <1>4, <1>6, <1>7 DEF IInv, Core, Claims

LEMMA NextInv == IInv /\ [Next]_vars => IInv'
<1> SUFFICES ASSUME IInv, [Next]_vars PROVE IInv'
  OBVIOUS
<1>1. ASSUME NEW s \in Sessions, Timers(s) PROVE IInv'
  BY <1>1, TimerFiresInv, RetimerFiresInv, GraceOverInv, ExpireInv DEF Timers
<1>2. ASSUME NEW s \in Sessions,
             \/ Register(s) \/ CompletionGoesOn(s) \/ LifecycleEnd(s) \/ LifecycleError(s)
             \/ LifecycleStart(s) \/ WaitFails(s) \/ Timers(s) \/ Kill(s) \/ SteerMarks(s)
             \/ Sweep(s)
      PROVE  IInv'
  BY <1>1, <1>2, RegisterInv, CompletionGoesOnInv, LifecycleEndInv, LifecycleErrorInv,
     LifecycleStartInv, WaitFailsInv, KillInv, SteerMarksInv, SweepInv
<1>3. ASSUME NEW s \in Sessions, NEW reason \in {"complete", "error"}, WaitReturns(s, reason)
      PROVE  IInv'
  BY <1>3, WaitReturnsInv
<1>4. ASSUME NEW s \in Sessions, NEW n \in Numbers,
             \/ Announcement(s, n) \/ Wake(s, n) \/ SteerSucceeds(s, n) \/ SteerFails(s, n)
      PROVE  IInv'
  BY <1>4, AnnouncementInv, WakeInv, SteerSucceedsInv, SteerFailsInv
<1>5. CASE Crash \/ Restart
  BY <1>5, CrashInv, RestartInv
<1>6. CASE UNCHANGED vars
  <2>1. /\ reg' = reg /\ disk' = disk /\ stored' = stored /\ flow' = flow /\ fresh' = fresh
        /\ steering' = steering /\ up' = up /\ troubles' = troubles
        /\ announced' = announced /\ waived' = waived
    BY <1>6 DEF vars
  <2>2. Core'
    BY <2>1 DEF IInv, Core, Shapes, Sound, RecordOK, Untold, Caused, Killed, FlowOK, IsRun, Known
  <2>3. Claims'
    BY <2>1 DEF IInv, Claims, FreshOK, SteeringOK, Untold, Known
  <2> QED BY <2>2, <2>3 DEF IInv
<1> QED BY <1>2, <1>3, <1>4, <1>5, <1>6 DEF Next

LEMMA Invariance == Spec => []IInv
BY InitInv, NextInv, PTL DEF Spec

\* What is announced is claimed, and so its run has ended.
LEMMA Implied == IInv => TypeOK /\ AnnouncedOnce /\ SettledForCause
<1> SUFFICES ASSUME IInv PROVE TypeOK /\ AnnouncedOnce /\ SettledForCause
  OBVIOUS
<1>1. ASSUME NEW s \in Sessions, NEW n \in Numbers, flow[s][n].at # "none", IsRun(s, n)
      PROVE  reg[s].e.ended /\ reg[s].e.handled
  BY <1>1, SoundNow DEF Sound, RecordOK, Untold, IsRun, Known
<1>2. TypeOK
  BY <1>1 DEF TypeOK, IInv, Core, Shapes, Flows, Announcements, Stages
<1>3. AnnouncedOnce
  <2>1. \A s \in Sessions, n \in Numbers : announced[s][n] \in {0, 1}
    BY DEF IInv, Core, FlowOK
  <2> QED BY <2>1 DEF AnnouncedOnce
<1>4. ASSUME NEW s \in Sessions, Known(s), reg[s].e.completed
      PROVE  \/ announced[s][reg[s].e.no] > 0 \/ <<s, reg[s].e.no>> \in waived
             \/ reg[s].e.retries = MaxRetries \/ reg[s].e.expired
             \/ reg[s].e.suppress = "killed"
  BY <1>4, SoundNow DEF Sound, RecordOK, Caused, Killed, Known
<1>5. SettledForCause
  BY <1>4 DEF SettledForCause
<1> QED BY <1>2, <1>3, <1>5

\* A run is announced only once it ended and while its cleanup is claimed, whichever
\* of completions, timers, steers, kills and restarts come in between.
THEOREM TypeCorrect == Spec => []TypeOK
BY Invariance, Implied, PTL

\* No result is told again but after a call that was left without an answer: what is
\* claimed on disk or in memory is not claimed again while a call is under way, cut off
\* by a stop or answered, and a kill's cleanup is only taken back when nothing was told.
THEOREM ToldOnce == Spec => []AnnouncedOnce
BY Invariance, Implied, PTL

\* No cleanup is completed without a cause, however often runs are put off.
THEOREM SettledForACause == Spec => []SettledForCause
BY Invariance, Implied, PTL
=============================================================================
