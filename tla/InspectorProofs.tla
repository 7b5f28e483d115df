--------------------------- MODULE InspectorProofs --------------------------
(***************************************************************************)
(* Safety of the inspector's services: the test runner, the health         *)
(* monitor, the two watchers and the artifacts, for any runs, services,    *)
(* files and writes.                                                       *)
(***************************************************************************)
EXTENDS TestRunner, HealthMonitor, FileWatcher, ArtifactWatcher, Artifacts, TestReport,
        FiniteSetTheorems, WellFoundedInduction, TLAPS

\* Where a run is past its beginning.
Past == {"discovering", "reading", "waiting"}
Before == {"new", "cancelling", "cancelled", "discovering"}
Places == {"new", "cancelling", "cancelled", "discovering", "reading", "waiting", "over"}

LEMMA TrInitInv == TrInit => TrIInv
<1> SUFFICES ASSUME TrInit PROVE TrIInv
  OBVIOUS
<1> QED
  BY TestRunnerAssumption
  DEF TrInit, TrIInv, TrTypeOK, RunningIsUnderWay, RunIdIsTrue, AwaitedIsThere, NoneBeside,
      TrCalls

\* A call of cancel(), whoever makes it, stops the current process at most.
LEMMA KillInv ==
  ASSUME TrIInv, NEW c \in TrCalls, runPc[c] = "new", currentProcess # NoRun,
         TrMove(c, "cancelling"), Kill(c),
         UNCHANGED <<currentProcess, currentRunId, overlapped>>
  PROVE  TrIInv'
<1> DEFINE p == currentProcess
<1>1. p \in TestRuns /\ runPc[p] \in {"reading", "waiting"} /\ proc[p] # "none" /\ p # c
  BY DEF TrIInv, TrTypeOK, RunningIsUnderWay, AwaitedIsThere
<1>2. /\ runPc' \in [TrCalls -> Places]
      /\ \A d \in TrCalls : runPc'[d] = IF d = c THEN "cancelling" ELSE runPc[d]
  BY DEF TrMove, TrIInv, TrTypeOK, Places
<1>3. /\ waits' \in [TrCalls -> TestRuns \cup {NoRun}]
      /\ \A d \in TrCalls : waits'[d] = IF d = c THEN p ELSE waits[d]
  BY <1>1 DEF Kill, TrIInv, TrTypeOK
<1>4. /\ proc' \in [TestRuns -> {"none", "alive", "dying", "dead"}]
      /\ \A r \in TestRuns : /\ proc'[r] = "none" <=> proc[r] = "none"
                             /\ proc'[r] = "dead" <=> proc[r] = "dead"
  BY <1>1 DEF Kill, TrIInv, TrTypeOK
<1> HIDE DEF p
<1>5. TrTypeOK'
  BY <1>2, <1>3, <1>4 DEF TrIInv, TrTypeOK, Places
<1>6. RunningIsUnderWay'
  BY <1>1, <1>2 DEF p, TrIInv, TrTypeOK, RunningIsUnderWay, TrCalls
<1>7. RunIdIsTrue'
  BY <1>2, <1>4 DEF TrIInv, RunIdIsTrue, TrCalls
<1>8. AwaitedIsThere'
  BY <1>1, <1>2, <1>3, <1>4 DEF TrIInv, AwaitedIsThere, TrCalls
<1>9. NoneBeside'
  <2> SUFFICES ASSUME ~overlapped', NEW r \in TestRuns, runPc'[r] \in Past
               PROVE  /\ \A q \in TestRuns \ {r} : runPc'[q] \notin Past
                      /\ runPc'[r] = "discovering" => currentRunId' = r
                      /\ \A d \in TrCalls : runPc'[d] = "cancelling" => waits'[d] = r
                      /\ currentProcess' \in {r, NoRun}
    BY DEF NoneBeside, Past
  <2>1. runPc[r] \in Past /\ r # c /\ ~overlapped
    BY <1>2 DEF TrCalls, Past
  <2>2. /\ \A q \in TestRuns \ {r} : runPc[q] \notin Past
        /\ runPc[r] = "discovering" => currentRunId = r
        /\ \A d \in TrCalls : runPc[d] = "cancelling" => waits[d] = r
        /\ p \in {r, NoRun}
    BY <2>1 DEF TrIInv, NoneBeside, Past, p
  <2>3. p = r
    BY <1>1, <2>2, TestRunnerAssumption
  <2> QED
    BY <1>2, <1>3, <2>1, <2>2, <2>3 DEF TrCalls, Past, p
<1> QED
  BY <1>5, <1>6, <1>7, <1>8, <1>9 DEF TrIInv

\* A call goes on without a process of its own, or is over, and may clear the
\* fields.  What it leaves behind must not be a run under way that lives.
LEMMA LeaveInv ==
  ASSUME TrIInv, NEW c \in TrCalls, NEW to \in {"cancelled", "over"},
         TrMove(c, to), UNCHANGED <<proc, waits>>,
         overlapped' \in BOOLEAN, ~overlapped' => ~overlapped,
         \/ Cleared
         \/ UNCHANGED <<currentProcess, currentRunId>> /\ currentProcess # c,
         to = "cancelled" /\ c \in TestRuns => proc[c] = "none",
         Cleared /\ ~overlapped' =>
           \A r \in TestRuns \ {c} : /\ runPc[r] \in {"reading", "waiting"} => proc[r] = "dead"
                                     /\ runPc[r] # "discovering"
  PROVE  TrIInv'
<1>1. /\ runPc' \in [TrCalls -> Places]
      /\ \A d \in TrCalls : runPc'[d] = IF d = c THEN to ELSE runPc[d]
  BY DEF TrMove, TrIInv, TrTypeOK, Places
<1>2. TrTypeOK'
  BY <1>1 DEF Cleared, TrIInv, TrTypeOK, Places
<1>3. RunningIsUnderWay'
  BY <1>1, TestRunnerAssumption DEF Cleared, TrIInv, TrTypeOK, RunningIsUnderWay, TrCalls
<1>4. RunIdIsTrue'
  BY <1>1 DEF Cleared, TrIInv, RunIdIsTrue, TrCalls
<1>5. AwaitedIsThere'
  BY <1>1 DEF TrIInv, AwaitedIsThere, TrCalls
<1>6. NoneBeside'
  BY <1>1 DEF Cleared, TrIInv, NoneBeside, TrCalls
<1> QED
  BY <1>2, <1>3, <1>4, <1>5, <1>6 DEF TrIInv

\* A run begins, before or after it has discovered its files, or beside others.
LEMMA AdvanceInv ==
  ASSUME TrIInv, NEW r \in TestRuns, NEW to \in {"discovering", "reading"},
         runPc[r] \in {"new", "cancelled", "discovering"}, TrMove(r, to), UNCHANGED waits,
         overlapped' \in BOOLEAN,
         ~overlapped' => /\ ~overlapped
                         /\ currentRunId' = r
                         /\ \A q \in TestRuns \ {r} : runPc[q] \notin Past
                         /\ \A c \in TrCalls : runPc[c] # "cancelling",
         currentRunId' \in TestRuns \cup {NoRun},
         IF to = "reading" THEN currentProcess' = r /\ proc' = [proc EXCEPT ![r] = "alive"]
                           ELSE UNCHANGED <<currentProcess, proc>>
  PROVE  TrIInv'
<1>1. /\ runPc' \in [TrCalls -> Places] /\ r \in TrCalls
      /\ \A d \in TrCalls : runPc'[d] = IF d = r THEN to ELSE runPc[d]
  BY DEF TrMove, TrIInv, TrTypeOK, Places, TrCalls
<1>2. /\ proc' \in [TestRuns -> {"none", "alive", "dying", "dead"}]
      /\ \A q \in TestRuns : proc'[q] = IF q = r /\ to = "reading" THEN "alive" ELSE proc[q]
  BY DEF TrIInv, TrTypeOK
<1>3. currentProcess' = IF to = "reading" THEN r ELSE currentProcess
  OBVIOUS
<1>4. TrTypeOK'
  BY <1>1, <1>2, <1>3 DEF TrIInv, TrTypeOK, Places
<1>5. RunningIsUnderWay'
  BY <1>1, <1>3 DEF TrIInv, TrTypeOK, RunningIsUnderWay, TrCalls
<1>6. RunIdIsTrue'
  BY <1>1, <1>2, <1>3 DEF TrIInv, RunIdIsTrue, TrCalls, Past
<1>7. AwaitedIsThere'
  BY <1>1, <1>2 DEF TrIInv, AwaitedIsThere, TrCalls
<1>8. NoneBeside'
  <2>1. ~overlapped' => currentProcess \in {r, NoRun}
    BY DEF TrIInv, TrTypeOK, RunningIsUnderWay, Past
  <2> QED
    BY <1>1, <1>3, <2>1 DEF NoneBeside, TrCalls, Past
<1> QED
  BY <1>4, <1>5, <1>6, <1>7, <1>8 DEF TrIInv

\* Without overlap, a run past its beginning has none beside it.
LEMMA AloneOrOverlapped ==
  ASSUME TrIInv, ~overlapped, NEW r \in TestRuns, runPc[r] \in Past
  PROVE  /\ \A q \in TestRuns \ {r} : runPc[q] \notin Past
         /\ runPc[r] = "discovering" =>
              currentRunId = r /\ \A c \in TrCalls : runPc[c] # "cancelling"
<1>1. /\ \A q \in TestRuns \ {r} : runPc[q] \notin Past
      /\ runPc[r] = "discovering" => currentRunId = r
      /\ \A c \in TrCalls : runPc[c] = "cancelling" => waits[c] = r
  BY DEF TrIInv, NoneBeside, Past
<1>2. runPc[r] = "discovering" => proc[r] = "none"
  BY DEF TrIInv, AwaitedIsThere
<1>3. \A c \in TrCalls : runPc[c] = "cancelling" => proc[waits[c]] # "none"
  BY DEF TrIInv, AwaitedIsThere
<1> QED
  BY <1>1, <1>2, <1>3

\* A run that begins as the only call under way has none beside it.
LEMMA OnlyUnderWay ==
  ASSUME TrIInv, NEW r \in TestRuns, TrUnderWay \ {r} = {}, runPc[r] \in {"new", "cancelled"}
  PROVE  /\ \A q \in TestRuns \ {r} : runPc[q] \notin Past
         /\ \A c \in TrCalls : runPc[c] # "cancelling"
<1>1. \A c \in TrCalls : c # r => runPc[c] \in {"new", "over"}
  BY DEF TrUnderWay
<1> QED
  BY <1>1 DEF TrCalls, Past

LEMMA SpawnFailsInv ==
  ASSUME TrIInv, NEW r \in TestRuns, SpawnFails(r),
         \/ runPc[r] = "discovering" /\ UNCHANGED overlapped
         \/ Beginning(r)
  PROVE  TrIInv'
<1>1. overlapped' \in BOOLEAN /\ (~overlapped' => ~overlapped)
  BY DEF Beginning, TrIInv, TrTypeOK
<1>2. ~overlapped' => \A q \in TestRuns \ {r} : runPc[q] \notin Past
  BY <1>1, AloneOrOverlapped, OnlyUnderWay DEF Beginning, Past
<1> QED
  BY <1>1, <1>2, LeaveInv DEF SpawnFails, TrCalls, Past

LEMMA SpawnInv ==
  ASSUME TrIInv, NEW r \in TestRuns, Spawn(r),
         \/ runPc[r] = "discovering" /\ UNCHANGED <<overlapped, currentRunId>>
         \/ Beginning(r) /\ currentRunId' = r
  PROVE  TrIInv'
<1>1. /\ overlapped' \in BOOLEAN /\ (~overlapped' => ~overlapped)
      /\ currentRunId' \in TestRuns \cup {NoRun}
  BY DEF Beginning, TrIInv, TrTypeOK
<1>2. ~overlapped' => /\ currentRunId' = r
                      /\ \A q \in TestRuns \ {r} : runPc[q] \notin Past
                      /\ \A c \in TrCalls : runPc[c] # "cancelling"
  BY <1>1, AloneOrOverlapped, OnlyUnderWay DEF Beginning, Past
<1>3. runPc[r] \in {"new", "cancelled", "discovering"}
  BY DEF Beginning
<1> QED
  BY <1>1, <1>2, <1>3, AdvanceInv DEF Spawn

LEMMA DiscoverInv ==
  ASSUME TrIInv, NEW r \in TestRuns, Discover(r)
  PROVE  TrIInv'
<1>1. overlapped' \in BOOLEAN /\ (~overlapped' => ~overlapped)
  BY DEF Discover, Beginning, TrIInv, TrTypeOK
<1>2. ~overlapped' => /\ \A q \in TestRuns \ {r} : runPc[q] \notin Past
                      /\ \A c \in TrCalls : runPc[c] # "cancelling"
  BY OnlyUnderWay DEF Discover, Beginning
<1> QED
  BY <1>1, <1>2, AdvanceInv DEF Discover, Beginning

\* The run whose streams have ended awaits a process there is.
LEMMA StreamsEndInv ==
  ASSUME TrIInv, NEW r \in TestRuns, StreamsEnd(r)
  PROVE  TrIInv'
<1>1. runPc[r] = "reading" /\ proc[r] = "dead" /\ r \in TrCalls
  BY DEF StreamsEnd, TrCalls
<1>2. CASE currentProcess = NoRun
  <2>1. ~overlapped => \A q \in TestRuns \ {r} : runPc[q] \notin Past
    BY <1>1, AloneOrOverlapped DEF Past
  <2> QED
    BY <1>1, <1>2, <2>1, LeaveInv DEF StreamsEnd, TrIInv, TrTypeOK, Past
<1>3. CASE currentProcess # NoRun
  <2>1. /\ currentProcess \in TestRuns /\ proc[currentProcess] # "none"
    BY <1>3 DEF TrIInv, TrTypeOK, RunningIsUnderWay, AwaitedIsThere
  <2>2. /\ runPc' \in [TrCalls -> Places]
        /\ \A c \in TrCalls : runPc'[c] = IF c = r THEN "waiting" ELSE runPc[c]
    BY <1>3 DEF StreamsEnd, TrMove, TrIInv, TrTypeOK, Places
  <2>3. /\ waits' \in [TrCalls -> TestRuns \cup {NoRun}]
        /\ \A c \in TrCalls : waits'[c] = IF c = r THEN currentProcess ELSE waits[c]
    BY <1>3, <2>1 DEF StreamsEnd, TrIInv, TrTypeOK
  <2>4. UNCHANGED <<currentProcess, currentRunId, proc, overlapped>>
    BY <1>3 DEF StreamsEnd
  <2>5. TrTypeOK'
    BY <2>2, <2>3, <2>4 DEF TrIInv, TrTypeOK, Places
  <2>6. RunningIsUnderWay' /\ RunIdIsTrue'
    BY <1>1, <2>2, <2>4 DEF TrIInv, TrTypeOK, RunningIsUnderWay, RunIdIsTrue, TrCalls
  <2>7. AwaitedIsThere'
    BY <1>1, <2>1, <2>2, <2>3, <2>4 DEF TrIInv, AwaitedIsThere, TrCalls
  <2>8. NoneBeside'
    BY <1>1, <2>2, <2>3, <2>4 DEF TrIInv, NoneBeside, TrCalls
  <2> QED
    BY <2>5, <2>6, <2>7, <2>8 DEF TrIInv
<1> QED
  BY <1>2, <1>3

\* A run that is past its beginning ends, and clears both fields.
LEMMA EndInv ==
  ASSUME TrIInv, NEW r \in TestRuns, runPc[r] \in {"reading", "waiting"},
         TrMove(r, "over"), Cleared, UNCHANGED <<proc, waits, overlapped>>
  PROVE  TrIInv'
<1>1. ~overlapped => \A q \in TestRuns \ {r} : runPc[q] \notin Past
  BY AloneOrOverlapped DEF Past
<1> QED
  BY <1>1, LeaveInv DEF TrIInv, TrTypeOK, TrCalls, Past

LEMMA CancelEndsInv ==
  ASSUME TrIInv, NEW c \in TrCalls, CancelEnds(c)
  PROVE  TrIInv'
<1>1. runPc[c] = "cancelling" /\ proc[waits[c]] = "dead" /\ Cleared
  BY DEF CancelEnds
<1>2. c \in TestRuns => proc[c] = "none"
  BY <1>1 DEF TrIInv, AwaitedIsThere
<1>3. ~overlapped => \A r \in TestRuns : /\ runPc[r] \in {"reading", "waiting"} => proc[r] = "dead"
                                         /\ runPc[r] # "discovering"
  <2> SUFFICES ASSUME ~overlapped, NEW r \in TestRuns, runPc[r] \in Past
               PROVE  runPc[r] # "discovering" /\ proc[r] = "dead"
    BY DEF Past
  <2>1. waits[c] = r
    BY <1>1 DEF TrIInv, NoneBeside, Past
  <2> QED
    BY <1>1, <2>1 DEF TrIInv, AwaitedIsThere
<1>4. TrMove(c, "cancelled") \/ TrMove(c, "over")
  BY DEF CancelEnds
<1>5. overlapped' \in BOOLEAN /\ UNCHANGED <<proc, waits, overlapped>>
  BY DEF CancelEnds, TrIInv, TrTypeOK
<1>6. CASE TrMove(c, "cancelled")
  BY <1>1, <1>2, <1>3, <1>5, <1>6, LeaveInv
<1>7. CASE TrMove(c, "over")
  BY <1>1, <1>3, <1>5, <1>7, LeaveInv
<1> QED
  BY <1>4, <1>6, <1>7

LEMMA TrNextInv == TrIInv /\ [TrNext]_trVars => TrIInv'
<1> SUFFICES ASSUME TrIInv, [TrNext]_trVars PROVE TrIInv'
  OBVIOUS
<1>1. ASSUME NEW r \in TestRuns, RunAsked(r) PROVE TrIInv'
  BY <1>1, KillInv DEF RunAsked, TrCalls
<1>2. ASSUME NEW r \in TestRuns, Discover(r) PROVE TrIInv'
  BY <1>2, DiscoverInv
<1>3. ASSUME NEW r \in TestRuns, LaunchNow(r) PROVE TrIInv'
  BY <1>3, SpawnInv, SpawnFailsInv DEF LaunchNow
<1>4. ASSUME NEW r \in TestRuns, LaunchDiscovered(r) PROVE TrIInv'
  BY <1>4, SpawnInv, SpawnFailsInv DEF LaunchDiscovered
<1>5. ASSUME NEW r \in TestRuns, NoFileMatches(r) PROVE TrIInv'
  <2>1. currentProcess # r /\ r \in TrCalls /\ overlapped \in BOOLEAN /\ runPc[r] = "discovering"
    BY <1>5, TestRunnerAssumption
    DEF NoFileMatches, TrIInv, TrTypeOK, RunningIsUnderWay, TrCalls
  <2>2. ~overlapped => \A q \in TestRuns \ {r} : runPc[q] \notin Past
    BY <2>1, AloneOrOverlapped DEF Past
  <2> QED
    BY <1>5, <2>1, <2>2, LeaveInv DEF NoFileMatches, Past
<1>6. ASSUME NEW r \in TestRuns, ProcessDies(r) PROVE TrIInv'
  <2>1. /\ proc' \in [TestRuns -> {"none", "alive", "dying", "dead"}]
        /\ \A q \in TestRuns : proc'[q] = IF q = r THEN "dead" ELSE proc[q]
    BY <1>6 DEF ProcessDies, TrIInv, TrTypeOK
  <2>2. TrTypeOK'
    BY <1>6, <2>1 DEF ProcessDies, TrIInv, TrTypeOK
  <2>3. RunningIsUnderWay' /\ RunIdIsTrue' /\ NoneBeside'
    BY <1>6, <2>1 DEF ProcessDies, TrIInv, RunningIsUnderWay, RunIdIsTrue, NoneBeside
  <2>4. AwaitedIsThere'
    BY <1>6, <2>1 DEF ProcessDies, TrIInv, AwaitedIsThere
  <2> QED
    BY <2>2, <2>3, <2>4 DEF TrIInv
<1>7. ASSUME NEW r \in TestRuns, StreamsEnd(r) PROVE TrIInv'
  BY <1>7, StreamsEndInv
<1>8. ASSUME NEW r \in TestRuns, ReadFails(r) PROVE TrIInv'
  BY <1>8, EndInv DEF ReadFails
<1>9. ASSUME NEW r \in TestRuns, StatusKnown(r) PROVE TrIInv'
  BY <1>9, EndInv DEF StatusKnown
<1>10. ASSUME NEW c \in CancelCalls, CancelAsked(c) PROVE TrIInv'
  BY <1>10, KillInv DEF CancelAsked, TrCalls
<1>11. ASSUME NEW c \in TrCalls, CancelEnds(c) PROVE TrIInv'
  BY <1>11, CancelEndsInv
<1>12. CASE CancelRefused \/ UNCHANGED trVars
  BY <1>12
  DEF CancelRefused, trVars, TrIInv, TrTypeOK, RunningIsUnderWay, RunIdIsTrue, AwaitedIsThere,
      NoneBeside
<1> QED
  BY <1>1, <1>2, <1>3, <1>4, <1>5, <1>6, <1>7, <1>8, <1>9, <1>10, <1>11, <1>12 DEF TrNext

-----------------------------------------------------------------------------
\* Whatever runs and requests to cancel come in between each other, who awaits
\* a process awaits one there is, and isRunning() is only true of a run under
\* way (run, cancel).
THEOREM RunnerSafety == TrSpec => []TrIInv
<1>1. TrInit => TrIInv
  BY TrInitInv
<1>2. TrIInv /\ [TrNext]_trVars => TrIInv'
  BY TrNextInv
<1> QED
  BY <1>1, <1>2, PTL DEF TrSpec

\* As long as no run has begun beside another call, cancel() stops the run that
\* is under way, and the status shows its runId.
THEOREM RunnerKnowsItsRun == TrSpec => []RunIdIsTrue
<1>1. TrIInv => RunIdIsTrue
  BY DEF TrIInv
<1> QED
  BY <1>1, RunnerSafety, PTL

-----------------------------------------------------------------------------
\* HealthMonitor

Status == {"none", "unknown", "healthy", "unhealthy"}
Asked == {"idle", "asking", "healthy", "unhealthy"}

\* An entry has an id and a url.
LEMMA EntryParts ==
  ASSUME NEW e \in Entries
  PROVE  e[1] \in Ids /\ e[2] \in Urls
  BY HealthAssumption

LEMMA HmInitInv == HmInit => HmIInv
<1> SUFFICES ASSUME HmInit PROVE HmIInv
  OBVIOUS
<1>1. HmTypeOK
  <2>1. services \subseteq Entries
    BY HealthAssumption DEF HmInit
  <2>2. timeouts \in 0 .. MaxTimeouts
    BY HealthAssumption DEF HmInit
  <2>3. shown \in [Ids -> {"none", "unknown", "healthy", "unhealthy"}]
    BY DEF HmInit
  <2>4. check \in [Rounds -> [Entries -> {"idle", "asking", "healthy", "unhealthy"}]]
    BY DEF HmInit
  <2> QED
    BY <2>1, <2>2, <2>3, <2>4 DEF HmInit, HmTypeOK
<1>2. ShownIsListed
  BY DEF HmInit, ShownIsListed, Listed
<1>3. ChecksAreKnown
  BY DEF HmInit, ChecksAreKnown, Checked
<1> QED
  BY <1>1, <1>2, <1>3 DEF HmIInv

\* A round, polled or forced, asks the services of the list only.
LEMMA RoundInv ==
  ASSUME HmIInv, NEW k \in Rounds, CheckAll(k), isRunning' \in BOOLEAN,
         UNCHANGED <<services, shown, up, timeouts, orphaned>>
  PROVE  HmIInv'
<1>1. /\ check' \in [Rounds -> [Entries -> Asked]]
      /\ \A j \in Rounds, e \in Entries :
           check'[j][e] = IF j = k THEN (IF e \in services THEN "asking" ELSE "idle")
                                   ELSE check[j][e]
  BY DEF CheckAll, HmIInv, HmTypeOK, Asked
<1>2. HmTypeOK'
  BY <1>1 DEF HmIInv, HmTypeOK, Asked
<1>3. ShownIsListed'
  BY DEF HmIInv, ShownIsListed, Listed
<1>4. ChecksAreKnown'
  <2> SUFFICES ASSUME NEW id \in Ids, Checked(id)', ~Listed(id)'
               PROVE  id \in orphaned
    BY DEF ChecksAreKnown
  <2>1. PICK j \in Rounds, e \in Entries : e[1] = id /\ check'[j][e] # "idle"
    BY DEF Checked
  <2>2. e \notin services /\ ~Listed(id)
    BY <2>1 DEF Listed
  <2>3. check[j][e] # "idle"
    BY <1>1, <2>1, <2>2
  <2> QED
    BY <2>1, <2>2, <2>3 DEF Checked, HmIInv, ChecksAreKnown
<1> QED
  BY <1>2, <1>3, <1>4 DEF HmIInv

\* The answer of a check is of an entry that was asked.
LEMMA AnswerInv ==
  ASSUME HmIInv, NEW k \in Rounds, NEW e \in Entries, NEW a \in Asked,
         check[k][e] # "idle", check' = [check EXCEPT ![k][e] = a],
         timeouts' \in 0 .. MaxTimeouts,
         UNCHANGED <<isRunning, services, up, orphaned>>,
         \/ UNCHANGED shown
         \/ \E s \in Status \ {"none"} : shown' = [shown EXCEPT ![e[1]] = s]
  PROVE  HmIInv'
<1>1. /\ check' \in [Rounds -> [Entries -> Asked]]
      /\ \A j \in Rounds, f \in Entries : check'[j][f] # "idle" => check[j][f] # "idle"
  BY DEF HmIInv, HmTypeOK, Asked
<1>2. e[1] \in Ids /\ Checked(e[1])
  BY EntryParts DEF Checked
<1>3. /\ shown' \in [Ids -> Status]
      /\ \A id \in Ids : \/ shown'[id] = shown[id]
                         \/ id = e[1] /\ shown'[id] # "none"
  BY <1>2 DEF HmIInv, HmTypeOK, Status
<1>4. HmTypeOK'
  BY <1>1, <1>3 DEF HmIInv, HmTypeOK, Asked, Status
<1>5. ShownIsListed'
  BY <1>2, <1>3 DEF HmIInv, ShownIsListed, ChecksAreKnown, Listed
<1>6. ChecksAreKnown'
  BY <1>1 DEF HmIInv, ChecksAreKnown, Checked, Listed
<1> QED
  BY <1>4, <1>5, <1>6 DEF HmIInv

LEMMA AddInv ==
  ASSUME HmIInv, NEW e \in Entries, AddService(e)
  PROVE  HmIInv'
<1>1. e[1] \in Ids
  BY EntryParts
<1>2. HmTypeOK'
  BY <1>1 DEF AddService, HmIInv, HmTypeOK
<1>3. \A id \in Ids : Listed(id)' <=> Listed(id) \/ id = e[1]
  BY DEF AddService, Listed
<1>4. \A id \in Ids : shown'[id] = IF id = e[1] THEN "unknown" ELSE shown[id]
  BY DEF AddService, HmIInv, HmTypeOK
<1>5. ShownIsListed'
  BY <1>3, <1>4 DEF AddService, HmIInv, ShownIsListed
<1>6. ChecksAreKnown'
  BY <1>3 DEF AddService, HmIInv, ChecksAreKnown, Checked
<1> QED
  BY <1>2, <1>5, <1>6 DEF HmIInv

LEMMA RemoveInv ==
  ASSUME HmIInv, NEW id \in Ids, RemoveService(id)
  PROVE  HmIInv'
<1>1. HmTypeOK'
  BY DEF RemoveService, HmIInv, HmTypeOK
<1>2. \A i \in Ids : Listed(i)' <=> Listed(i) /\ i # id
  BY DEF RemoveService, Listed
<1>3. \A i \in Ids : shown'[i] = IF i = id THEN "none" ELSE shown[i]
  BY DEF RemoveService, HmIInv, HmTypeOK
<1>4. \A i \in Ids : i \in orphaned' <=> IF i = id THEN Checked(id) ELSE i \in orphaned
  BY DEF RemoveService
<1>5. ShownIsListed'
  BY <1>2, <1>3, <1>4 DEF HmIInv, ShownIsListed
<1>6. ChecksAreKnown'
  BY <1>2, <1>4 DEF RemoveService, HmIInv, ChecksAreKnown, Checked
<1> QED
  BY <1>1, <1>5, <1>6 DEF HmIInv

\* What does not touch the list, the checks and what is shown.
LEMMA OtherInv ==
  ASSUME HmIInv, UNCHANGED <<services, shown, check, timeouts, orphaned>>,
         isRunning' \in BOOLEAN, up' \in [Urls -> BOOLEAN]
  PROVE  HmIInv'
<1>1. HmTypeOK'
  BY DEF HmIInv, HmTypeOK
<1>2. ShownIsListed' /\ ChecksAreKnown'
  BY DEF HmIInv, ShownIsListed, ChecksAreKnown, Listed, Checked
<1> QED
  BY <1>1, <1>2 DEF HmIInv

LEMMA HmNextInv == HmIInv /\ [HmNext]_hmVars => HmIInv'
<1> SUFFICES ASSUME HmIInv, [HmNext]_hmVars PROVE HmIInv'
  OBVIOUS
<1> USE DEF HmIInv, HmTypeOK
<1>1. CASE HmStart
  BY <1>1, RoundInv DEF HmStart, Rounds
<1>2. CASE HmPoll
  BY <1>2, RoundInv DEF HmPoll, Rounds
<1>3. CASE HmStop
  BY <1>3, OtherInv DEF HmStop
<1>4. ASSUME NEW k \in Forced, ForceCheck(k) PROVE HmIInv'
  BY <1>4, RoundInv DEF ForceCheck, Rounds
<1>5. ASSUME NEW k \in Rounds, NEW e \in Entries, Answer(k, e) PROVE HmIInv'
  <2>1. PICK a \in {"healthy", "unhealthy"} : check' = [check EXCEPT ![k][e] = a]
    BY <1>5 DEF Answer
  <2> QED
    BY <1>5, <2>1, AnswerInv DEF Answer, Asked
<1>6. ASSUME NEW k \in Rounds, NEW e \in Entries, TimesOut(k, e) PROVE HmIInv'
  <2>1. timeouts' \in 0 .. MaxTimeouts
    BY <1>6, HealthAssumption DEF TimesOut
  <2> QED
    BY <1>6, <2>1, AnswerInv DEF TimesOut, Asked
<1>7. ASSUME NEW k \in Rounds, NEW e \in Entries, Record(k, e) PROVE HmIInv'
  BY <1>7, AnswerInv DEF Record, Asked, Status
<1>8. ASSUME NEW e \in Entries, AddService(e) PROVE HmIInv'
  BY <1>8, AddInv
<1>9. ASSUME NEW id \in Ids, RemoveService(id) PROVE HmIInv'
  BY <1>9, RemoveInv
<1>10. ASSUME NEW u \in Urls, UpOrDown(u) PROVE HmIInv'
  BY <1>10, OtherInv DEF UpOrDown
<1>11. CASE UNCHANGED hmVars
  BY <1>11, OtherInv DEF hmVars
<1> QED
  BY <1>1, <1>2, <1>3, <1>4, <1>5, <1>6, <1>7, <1>8, <1>9, <1>10, <1>11 DEF HmNext

-----------------------------------------------------------------------------
\* However checks, forced checks and requests that add and remove services
\* come in between each other, a service is shown exactly while it is listed,
\* but for one removed during a check of it (checkService writes the answer
\* without a look at the list).
THEOREM HealthSafety == HmSpec => []HmIInv
<1>1. HmInit => HmIInv
  BY HmInitInv
<1>2. HmIInv /\ [HmNext]_hmVars => HmIInv'
  BY HmNextInv
<1> QED
  BY <1>1, <1>2, PTL DEF HmSpec

\* The part of it a client of GET /health sees.
THEOREM ShownServices == HmSpec => []ShownIsListed
<1>1. HmIInv => ShownIsListed
  BY DEF HmIInv
<1> QED
  BY <1>1, HealthSafety, PTL

-----------------------------------------------------------------------------
\* FileWatcher

LEMMA FwInitInv == FwInit => FwInv
<1> SUFFICES ASSUME FwInit PROVE FwInv
  OBVIOUS
<1>1. FwTypeOK
  <2>1. loop \in [StartCalls -> {"new", "stat", "open", "over"}]
    BY DEF FwInit
  <2>2. lateTells \in Nat
    BY DEF FwInit
  <2> QED
    BY <2>1, <2>2 DEF FwInit, FwTypeOK
<1>2. AtMostOneLateTell /\ LateTellWasTheLast
  BY DEF FwInit, AtMostOneLateTell, LateTellWasTheLast
<1> QED
  BY <1>1, <1>2 DEF FwInv

LEMMA FwNextInv == FwInv /\ [FwNext]_fwVars => FwInv'
<1> SUFFICES ASSUME FwInv, [FwNext]_fwVars PROVE FwInv'
  OBVIOUS
<1> USE DEF FwInv, AtMostOneLateTell, LateTellWasTheLast
<1>1. CASE UNCHANGED fwVars \/ FwIdle
  BY <1>1 DEF fwVars, FwIdle, FwTypeOK
<1>2. ASSUME NEW s \in StartCalls, FwStart(s) \/ FwNoPath(s) \/ FwOpen(s) \/ FwOpenFails(s) \/ WatcherFails(s)
      PROVE  FwInv'
  <2>1. CASE FwStart(s)
    BY <2>1 DEF FwStart, FwTypeOK
  <2>2. CASE FwNoPath(s)
    BY <2>2 DEF FwNoPath, FwTypeOK
  <2>3. CASE FwOpen(s)
    BY <2>3 DEF FwOpen, FwTypeOK
  <2>4. CASE FwOpenFails(s)
    <3>1. FwTypeOK'
      BY <2>4 DEF FwOpenFails, FwTypeOK
    <3> QED
      BY <2>4, <3>1 DEF FwOpenFails
  <2>5. CASE WatcherFails(s)
    BY <2>5 DEF WatcherFails, FwTypeOK
  <2> QED
    BY <1>2, <2>1, <2>2, <2>3, <2>4, <2>5
<1>3. ASSUME NEW s \in StartCalls, NEW e \in TsEvents \cup {OtherEvent}, Event(s, e)
      PROVE  FwInv'
  BY <1>3 DEF Event, FwTypeOK
<1>4. CASE Broadcast
  BY <1>4 DEF Broadcast, FwTypeOK
<1>5. CASE FwStop
  BY <1>5 DEF FwStop, FwTypeOK
<1> QED
  BY <1>1, <1>2, <1>3, <1>4, <1>5 DEF FwNext

\* However often the watcher is started and stopped while start() awaits, events
\* come and watchers fail, its owner is told once at most after a stop()
\* (start, processEvents, broadcast, stop).
THEOREM FileWatcherSafety == FwSpec => []FwInv
<1>1. FwInit => FwInv
  BY FwInitInv
<1>2. FwInv /\ [FwNext]_fwVars => FwInv'
  BY FwNextInv
<1> QED
  BY <1>1, <1>2, PTL DEF FwSpec

-----------------------------------------------------------------------------
\* ArtifactWatcher

AwPlaces == {"free", "testing", "writing", "logging"}

\* What is on disk once nothing is due or under way follows from where each
\* file is accounted for.
LEMMA CurrentOnDisk ==
  /\ OneRebuild /\ NoneIsForgotten => OnDiskIsCurrent
  /\ OneRebuild' /\ NoneIsForgotten' => OnDiskIsCurrent'
  BY DEF OneRebuild, NoneIsForgotten, Accounted, OnDiskIsCurrent

LEMMA AwInitInv == AwInit => AwInv
<1> SUFFICES ASSUME AwInit PROVE AwInv
  OBVIOUS
<1>1. AwTypeOK
  <2>1. /\ rebuild \in [Rebuilds -> AwPlaces]
        /\ testing \in [Rebuilds -> SUBSET Sources]
        /\ snapshot \in [Rebuilds -> SUBSET Sources]
    BY DEF AwInit, AwPlaces
  <2> QED
    BY <2>1 DEF AwInit, AwTypeOK, AwPlaces
<1>2. OneRebuild
  BY DEF AwInit, OneRebuild
<1>3. NoneIsForgotten
  BY DEF AwInit, NoneIsForgotten, Accounted, UnderTest
<1> QED
  BY <1>1, <1>2, <1>3, CurrentOnDisk DEF AwInv

\* Changed files are taken out of everything.
LEMMA OutdateKeeps ==
  ASSUME AwTypeOK, NEW files \in SUBSET Sources, Outdate(files)
  PROVE  /\ testing' \in [Rebuilds -> SUBSET Sources]
         /\ snapshot' \in [Rebuilds -> SUBSET Sources]
         /\ known' \subseteq Sources /\ written' \subseteq Sources
         /\ \A b \in Rebuilds : testing'[b] = testing[b] \ files /\ snapshot'[b] = snapshot[b] \ files
         /\ UnderTest' = UnderTest \ files
<1>1. /\ \A b \in Rebuilds : testing'[b] = testing[b] \ files /\ snapshot'[b] = snapshot[b] \ files
      /\ testing' \in [Rebuilds -> SUBSET Sources]
      /\ snapshot' \in [Rebuilds -> SUBSET Sources]
      /\ known' \subseteq Sources /\ written' \subseteq Sources
  BY DEF Outdate, AwTypeOK
<1>2. UnderTest' = UnderTest \ files
  BY <1>1 DEF UnderTest
<1> QED
  BY <1>1, <1>2

LEMMA ChangedInv ==
  ASSUME AwInv, NEW files \in SUBSET Sources, Changed(files) \/ ChangedUnseen(files)
  PROVE  AwInv'
<1> USE DEF AwInv
<1>1. Outdate(files)
  BY DEF Changed, ChangedUnseen
<1>2. AwTypeOK'
  BY <1>1, OutdateKeeps DEF Changed, ChangedUnseen, AwTypeOK
<1>3. OneRebuild'
  <2>1. \A b \in Rebuilds : testing'[b] # {} => testing[b] # {}
    BY <1>1, OutdateKeeps
  <2> QED
    BY <2>1 DEF Changed, ChangedUnseen, OneRebuild
<1>4. NoneIsForgotten'
  <2>1. missed' \cup debounced' = missed \cup debounced \cup files
    BY DEF Changed, ChangedUnseen
  <2>2. \A fs : Accounted(fs) => Sources \subseteq (fs \ files) \cup missed' \cup debounced'
    BY <2>1 DEF Accounted
  <2>4. ASSUME phase' = "watching"
        PROVE  Accounted(known \cup UnderTest)'
    <3>1. Sources \subseteq ((known \cup UnderTest) \ files)
                              \cup missed' \cup debounced'
      BY <2>2, <2>4 DEF NoneIsForgotten, Changed, ChangedUnseen
    <3>2. UnderTest' = UnderTest \ files
          /\ known' = known \ files
      BY <1>1, OutdateKeeps DEF Outdate
    <3> QED
      BY <3>1, <3>2 DEF Accounted
  <2>5. ASSUME phase' = "watching", NEW b \in Rebuilds
        PROVE  /\ rebuild'[b] = "writing" => Accounted(snapshot[b])'
               /\ rebuild'[b] = "logging" => Accounted(written)'
    <3>1. snapshot'[b] = snapshot[b] \ files /\ written' = written \ files
          /\ rebuild' = rebuild /\ phase = "watching"
      BY <1>1, <2>5, OutdateKeeps DEF Changed, ChangedUnseen, Outdate
    <3> QED
      BY <2>2, <3>1 DEF NoneIsForgotten, Accounted
  <2>6. phase' = "watching" /\ ~isRebuilding' /\ ~writeFailed' => Accounted(written)' /\ writtenLog'
    BY <1>1, <2>2 DEF NoneIsForgotten, Changed, ChangedUnseen, Outdate, Accounted
  <2> QED
    BY <2>4, <2>5, <2>6 DEF NoneIsForgotten
<1> QED
  BY <1>2, <1>3, <1>4, CurrentOnDisk

\* A file that is tested or written by a rebuild is so by the only one.
LEMMA DueInv ==
  ASSUME AwInv, phase = "watching", Due
  PROVE  AwInv'
<1> USE DEF AwInv
<1>1. CASE isRebuilding
  <2>1. /\ UNCHANGED <<phase, isRebuilding, rebuild, testing, snapshot, known, written, writtenLog, writeFailed>>
        /\ missed' = missed \cup debounced /\ debounced' = {} /\ due' = FALSE
    BY <1>1 DEF Due, BeginRebuild
  <2>2. AwTypeOK'
    BY <2>1 DEF AwTypeOK
  <2>3. OneRebuild'
    BY <1>1, <2>1 DEF OneRebuild
  <2>4. NoneIsForgotten'
    BY <1>1, <2>1 DEF NoneIsForgotten, Accounted, UnderTest
  <2> QED
    BY <2>2, <2>3, <2>4, CurrentOnDisk
<1>2. CASE ~isRebuilding
  <2>1. PICK b \in Rebuilds : BeginRebuild(b)
    BY <1>2 DEF Due
  <2>2. \A c \in Rebuilds : rebuild[c] = "free"
    BY <1>2 DEF OneRebuild
  <2>3. /\ rebuild' \in [Rebuilds -> AwPlaces]
        /\ \A c \in Rebuilds : rebuild'[c] = IF c = b THEN "testing" ELSE "free"
    BY <2>1, <2>2 DEF BeginRebuild, AwTypeOK, AwPlaces
  <2>4. /\ testing' \in [Rebuilds -> SUBSET Sources]
        /\ \A c \in Rebuilds : testing'[c] = IF c = b THEN debounced ELSE {}
    BY <2>1, <2>2 DEF BeginRebuild, AwTypeOK, OneRebuild
  <2>5. AwTypeOK'
    BY <2>1, <2>3, <2>4, <1>2 DEF BeginRebuild, Due, AwTypeOK, AwPlaces
  <2>6. OneRebuild'
    BY <2>1, <2>3, <2>4 DEF BeginRebuild, Due, OneRebuild
  <2>7. NoneIsForgotten'
    <3>1. /\ phase' = "watching" /\ isRebuilding' /\ known' = known /\ debounced' = {}
          /\ missed' = missed
      BY <1>2, <2>1 DEF BeginRebuild, Due
    <3>2. Sources \subseteq known \cup missed \cup debounced
      <4>1. UnderTest = {}
        BY <2>2 DEF OneRebuild, UnderTest
      <4> QED
        BY <4>1 DEF NoneIsForgotten, Accounted
    <3>3. debounced \subseteq UnderTest'
      BY <2>4 DEF UnderTest, AwTypeOK
    <3>4. Accounted(known \cup UnderTest)'
      BY <3>1, <3>2, <3>3 DEF Accounted
    <3> QED
      BY <2>3, <3>1, <3>4 DEF NoneIsForgotten
  <2> QED
    BY <2>5, <2>6, <2>7, CurrentOnDisk
<1> QED
  BY <1>1, <1>2

\* The only rebuild there is moves.
LEMMA AwRebuildMoves ==
  ASSUME AwInv, NEW b \in Rebuilds, NEW to \in AwPlaces, rebuild[b] # "free",
         rebuild' = [rebuild EXCEPT ![b] = to]
  PROVE  /\ rebuild' \in [Rebuilds -> AwPlaces]
         /\ \A c \in Rebuilds : rebuild'[c] = IF c = b THEN to ELSE "free"
         /\ \A c \in Rebuilds : c # b => testing[c] = {}
         /\ isRebuilding
<1>1. \A c \in Rebuilds : c # b => rebuild[c] = "free"
  BY DEF AwInv, OneRebuild
<1> QED
  BY <1>1 DEF AwInv, AwTypeOK, AwPlaces, OneRebuild

LEMMA TestedInv ==
  ASSUME AwInv, phase = "watching", NEW b \in Rebuilds,
         NEW ended \in SUBSET testing[b], Tested(b, ended)
  PROVE  AwInv'
<1> USE DEF AwInv
<1>1. /\ rebuild' \in [Rebuilds -> AwPlaces]
      /\ \A c \in Rebuilds : rebuild'[c] = IF c = b THEN "writing" ELSE "free"
      /\ \A c \in Rebuilds : c # b => testing[c] = {}
      /\ isRebuilding
  BY AwRebuildMoves DEF Tested, AwPlaces
<1>2. /\ testing' \in [Rebuilds -> SUBSET Sources]
      /\ \A c \in Rebuilds : testing'[c] = {}
  BY <1>1 DEF Tested, AwTypeOK
<1>3. known' \subseteq Sources /\ missed' \subseteq Sources
  BY DEF Tested, AwTypeOK
<1>4. /\ snapshot' \in [Rebuilds -> SUBSET Sources]
      /\ snapshot'[b] = known'
  BY <1>3 DEF Tested, AwTypeOK
<1>5. AwTypeOK'
  BY <1>1, <1>2, <1>3, <1>4 DEF Tested, AwTypeOK, AwPlaces
<1>6. OneRebuild'
  BY <1>1, <1>2 DEF Tested, OneRebuild
<1>7. NoneIsForgotten'
  <2>1. UnderTest = testing[b]
    BY <1>1 DEF UnderTest, AwTypeOK
  <2>2. Sources \subseteq known \cup testing[b] \cup missed \cup debounced
    BY <2>1 DEF NoneIsForgotten, Accounted
  <2>3. Sources \subseteq known' \cup missed' \cup debounced'
    BY <2>2 DEF Tested
  <2>4. Accounted(known \cup UnderTest)' /\ Accounted(snapshot[b])'
    BY <1>4, <2>3 DEF Accounted
  <2> QED
    BY <1>1, <2>4 DEF NoneIsForgotten, Tested
<1> QED
  BY <1>5, <1>6, <1>7, CurrentOnDisk

\* A rebuild writes, and is over when it is done or fails.
LEMMA WritingInv ==
  ASSUME AwInv, phase = "watching", NEW b \in Rebuilds,
         WatchResultsWritten(b) \/ WatchLogWritten(b) \/ RebuildFails(b)
  PROVE  AwInv'
<1> USE DEF AwInv
<1> DEFINE to == IF WatchResultsWritten(b) THEN "logging" ELSE "free"
<1>1. /\ rebuild' \in [Rebuilds -> AwPlaces]
      /\ \A c \in Rebuilds : rebuild'[c] \in {"logging", "free"}
      /\ \A c \in Rebuilds : c # b => rebuild'[c] = "free" /\ rebuild[c] = "free"
      /\ \A c \in Rebuilds : testing[c] = {} /\ rebuild[c] # "testing"
      /\ isRebuilding
      /\ WatchResultsWritten(b) => rebuild'[b] = "logging"
      /\ ~WatchResultsWritten(b) => rebuild'[b] = "free"
  <2>1. rebuild[b] \in {"writing", "logging"}
    BY DEF WatchResultsWritten, WatchLogWritten, RebuildFails
  <2>2. rebuild' = [rebuild EXCEPT ![b] = to] /\ to \in AwPlaces
    BY DEF WatchResultsWritten, WatchLogWritten, RebuildFails, AwPlaces
  <2>3. \A c \in Rebuilds : c # b => rebuild[c] = "free"
    BY <2>1 DEF OneRebuild
  <2>4. \A c \in Rebuilds : testing[c] = {}
    BY <2>1, <2>3 DEF OneRebuild
  <2> QED
    BY <2>1, <2>2, <2>3, <2>4, AwRebuildMoves
<1>2. AwTypeOK'
  BY <1>1 DEF WatchResultsWritten, WatchLogWritten, RebuildFails, AwTypeOK, AwPlaces, awHistory
<1>3. OneRebuild'
  <2>1. testing' = testing /\ due' = due /\ debounced' = debounced /\ phase' = phase
    BY DEF WatchResultsWritten, WatchLogWritten, RebuildFails
  <2>2. isRebuilding' <=> WatchResultsWritten(b)
    BY <1>1 DEF WatchResultsWritten, WatchLogWritten, RebuildFails
  <2> QED
    BY <1>1, <2>1, <2>2 DEF OneRebuild
<1>4. NoneIsForgotten'
  <2>1. /\ testing' = testing /\ debounced' = debounced /\ phase' = "watching"
        /\ known' = known /\ missed' = missed
    BY DEF WatchResultsWritten, WatchLogWritten, RebuildFails, awHistory
  <2>2. Accounted(known \cup UnderTest)'
    BY <2>1 DEF NoneIsForgotten, Accounted, UnderTest
  <2>3. CASE WatchResultsWritten(b)
    <3>1. Accounted(written)'
      BY <2>1, <2>3 DEF WatchResultsWritten, NoneIsForgotten, Accounted
    <3> QED
      BY <1>1, <2>1, <2>2, <2>3, <3>1 DEF NoneIsForgotten, WatchResultsWritten
  <2>4. CASE WatchLogWritten(b)
    <3>1. Accounted(written)'
      BY <2>1, <2>4 DEF WatchLogWritten, NoneIsForgotten, Accounted
    <3>2. writtenLog'
      BY <1>1, <2>4 DEF WatchLogWritten
    <3>3. \A c \in Rebuilds : rebuild'[c] = "free"
      BY <1>1, <2>4 DEF WatchLogWritten, WatchResultsWritten
    <3> QED
      BY <2>1, <2>2, <3>1, <3>2, <3>3 DEF NoneIsForgotten
  <2>5. CASE RebuildFails(b)
    <3>1. \A c \in Rebuilds : rebuild'[c] = "free"
      BY <1>1, <2>5, AwRebuildMoves DEF RebuildFails, AwTypeOK
    <3>2. writeFailed'
      BY <2>5 DEF RebuildFails
    <3> QED
      BY <2>1, <2>2, <3>1, <3>2 DEF NoneIsForgotten
  <2> QED
    BY <2>3, <2>4, <2>5
<1> QED
  BY <1>2, <1>3, <1>4, CurrentOnDisk

LEMMA AwNextInv == AwInv /\ [AwNext]_awVars => AwInv'
<1> SUFFICES ASSUME AwInv, [AwNext]_awVars PROVE AwInv'
  OBVIOUS
<1>1. ASSUME NEW files \in SUBSET Sources, Changed(files) \/ ChangedUnseen(files)
      PROVE  AwInv'
  BY <1>1, ChangedInv
<1>2. ASSUME NEW ended \in SUBSET Sources, InitialWritten(ended) PROVE AwInv'
  <2>1. AwTypeOK'
    BY <1>2 DEF InitialWritten, AwInv, AwTypeOK
  <2>2. OneRebuild'
    BY <1>2 DEF InitialWritten, AwInv, OneRebuild
  <2>3. NoneIsForgotten'
    <3>1. \A b \in Rebuilds : rebuild'[b] = "free"
      BY <1>2 DEF InitialWritten, AwInv, OneRebuild
    <3>2. Accounted(written)' /\ Accounted(known \cup UnderTest)' /\ writtenLog'
      BY <1>2 DEF InitialWritten, Accounted
    <3> QED
      BY <3>1, <3>2 DEF NoneIsForgotten
  <2> QED
    BY <2>1, <2>2, <2>3, CurrentOnDisk DEF AwInv
<1>3. CASE MainFails
  BY <1>3, CurrentOnDisk
  DEF MainFails, AwInv, AwTypeOK, OneRebuild, NoneIsForgotten, awHistory
<1>4. CASE phase = "watching" /\ Due
  BY <1>4, DueInv
<1>5. ASSUME phase = "watching", NEW b \in Rebuilds,
             NEW ended \in SUBSET testing[b], Tested(b, ended)
      PROVE  AwInv'
  BY <1>5, TestedInv
<1>6. ASSUME phase = "watching", NEW b \in Rebuilds,
             WatchResultsWritten(b) \/ WatchLogWritten(b) \/ RebuildFails(b)
      PROVE  AwInv'
  BY <1>6, WritingInv
<1>7. CASE UNCHANGED awVars
  BY <1>7, CurrentOnDisk
  DEF awVars, awHistory, AwInv, AwTypeOK, OneRebuild, NoneIsForgotten, Accounted, UnderTest
<1> QED
  BY <1>1, <1>2, <1>3, <1>4, <1>5, <1>6, <1>7 DEF AwNext

\* However files change while tests run and results are written, and whatever
\* fails (watchFiles, rebuildForChanges, writeArtifacts): once nothing is due
\* or under way, what is on disk is of the files as they are, but for those that
\* no run was begun for since they changed, or whose last run gave no result.
THEOREM WatchSafety == AwSpec => []AwInv
<1>1. AwInit => AwInv
  BY AwInitInv
<1>2. AwInv /\ [AwNext]_awVars => AwInv'
  BY AwNextInv
<1> QED
  BY <1>1, <1>2, PTL DEF AwSpec

-----------------------------------------------------------------------------
\* Artifacts

LEMMA ArInitInv == ArInit => ArInv
  BY ArtifactsAssumption
  DEF ArInit, ArInv, ArTypeOK, ArtifactsMatch, HeldMatch, LoneWriterIsExact, Writing, Parts

ArPlaces == {"free", "reading", "sending", "sendingLog", "writing", "logging"}

\* What the move of one writer does to those that are under way.
LEMMA ArWriterMoves ==
  ASSUME ArTypeOK, NEW w \in Writers, NEW to \in ArPlaces, writer' = [writer EXCEPT ![w] = to]
  PROVE  /\ writer' \in [Writers -> ArPlaces]
         /\ \A v \in Writers : writer'[v] = IF v = w THEN to ELSE writer[v]
         /\ Writing' = IF to = "free" THEN Writing \ {w} ELSE Writing \cup {w}
  BY DEF ArTypeOK, Writing, ArPlaces

LEMMA ArNextInv == ArInv /\ [ArNext]_arVars => ArInv'
<1> SUFFICES ASSUME ArInv, [ArNext]_arVars PROVE ArInv'
  OBVIOUS
<1> USE ArtifactsAssumption DEF ArInv
<1>1. CASE UNCHANGED arVars
  BY <1>1 DEF arVars, ArTypeOK, ArtifactsMatch, HeldMatch, LoneWriterIsExact, Writing
<1>2. CASE BeginRun
  <2>1. Writing' = Writing
    BY <1>2 DEF BeginRun, Writing
  <2> QED
    BY <1>2, <2>1 DEF BeginRun, ArTypeOK, ArtifactsMatch, HeldMatch, LoneWriterIsExact
<1>3. ASSUME NEW w \in Writers, CompleteRun(w) PROVE ArInv'
  <2>1. /\ writer' \in [Writers -> ArPlaces]
        /\ \A v \in Writers : writer'[v] = IF v = w THEN "reading" ELSE writer[v]
        /\ Writing' = Writing \cup {w}
    BY <1>3, ArWriterMoves DEF CompleteRun, ArPlaces
  <2>2. ArTypeOK'
    BY <1>3, <2>1 DEF CompleteRun, ArTypeOK, ArPlaces, Parts
  <2>3. ArtifactsMatch'
    BY <1>3, <2>1 DEF CompleteRun, ArtifactsMatch
  <2>4. HeldMatch'
    BY <1>3, <2>1 DEF CompleteRun, HeldMatch
  <2>5. LoneWriterIsExact'
    BY <1>3, <2>1 DEF CompleteRun, LoneWriterIsExact
  <2> QED
    BY <2>2, <2>3, <2>4, <2>5
<1>4. ASSUME NEW w \in Writers, SourceRead(w) PROVE ArInv'
  <2> DEFINE to == IF HasB3nd THEN "sending" ELSE "writing"
  <2>1. /\ writer' \in [Writers -> ArPlaces]
        /\ \A v \in Writers : writer'[v] = IF v = w THEN to ELSE writer[v]
        /\ Writing' = Writing \cup {w}
        /\ w \in Writing
    BY <1>4, ArWriterMoves DEF SourceRead, ArPlaces, Writing
  <2>2. \A v \in Writers : held'[v] = IF v = w THEN held[w] \cup {"metadata"} ELSE held[v]
    BY <1>4 DEF SourceRead, ArTypeOK
  <2>3. ArTypeOK'
    BY <1>4, <2>1, <2>2 DEF SourceRead, ArTypeOK, ArPlaces, Parts
  <2>4. ArtifactsMatch'
    BY <1>4, <2>1 DEF SourceRead, ArtifactsMatch
  <2>5. HeldMatch'
    BY <1>4, <2>1, <2>2 DEF SourceRead, HeldMatch
  <2>6. LoneWriterIsExact'
    BY <1>4, <2>1, <2>2 DEF SourceRead, LoneWriterIsExact
  <2> QED
    BY <2>3, <2>4, <2>5, <2>6
<1>5. ASSUME NEW w \in Writers, NEW there \in BOOLEAN, NEW ok \in BOOLEAN, ResultsSent(w, there, ok)
      PROVE  ArInv'
  <2> DEFINE to == IF ok THEN "sendingLog" ELSE "writing"
  <2>1. /\ writer' \in [Writers -> ArPlaces]
        /\ \A v \in Writers : writer'[v] = IF v = w THEN to ELSE writer[v]
        /\ Writing' = Writing \cup {w}
        /\ w \in Writing
    BY <1>5, ArWriterMoves DEF ResultsSent, ArPlaces, Writing
  <2>2. /\ "log" \notin held[w] /\ held[w] \subseteq Parts
        /\ \A v \in Writers : held'[v] = IF v = w /\ ok THEN held[w] \cup LogNow ELSE held[v]
    BY <1>5 DEF ResultsSent, HeldMatch, ArTypeOK
  <2>3. ArTypeOK'
    BY <1>5, <2>1, <2>2 DEF ResultsSent, Replace, LogNow, ArTypeOK, ArPlaces, Parts
  <2>4. ArtifactsMatch'
    BY <1>5, <2>1 DEF ResultsSent, Replace, ArtifactsMatch, HeldMatch
  <2>5. HeldMatch'
    BY <1>5, <2>1, <2>2 DEF ResultsSent, LogNow, HeldMatch
  <2>6. LoneWriterIsExact'
    BY <1>5, <2>1, <2>2 DEF ResultsSent, Replace, LogNow, LoneWriterIsExact, HeldMatch
  <2> QED
    BY <2>3, <2>4, <2>5, <2>6
<1>6. ASSUME NEW w \in Writers, NEW there \in BOOLEAN, LogSent(w, there) PROVE ArInv'
  <2>1. /\ writer' \in [Writers -> ArPlaces]
        /\ \A v \in Writers : writer'[v] = IF v = w THEN "writing" ELSE writer[v]
        /\ Writing' = Writing \cup {w}
        /\ w \in Writing
    BY <1>6, ArWriterMoves DEF LogSent, ArPlaces, Writing
  <2>a. \A v \in Writers : held'[v] = IF v = w THEN held[w] \ {"log"} ELSE held[v]
    BY <1>6 DEF LogSent, ArTypeOK
  <2>2. ArTypeOK'
    BY <1>6, <2>1, <2>a DEF LogSent, Replace, ArTypeOK, ArPlaces, Parts
  <2>3. ArtifactsMatch'
    BY <1>6, <2>1 DEF LogSent, Replace, ArtifactsMatch
  <2>4. HeldMatch'
    BY <1>6, <2>1, <2>a DEF LogSent, HeldMatch
  <2>5. LoneWriterIsExact'
    <3> SUFFICES ASSUME ~disturbed PROVE LoneWriterIsExact'
      BY <1>6 DEF LogSent, LoneWriterIsExact
    <3>1. /\ Writing = {w} /\ ~running
          /\ {"results", "log"} \subseteq held[w] /\ {"results", "metadata"} \subseteq b3nd
      BY <1>6, <2>1 DEF LogSent, LoneWriterIsExact
    <3>2. ~failed' => b3nd' = Parts
      BY <1>6, <3>1 DEF LogSent, Replace, ArTypeOK, Parts
    <3> QED
      BY <1>6, <2>1, <2>a, <3>1, <3>2 DEF LogSent, LoneWriterIsExact
  <2> QED
    BY <2>2, <2>3, <2>4, <2>5
<1>7. ASSUME NEW w \in Writers, ResultsWritten(w) PROVE ArInv'
  <2>1. /\ writer' \in [Writers -> ArPlaces]
        /\ \A v \in Writers : writer'[v] = IF v = w THEN "logging" ELSE writer[v]
        /\ Writing' = Writing \cup {w}
        /\ w \in Writing
    BY <1>7, ArWriterMoves DEF ResultsWritten, ArPlaces, Writing
  <2>2. \A v \in Writers : held'[v] = IF v = w THEN LogNow ELSE held[v]
    BY <1>7 DEF ResultsWritten, ArTypeOK
  <2>3. ArTypeOK'
    BY <1>7, <2>1 DEF ResultsWritten, Replace, LogNow, ArTypeOK, ArPlaces, Parts
  <2>4. ArtifactsMatch'
    BY <1>7, <2>1 DEF ResultsWritten, Replace, ArtifactsMatch, HeldMatch
  <2>5. HeldMatch'
    BY <1>7, <2>1, <2>2 DEF ResultsWritten, LogNow, HeldMatch
  <2>6. LoneWriterIsExact'
    BY <1>7, <2>1, <2>2 DEF ResultsWritten, Replace, LogNow, LoneWriterIsExact, HeldMatch
  <2> QED
    BY <2>3, <2>4, <2>5, <2>6
<1>8. ASSUME NEW w \in Writers, LogWritten(w) PROVE ArInv'
  <2>1. /\ writer' \in [Writers -> ArPlaces]
        /\ \A v \in Writers : writer'[v] = IF v = w THEN "free" ELSE writer[v]
        /\ Writing' = Writing \ {w}
        /\ w \in Writing
    BY <1>8, ArWriterMoves DEF LogWritten, ArPlaces, Writing
  <2>a. /\ \A v \in Writers : held'[v] = IF v = w THEN {} ELSE held[v]
        /\ held[w] \subseteq {"log"}
    BY <1>8 DEF LogWritten, HeldMatch, ArTypeOK
  <2>2. ArTypeOK'
    BY <1>8, <2>1, <2>a DEF LogWritten, Replace, ArTypeOK, ArPlaces, Parts
  <2>3. ArtifactsMatch'
    <3>1. ("results" \in disk' => "metadata" \in disk') /\ ("results" \in b3nd' => "metadata" \in b3nd')
      BY <1>8, <2>a DEF LogWritten, Replace, ArtifactsMatch
    <3>2. ASSUME ~disturbed, ~failed PROVE disk' = Parts /\ (HasB3nd => b3nd' = Parts)
      <4>1. /\ "log" \in held[w] /\ {"results", "metadata"} \subseteq disk
            /\ HasB3nd => b3nd = Parts
        BY <1>8, <2>1, <3>2 DEF LogWritten, LoneWriterIsExact
      <4> QED
        BY <1>8, <2>a, <4>1 DEF LogWritten, Replace, ArTypeOK, Parts
    <3> QED
      BY <1>8, <3>1, <3>2 DEF LogWritten, ArtifactsMatch
  <2>4. HeldMatch'
    BY <1>8, <2>1, <2>a DEF LogWritten, HeldMatch
  <2>5. LoneWriterIsExact'
    BY <1>8, <2>1, <2>a DEF LogWritten, LoneWriterIsExact
  <2> QED
    BY <2>2, <2>3, <2>4, <2>5
<1>9. ASSUME NEW w \in Writers, WriteRejects(w) PROVE ArInv'
  <2>1. /\ writer' \in [Writers -> ArPlaces]
        /\ \A v \in Writers : writer'[v] = IF v = w THEN "free" ELSE writer[v]
        /\ Writing' = Writing \ {w}
        /\ w \in Writing
    BY <1>9, ArWriterMoves DEF WriteRejects, ArPlaces, Writing
  <2>2. \A v \in Writers : held'[v] = IF v = w THEN {} ELSE held[v]
    BY <1>9 DEF WriteRejects, ArTypeOK
  <2>3. ArTypeOK'
    BY <1>9, <2>1 DEF WriteRejects, ArTypeOK, ArPlaces
  <2>4. ArtifactsMatch'
    BY <1>9, <2>1 DEF WriteRejects, ArtifactsMatch
  <2>5. HeldMatch'
    BY <1>9, <2>1, <2>2 DEF WriteRejects, HeldMatch
  <2>6. LoneWriterIsExact'
    BY <1>9, <2>1, <2>2 DEF WriteRejects, LoneWriterIsExact
  <2> QED
    BY <2>3, <2>4, <2>5, <2>6
<1> QED
  BY <1>1, <1>2, <1>3, <1>4, <1>5, <1>6, <1>7, <1>8, <1>9 DEF ArNext

\* Whatever writes overlap, fail or meet the next run (completeRun,
\* buildArtifact, writeStaticArtifacts), results are never beside the metadata
\* of an older run, and a write that was alone leaves all parts of its run.
THEOREM ArtifactSafety == ArSpec => []ArInv
<1>1. ArInit => ArInv
  BY ArInitInv
<1>2. ArInv /\ [ArNext]_arVars => ArInv'
  BY ArNextInv
<1> QED
  BY <1>1, <1>2, PTL DEF ArSpec
-----------------------------------------------------------------------------
\* The reports.

\* A set of natural numbers that is not empty has a least one.
LEMMA LeastExists ==
  ASSUME NEW S \in SUBSET Nat, S # {}
  PROVE  \E i \in S : \A j \in S : i <= j
<1> DEFINE R == OpToRel(<, Nat)
<1>1. R = {ss \in Nat \X Nat : ss[1] < ss[2]}
  BY DEF OpToRel
<1>2. IsWellFoundedOn(R, Nat)
  BY NatLessThanWellFounded
<1> HIDE DEF R
<1>3. PICK i \in S : \A j \in S : ~(<<j, i>> \in R)
  BY <1>2, WFMin
<1>4. ASSUME NEW j \in S PROVE i <= j
  <2>1. i \in Nat /\ j \in Nat /\ <<j, i>> \notin R
    BY <1>3
  <2>2. ~(j < i)
    BY <1>1, <2>1
  <2> QED
    BY <2>1, <2>2
<1> QED
  BY <1>4

LEMMA SeqParts ==
  ASSUME NEW S, NEW s \in Seq(S)
  PROVE  DOMAIN s = 1 .. Len(s) /\ Len(s) \in Nat /\ \A i \in DOMAIN s : s[i] \in S
OBVIOUS

\* Two sets have as many elements when one maps to the other one to one.
LEMMA SameCount ==
  ASSUME NEW S, NEW T, IsFiniteSet(S), NEW f \in [S -> T],
         \A x, y \in S : f[x] = f[y] => x = y,
         \A t \in T : \E x \in S : f[x] = t
  PROVE  Cardinality(S) = Cardinality(T)
<1>1. f \in Bijection(S, T)
  BY DEF Bijection, Injection, Surjection, IsInjective
<1> QED
  BY <1>1, FS_Bijection DEF ExistsBijection

\* The parts of a finite set that is split in two add up.
LEMMA SplitCount ==
  ASSUME NEW S, NEW T, NEW U, S = T \cup U, T \cap U = {}, IsFiniteSet(S)
  PROVE  Cardinality(S) = Cardinality(T) + Cardinality(U)
<1>1. T \in SUBSET S /\ U \in SUBSET S
  OBVIOUS
<1>2. IsFiniteSet(T) /\ IsFiniteSet(U)
  BY <1>1, FS_Subset
<1>3. Cardinality(T) \in Nat /\ Cardinality(U) \in Nat
  BY <1>2, FS_CardinalityType
<1>4. Cardinality(S) = Cardinality(T) + Cardinality(U) - Cardinality({})
  BY <1>2, FS_Union
<1> QED
  BY <1>3, <1>4, FS_EmptySet

LEMMA RpInitInv == RpInit => RpTypeOK /\ KnowsTheLast
BY TestReportAssumption DEF RpInit, RpTypeOK, KnowsTheLast, Reported

\* A result line adds the result that both readings hold for the last one.
LEMMA ResultLineKnows ==
  ASSUME RpTypeOK, KnowsTheLast, NEW t \in Tests, NEW s \in TestStatuses, ResultLine(t, s)
  PROVE  RpTypeOK' /\ KnowsTheLast'
<1> DEFINE n == Len(allResults)
<1>1. /\ allResults' = Append(allResults, [test |-> t, status |-> s])
      /\ tests' = [tests EXCEPT ![t] = s] /\ UNCHANGED <<earlier, current>>
      /\ n < MaxResults
  BY DEF ResultLine, UpdateResult, ListResult
<1>2. n \in Nat /\ MaxResults \in Nat /\ DOMAIN allResults = 1 .. n
  BY TestReportAssumption DEF RpTypeOK
<1>3. /\ DOMAIN allResults' = 1 .. n + 1
      /\ allResults'[n + 1] = [test |-> t, status |-> s]
      /\ \A i \in 1 .. n : allResults'[i] = allResults[i]
      /\ allResults' \in Seq([test : Tests, status : TestStatuses])
      /\ Len(allResults') = n + 1
  BY <1>1, <1>2 DEF RpTypeOK
<1>4. RpTypeOK'
  BY <1>1, <1>2, <1>3 DEF RpTypeOK
<1>5. ASSUME NEW u \in Tests
      PROVE  \/ u \notin Reported' /\ tests'[u] = earlier'[u]
             \/ \E i \in DOMAIN allResults' :
                  /\ allResults'[i] = [test |-> u, status |-> tests'[u]]
                  /\ \A j \in DOMAIN allResults' : allResults'[j].test = u => j <= i
  <2> HIDE DEF n
  <2>1. CASE u = t
    <3>1. allResults'[n + 1] = [test |-> u, status |-> tests'[u]]
      BY <1>1, <1>3, <2>1 DEF RpTypeOK
    <3> QED
      BY <1>2, <1>3, <3>1
  <2>2. CASE u # t
    <3>1. tests'[u] = tests[u] /\ earlier'[u] = earlier[u] /\ allResults'[n + 1].test # u
      BY <1>1, <1>3, <2>2 DEF RpTypeOK
    <3>2. CASE u \notin Reported /\ tests[u] = earlier[u]
      BY <1>2, <1>3, <3>1, <3>2 DEF Reported
    <3>3. ASSUME NEW i \in DOMAIN allResults,
                 allResults[i] = [test |-> u, status |-> tests[u]],
                 \A j \in DOMAIN allResults : allResults[j].test = u => j <= i
          PROVE  /\ i \in DOMAIN allResults'
                 /\ allResults'[i] = [test |-> u, status |-> tests'[u]]
                 /\ \A j \in DOMAIN allResults' : allResults'[j].test = u => j <= i
      <4>1. ASSUME NEW j \in 1 .. n + 1, allResults'[j].test = u
            PROVE  j <= i
        <5>1. j # n + 1
          BY <3>1, <4>1
        <5> QED
          BY <1>2, <1>3, <3>3, <4>1, <5>1
      <4> QED
        BY <1>2, <1>3, <3>1, <3>3, <4>1
    <3> QED
      BY <3>2, <3>3 DEF KnowsTheLast
  <2> QED
    BY <2>1, <2>2
<1> QED
  BY <1>4, <1>5 DEF KnowsTheLast

LEMMA RpNextKnows == RpTypeOK /\ KnowsTheLast /\ [RpNext]_rpVars => RpTypeOK' /\ KnowsTheLast'
<1> SUFFICES ASSUME RpTypeOK, KnowsTheLast, [RpNext]_rpVars
             PROVE  RpTypeOK' /\ KnowsTheLast'
  OBVIOUS
<1>1. ASSUME NEW f \in ReportFiles, HeaderLine(f)
      PROVE  RpTypeOK' /\ KnowsTheLast'
  BY <1>1 DEF HeaderLine, RpTypeOK, KnowsTheLast, Reported
<1>2. ASSUME NEW t \in Tests, NEW s \in TestStatuses, ResultLine(t, s)
      PROVE  RpTypeOK' /\ KnowsTheLast'
  BY <1>2, ResultLineKnows
<1>3. CASE UNCHANGED rpVars
  BY <1>3 DEF rpVars, RpTypeOK, KnowsTheLast, Reported
<1> QED
  BY <1>1, <1>2, <1>3 DEF RpNext

\* When no name comes twice, the results of any one kind are as many as the
\* tests that have them by now.
LEMMA CountsAgree ==
  ASSUME RpTypeOK, KnowsTheLast, Twice = {}, NEW P \in SUBSET TestStatuses
  PROVE  /\ Cardinality({i \in DOMAIN allResults : allResults[i].status \in P}) =
            Cardinality({t \in Reported : tests[t] \in P})
         /\ IsFiniteSet(Reported) /\ Reported \subseteq Tests
<1> DEFINE I == {i \in DOMAIN allResults : allResults[i].status \in P}
           T == {t \in Reported : tests[t] \in P}
           test == [i \in I |-> allResults[i].test]
<1>1. /\ DOMAIN allResults = 1 .. Len(allResults) /\ Len(allResults) \in Nat
      /\ \A i \in DOMAIN allResults : /\ allResults[i].test \in Tests
                                      /\ allResults[i].status \in TestStatuses
  <2>1. allResults \in Seq([test : Tests, status : TestStatuses])
    BY DEF RpTypeOK
  <2>2. /\ DOMAIN allResults = 1 .. Len(allResults) /\ Len(allResults) \in Nat
        /\ \A i \in DOMAIN allResults : allResults[i] \in [test : Tests, status : TestStatuses]
    BY <2>1, SeqParts
  <2> QED
    BY <2>2
<1>2. Reported \in SUBSET Tests
  BY <1>1 DEF Reported
<1>3. IsFiniteSet(DOMAIN allResults)
  BY <1>1, FS_Interval
<1>4. I \in SUBSET DOMAIN allResults
  OBVIOUS
<1>5. IsFiniteSet(I)
  BY <1>3, <1>4, FS_Subset
<1>6. \A i, j \in DOMAIN allResults : allResults[i].test = allResults[j].test => i = j
  BY <1>1 DEF Twice
<1>7. \A i \in DOMAIN allResults : tests[allResults[i].test] = allResults[i].status
  <2> TAKE i \in DOMAIN allResults
  <2>1. allResults[i].test \in Tests /\ allResults[i].test \in Reported
    BY <1>1 DEF Reported
  <2>2. PICK k \in DOMAIN allResults :
          allResults[k] = [test |-> allResults[i].test, status |-> tests[allResults[i].test]]
    BY <2>1 DEF KnowsTheLast
  <2>3. k = i
    BY <1>6, <2>2
  <2> QED
    BY <2>2, <2>3
<1>8. test \in [I -> T]
  BY <1>7 DEF Reported
<1>9. \A x, y \in I : test[x] = test[y] => x = y
  BY <1>6
<1>10. \A t \in T : \E x \in I : test[x] = t
  BY <1>7 DEF Reported
<1>11. Cardinality(I) = Cardinality(T)
  <2> HIDE DEF I, T, test
  <2> QED
    BY <1>5, <1>8, <1>9, <1>10, SameCount
<1> QED
  BY <1>2, <1>11, FS_Subset, TestReportAssumption
\* The server counts, of one kind of results, what the build lists and what was
\* known before of the tests that this output does not report.
LEMMA KindsAgree ==
  ASSUME RpTypeOK, KnowsTheLast, Twice = {}, NEW P \in SUBSET TestStatuses
  PROVE  Cardinality({t \in Tests : tests[t] \in P}) =
           Cardinality({i \in DOMAIN allResults : allResults[i].status \in P})
             + Cardinality({t \in Tests \ Reported : earlier[t] \in P})
<1> DEFINE All == {t \in Tests : tests[t] \in P}
           Now == {t \in Reported : tests[t] \in P}
           Old == {t \in Tests \ Reported : earlier[t] \in P}
<1>1. /\ Cardinality({i \in DOMAIN allResults : allResults[i].status \in P}) = Cardinality(Now)
      /\ Reported \subseteq Tests
  BY CountsAgree
<1>2. \A t \in Tests \ Reported : tests[t] = earlier[t]
  <2> SUFFICES ASSUME NEW t \in Tests \ Reported, tests[t] # earlier[t]
               PROVE  FALSE
    OBVIOUS
  <2>1. PICK i \in DOMAIN allResults : allResults[i] = [test |-> t, status |-> tests[t]]
    BY DEF KnowsTheLast
  <2> QED
    BY <2>1 DEF Reported
<1>3. All = Now \cup Old /\ Now \cap Old = {}
  BY <1>1, <1>2
<1>4. All \in SUBSET Tests
  OBVIOUS
<1>5. IsFiniteSet(All)
  BY <1>4, FS_Subset, TestReportAssumption
<1> HIDE DEF All, Now, Old
<1>6. Cardinality(All) = Cardinality(Now) + Cardinality(Old)
  BY <1>3, <1>5, SplitCount
<1> QED
  BY <1>1, <1>6 DEF All, Now, Old

\* The counts of the summaries, one kind of results at a time and in all.
LEMMA SummariesAgree ==
  ASSUME RpTypeOK, KnowsTheLast, Twice = {}
  PROVE  /\ \A s \in TestStatuses : StateCount(s) = BuildCount(s) + NotReported(s)
         /\ StateTotal = BuildTotal + Cardinality(NoTests)
              + Cardinality({t \in Tests \ Reported : earlier[t] # "none"})
<1>1. ASSUME NEW s \in TestStatuses
      PROVE  StateCount(s) = BuildCount(s) + NotReported(s)
  <2>1. {s} \in SUBSET TestStatuses
    OBVIOUS
  <2>2. /\ {t \in Tests : tests[t] \in {s}} = {t \in Tests : tests[t] = s}
        /\ {i \in DOMAIN allResults : allResults[i].status \in {s}} =
           {i \in DOMAIN allResults : allResults[i].status = s}
        /\ {t \in Tests \ Reported : earlier[t] \in {s}} = {t \in Tests \ Reported : earlier[t] = s}
    OBVIOUS
  <2> QED
    BY <2>1, <2>2, KindsAgree DEF StateCount, BuildCount, NotReported
<1> DEFINE Old == {t \in Tests \ Reported : earlier[t] # "none"}
<1>2. /\ DOMAIN allResults = 1 .. Len(allResults) /\ Len(allResults) \in Nat
      /\ \A i \in DOMAIN allResults : allResults[i] \in [test : Tests, status : TestStatuses]
  BY SeqParts DEF RpTypeOK
<1>3. {i \in DOMAIN allResults : allResults[i].status \in TestStatuses} = 1 .. Len(allResults)
  BY <1>2
<1>4. /\ {t \in Tests : tests[t] \in TestStatuses} = {t \in Tests : tests[t] # "none"}
      /\ {t \in Tests \ Reported : earlier[t] \in TestStatuses} = Old
  BY DEF RpTypeOK, TestStatuses
<1>5. Cardinality({t \in Tests : tests[t] # "none"}) = Cardinality(1 .. Len(allResults)) + Cardinality(Old)
  BY <1>3, <1>4, KindsAgree
<1>6. Cardinality(1 .. Len(allResults)) = Len(allResults)
  <2>1. 1 \in Int /\ Len(allResults) \in Int
    BY <1>2
  <2> HIDE DEF Old
  <2>2. Cardinality(1 .. Len(allResults)) =
          IF 1 > Len(allResults) THEN 0 ELSE Len(allResults) - 1 + 1
    BY <2>1, FS_Interval
  <2> QED
    BY <1>2, <2>2
<1>7. Cardinality(NoTests) \in Nat /\ Cardinality(Old) \in Nat
  <2>1. NoTests \in SUBSET ReportFiles /\ Old \in SUBSET Tests
    BY DEF NoTests
  <2>2. IsFiniteSet(NoTests) /\ IsFiniteSet(Old)
    BY <2>1, FS_Subset, TestReportAssumption
  <2> QED
    BY <2>2, FS_CardinalityType
<1>8. StateTotal = BuildTotal + Cardinality(NoTests) + Cardinality(Old)
  <2> HIDE DEF Old
  <2> QED
    BY <1>2, <1>5, <1>6, <1>7 DEF StateTotal, BuildTotal
<1> QED
  BY <1>1, <1>8

\* The status that the build gives to a file is that of one of its results, and
\* is that of a failed one if there is any.
LEMMA BuildFileIs ==
  ASSUME RpTypeOK, NEW f \in ReportFiles, OfFile(f) # {}
  PROVE  BuildFile(f) = "failed" <=> \E i \in OfFile(f) : allResults[i].status = "failed"
<1> DEFINE first == CHOOSE i \in OfFile(f) : \A j \in OfFile(f) : i <= j
<1>1. OfFile(f) \in SUBSET Nat
  <2>1. DOMAIN allResults = 1 .. Len(allResults) /\ Len(allResults) \in Nat
    BY SeqParts DEF RpTypeOK
  <2> QED
    BY <2>1 DEF OfFile
<1>2. \E i \in OfFile(f) : \A j \in OfFile(f) : i <= j
  BY <1>1, LeastExists
<1>3. first \in OfFile(f)
  <2> HIDE DEF OfFile
  <2> QED
    BY <1>2, Zenon
<1>4. BuildFile(f) = IF \E i \in OfFile(f) : allResults[i].status = "failed" THEN "failed"
                     ELSE allResults[first].status
  BY DEF BuildFile
<1> HIDE DEF first
<1> QED
  BY <1>3, <1>4

\* The table of files: what one reading calls failed, so does the other, or the
\* one of the two exceptions is there.
LEMMA FilesAgree ==
  ASSUME RpTypeOK, KnowsTheLast, NEW f \in ReportFiles, OfFile(f) # {}
  PROVE  /\ StateFile(f) = "failed" => \/ BuildFile(f) = "failed"
                                       \/ \E t \in Tests \ Reported : t[1] = f /\ earlier[t] = "failed"
         /\ BuildFile(f) = "failed" => \/ StateFile(f) = "failed"
                                       \/ \E t \in Twice : t[1] = f
<1>1. \A i \in DOMAIN allResults : allResults[i].test \in Tests
  <2>1. \A i \in DOMAIN allResults : allResults[i] \in [test : Tests, status : TestStatuses]
    BY SeqParts DEF RpTypeOK
  <2> QED
    BY <2>1
<1>2. ASSUME StateFile(f) = "failed"
      PROVE  BuildFile(f) = "failed" \/ \E t \in Tests \ Reported : t[1] = f /\ earlier[t] = "failed"
  <2>1. PICK t \in Tests : t[1] = f /\ tests[t] = "failed"
    BY <1>2 DEF StateFile
  <2>2. CASE t \notin Reported /\ tests[t] = earlier[t]
    BY <2>1, <2>2
  <2>3. ASSUME NEW i \in DOMAIN allResults, allResults[i] = [test |-> t, status |-> tests[t]]
        PROVE  BuildFile(f) = "failed"
    <3>1. i \in OfFile(f) /\ allResults[i].status = "failed"
      BY <2>1, <2>3 DEF OfFile
    <3> QED
      BY <3>1, BuildFileIs
  <2> QED
    BY <2>2, <2>3 DEF KnowsTheLast
<1>3. ASSUME BuildFile(f) = "failed", ~ \E t \in Twice : t[1] = f
      PROVE  StateFile(f) = "failed"
  <2>1. PICK i \in OfFile(f) : allResults[i].status = "failed"
    BY <1>3, BuildFileIs
  <2> DEFINE t == allResults[i].test
  <2>2. i \in DOMAIN allResults /\ t \in Tests /\ t[1] = f /\ t \in Reported /\ t \notin Twice
    BY <1>1, <1>3, <2>1 DEF OfFile, Reported
  <2>3. PICK k \in DOMAIN allResults : allResults[k] = [test |-> t, status |-> tests[t]]
    BY <2>2 DEF KnowsTheLast
  <2>4. k = i
    BY <2>2, <2>3 DEF Twice
  <2>5. tests[t] = "failed"
    BY <2>1, <2>3, <2>4
  <2> QED
    BY <2>2, <2>5 DEF StateFile
<1> QED
  BY <1>2, <1>3

\* The two readings of one output of `deno test`, test-state.ts line by line and
\* build-artifacts.ts in the end, give summaries and file tables that differ only
\* by what the server remembers of tests that were not reported and, where one
\* name comes twice in a file, by results it has forgotten.
THEOREM ReportSafety == RpSpec => []RpInv
<1>1. RpInit => RpTypeOK /\ KnowsTheLast
  BY RpInitInv
<1>2. RpTypeOK /\ KnowsTheLast /\ [RpNext]_rpVars => RpTypeOK' /\ KnowsTheLast'
  BY RpNextKnows
<1>3. RpTypeOK /\ KnowsTheLast => RpInv
  BY SummariesAgree, FilesAgree DEF RpInv, BuildAgreesWithState
<1> QED
  BY <1>1, <1>2, <1>3, PTL DEF RpSpec
=============================================================================
