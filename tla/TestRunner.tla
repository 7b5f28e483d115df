----------------------------- MODULE TestRunner -----------------------------
(***************************************************************************)
(* TestRunner (apps/sdk-inspector/services/test-runner.ts) with the        *)
(* requests that reach it (routes/tests.ts): tests run on demand, each run *)
(* as one `deno test` process.                                             *)
(*                                                                         *)
(* A run stops the process it finds in currentProcess and waits for it to  *)
(* be dead, but not for the run it belongs to; and a run that is still     *)
(* discovering files has no process to stop.  When its output has ended, a *)
(* run awaits the process that is in currentProcess by then, and in the    *)
(* end clears both fields, whoever's they are.                             *)
(*                                                                         *)
(* What the output says goes into a summary that nothing reads.            *)
(***************************************************************************)
CONSTANTS
  TestRuns,      \* runs, by their runId
  CancelCalls,   \* POST /tests/cancel requests
  NoRun          \* null

ASSUME TestRunnerAssumption ==
  /\ TestRuns \cap CancelCalls = {}
  /\ NoRun \notin TestRuns

VARIABLES
  currentProcess,  \* the run whose process it is, or NoRun
  currentRunId,
  proc,            \* the process of each run
  runPc,           \* where each run, and each cancel request, is
  waits,           \* the run whose process each of them awaits
  overlapped       \* history: has a run begun beside another call?

trVars == <<currentProcess, currentRunId, proc, runPc, waits, overlapped>>

TrCalls == TestRuns \cup CancelCalls
TrUnderWay == {c \in TrCalls : runPc[c] \notin {"new", "over"}}

TrInit ==
  /\ currentProcess = NoRun
  /\ currentRunId = NoRun
  /\ proc = [r \in TestRuns |-> "none"]
  /\ runPc = [c \in TrCalls |-> "new"]
  /\ waits = [c \in TrCalls |-> NoRun]
  /\ overlapped = FALSE

TrMove(c, pc) == runPc' = [runPc EXCEPT ![c] = pc]

Cleared == currentProcess' = NoRun /\ currentRunId' = NoRun

-----------------------------------------------------------------------------
\* cancel(): SIGTERM to the current process, whose end is then awaited.
Kill(c) ==
  /\ proc' = [proc EXCEPT ![currentProcess] = IF @ = "dead" THEN @ ELSE "dying"]
  /\ waits' = [waits EXCEPT ![c] = currentProcess]

\* run() when there is a process: cancel() comes first.
RunAsked(r) ==
  /\ runPc[r] = "new"
  /\ currentProcess # NoRun
  /\ TrMove(r, "cancelling")
  /\ Kill(r)
  /\ UNCHANGED <<currentProcess, currentRunId, overlapped>>

\* POST /tests/cancel.
CancelAsked(c) ==
  /\ runPc[c] = "new"
  /\ currentProcess # NoRun
  /\ TrMove(c, "cancelling")
  /\ Kill(c)
  /\ UNCHANGED <<currentProcess, currentRunId, overlapped>>

\* ... which is refused when no process is known.
CancelRefused ==
  /\ CancelCalls # {}
  /\ currentProcess = NoRun
  /\ UNCHANGED trVars

\* Mutant of CancelEnds: cancel() does not await the end of the process.
CancelAtOnce(c) ==
  /\ runPc[c] = "cancelling"
  /\ Cleared
  /\ TrMove(c, IF c \in TestRuns THEN "cancelled" ELSE "over")
  /\ UNCHANGED <<proc, waits, overlapped>>

\* The process awaited by cancel() is dead.
CancelEnds(c) ==
  /\ runPc[c] = "cancelling"
  /\ proc[waits[c]] = "dead"
  /\ Cleared
  /\ TrMove(c, IF c \in TestRuns THEN "cancelled" ELSE "over")
  /\ UNCHANGED <<proc, waits, overlapped>>

\* run() goes on when cancel() has returned, or at once when there is no process
\* to cancel, without another look at it.
Beginning(r) ==
  /\ runPc[r] = "cancelled" \/ (runPc[r] = "new" /\ currentProcess = NoRun)
  /\ overlapped' = (overlapped \/ TrUnderWay \ {r} # {})

\* With a filter for backends or themes it discovers the files first, without
\* one or with a file it launches the tests.
Discover(r) ==
  /\ Beginning(r)
  /\ currentRunId' = r
  /\ TrMove(r, "discovering")
  /\ UNCHANGED <<currentProcess, proc, waits>>

\* The process is spawned and its two streams are read, ...
Spawn(r) ==
  /\ currentProcess' = r
  /\ proc' = [proc EXCEPT ![r] = "alive"]
  /\ TrMove(r, "reading")
  /\ UNCHANGED waits

\* ... or it cannot be, which ends the run.
SpawnFails(r) ==
  /\ Cleared
  /\ TrMove(r, "over")
  /\ UNCHANGED <<proc, waits>>

LaunchNow(r) ==
  /\ Beginning(r)
  /\ \/ Spawn(r) /\ currentRunId' = r
     \/ SpawnFails(r)

LaunchDiscovered(r) ==
  /\ runPc[r] = "discovering"
  /\ \/ Spawn(r) /\ UNCHANGED currentRunId
     \/ SpawnFails(r)
  /\ UNCHANGED overlapped

\* No file matches the filter: the run ends and its runId stays.
NoFileMatches(r) ==
  /\ runPc[r] = "discovering"
  /\ TrMove(r, "over")
  /\ UNCHANGED <<currentProcess, currentRunId, proc, waits, overlapped>>

\* The tests end, or the SIGTERM ends them.
ProcessDies(r) ==
  /\ proc[r] \in {"alive", "dying"}
  /\ proc' = [proc EXCEPT ![r] = "dead"]
  /\ UNCHANGED <<currentProcess, currentRunId, runPc, waits, overlapped>>

\* Both streams have ended: the run awaits the status of the current process,
\* or throws for want of one and is over.
StreamsEnd(r) ==
  /\ runPc[r] = "reading"
  /\ proc[r] = "dead"
  /\ IF currentProcess = NoRun
     THEN TrMove(r, "over") /\ Cleared /\ UNCHANGED waits
     ELSE /\ TrMove(r, "waiting")
          /\ waits' = [waits EXCEPT ![r] = currentProcess]
          /\ UNCHANGED <<currentProcess, currentRunId>>
  /\ UNCHANGED <<proc, overlapped>>

\* A stream cannot be read any longer, which leaves the process to itself.
ReadFails(r) ==
  /\ runPc[r] = "reading"
  /\ TrMove(r, "over")
  /\ Cleared
  /\ UNCHANGED <<proc, waits, overlapped>>

\* The status is known: finally clears both fields.
StatusKnown(r) ==
  /\ runPc[r] = "waiting"
  /\ proc[waits[r]] = "dead"
  /\ TrMove(r, "over")
  /\ Cleared
  /\ UNCHANGED <<proc, waits, overlapped>>

TrNext ==
  \/ \E r \in TestRuns :
       \/ RunAsked(r) \/ Discover(r) \/ LaunchNow(r) \/ LaunchDiscovered(r)
       \/ NoFileMatches(r) \/ ProcessDies(r) \/ StreamsEnd(r) \/ ReadFails(r)
       \/ StatusKnown(r)
  \/ \E c \in CancelCalls : CancelAsked(c)
  \/ \E c \in TrCalls : CancelEnds(c)
  \/ CancelRefused

TrSpec == TrInit /\ [][TrNext]_trVars

-----------------------------------------------------------------------------
\* The variables have the types of what they model.
TrTypeOK ==
  /\ currentProcess \in TestRuns \cup {NoRun}
  /\ currentRunId \in TestRuns \cup {NoRun}
  /\ proc \in [TestRuns -> {"none", "alive", "dying", "dead"}]
  /\ runPc \in [TrCalls -> {"new", "cancelling", "cancelled", "discovering",
                            "reading", "waiting", "over"}]
  /\ waits \in [TrCalls -> TestRuns \cup {NoRun}]
  /\ overlapped \in BOOLEAN

\* isRunning() is true only for a run that is under way: that of the current
\* process, whose end has not been taken note of.
RunningIsUnderWay ==
  currentProcess # NoRun => runPc[currentProcess] \in {"reading", "waiting"}

\* As long as no run has begun beside another call, cancel and status are about
\* the run under way: its process, while it lives, is the one cancel() would
\* stop, under the runId the status shows.
RunIdIsTrue ==
  ~overlapped =>
    \A r \in TestRuns :
      runPc[r] \in {"reading", "waiting"} /\ proc[r] # "dead" =>
        currentProcess = r /\ currentRunId = r

\* Who awaits a process awaits one there is, and a run has one from then on.
AwaitedIsThere ==
  /\ \A c \in TrCalls : runPc[c] \in {"cancelling", "waiting"} =>
       waits[c] \in TestRuns /\ proc[waits[c]] # "none"
  /\ \A r \in TestRuns :
       /\ runPc[r] \in {"reading", "waiting"} => proc[r] # "none"
       /\ runPc[r] = "waiting" => proc[r] = "dead"
       /\ runPc[r] \in {"new", "cancelling", "cancelled", "discovering"} => proc[r] = "none"

\* What makes it so: without overlap at most one run is past its beginning, the
\* one under way, and a call that awaits the end of a process awaits its.
NoneBeside ==
  ~overlapped =>
    \A r \in TestRuns :
      runPc[r] \in {"discovering", "reading", "waiting"} =>
        /\ \A q \in TestRuns \ {r} : runPc[q] \notin {"discovering", "reading", "waiting"}
        /\ runPc[r] = "discovering" => currentRunId = r
        /\ \A c \in TrCalls : runPc[c] = "cancelling" => waits[c] = r
        /\ currentProcess \in {r, NoRun}

TrIInv ==
  /\ TrTypeOK
  /\ RunningIsUnderWay
  /\ RunIdIsTrue
  /\ AwaitedIsThere
  /\ NoneBeside
=============================================================================
