------------------------------ MODULE TestState ------------------------------
(***************************************************************************)
(* TestState (apps/sdk-inspector/services/test-state.ts): what the         *)
(* inspector knows of the test files and of the run under way.             *)
(*                                                                         *)
(* The methods are synchronous and are called by the test runner, several  *)
(* in one step: they are operators here, of which ContinuousRunner builds  *)
(* its actions.  A file has one test.  The log and the artifacts that a    *)
(* completed run writes are left out.                                      *)
(***************************************************************************)
EXTENDS Naturals

CONSTANTS
  Files,       \* the test files
  Discovered   \* those that are there when the inspector looks for them

ASSUME FilesAssumption == Discovered \subseteq Files

VARIABLES
  status,        \* the status of each file, "unknown" when it is not in the map
  result,        \* the last result of its test, "none" before the first one
  runningFiles,  \* the files marked as running: isRunning() if there are any
  currentRun,    \* the run whose metadata is current, 0 for null
  lastRun        \* lastCompletedRun, 0 for null

testState == <<status, result, runningFiles, currentRun, lastRun>>

\* An ignored test counts as one that passed.
Outcomes == {"passed", "failed"}

StateOK ==
  /\ status \in [Files -> {"unknown", "pending", "running", "passed", "failed"}]
  /\ result \in [Files -> Outcomes \cup {"none"}]
  /\ runningFiles \subseteq Files
  /\ currentRun \in Nat
  /\ lastRun \in Nat

InitState ==
  /\ status = [f \in Files |-> "unknown"]
  /\ result = [f \in Files |-> "none"]
  /\ runningFiles = {}
  /\ currentRun = 0
  /\ lastRun = 0

Known(f) == status[f] # "unknown"

-----------------------------------------------------------------------------
\* initializeFiles: the discovered files anew.
InitializeFiles ==
  /\ status' = [f \in Files |-> IF f \in Discovered THEN "pending" ELSE status[f]]
  /\ result' = [f \in Files |-> IF f \in Discovered THEN "none" ELSE result[f]]
  /\ UNCHANGED runningFiles

\* The status of a file whose run is complete.
FileStatus(f) == IF result[f] = "failed" THEN "failed" ELSE "passed"

\* completeFileRun of the files done, then markFileRunning of those begun.
\* Files that are not in the map are passed over.
UpdateFiles(done, begun) ==
  /\ status' = [f \in Files |->
       IF ~Known(f) THEN status[f]
       ELSE IF f \in begun THEN "running"
       ELSE IF f \in done THEN FileStatus(f) ELSE status[f]]
  /\ runningFiles' =
       (runningFiles \ {f \in done : Known(f)}) \cup {f \in begun : Known(f)}
  /\ UNCHANGED result

\* updateTestResult: a file that is not in the map is put there as running,
\* but not marked.
UpdateTestResult(f, outcome) ==
  /\ result' = [result EXCEPT ![f] = outcome]
  /\ status' = IF Known(f) THEN status ELSE [status EXCEPT ![f] = "running"]
  /\ UNCHANGED runningFiles

\* startRun: the metadata of a run under way is overwritten.
StartRun(n) == currentRun' = n /\ UNCHANGED lastRun

\* Mutant of CompleteRun: the metadata stays current.
CompleteRunKeeps == lastRun' = currentRun /\ UNCHANGED currentRun

\* completeRun: whatever run is current is completed.
CompleteRun ==
  /\ currentRun' = 0
  /\ lastRun' = IF currentRun # 0 THEN currentRun ELSE lastRun
=============================================================================
