-------------------------- MODULE ContinuousRunner --------------------------
(***************************************************************************)
(* ContinuousTestRunner (apps/sdk-inspector/services/continuous-runner.ts) *)
(* with the requests that reach it (routes/state.ts): runs the tests at    *)
(* start, when files change and when asked to, each run as one or two      *)
(* `deno test` commands, first the SDK tests and then the end-to-end ones. *)
(*                                                                         *)
(* A run stops the command it finds in currentProcess, but the run that    *)
(* command belongs to is not over: it resumes when its command has died,   *)
(* clears currentProcess, whoever's it is, and goes on with its second     *)
(* command.  A command that times out is given up while its output is      *)
(* still read.  So commands of several runs overlap.                       *)
(***************************************************************************)
EXTENDS TestState, FiniteSets

CONSTANTS
  E2e,        \* the files under tests/, run by a command of their own
  FullRun,    \* the discovered files that a run of all does not leave out
  Changes,    \* the sets of test files that a file change may ask for
  NoCmd,      \* null, in currentProcess
  MaxRuns,    \* bound: runs
  MaxFaults   \* bound: commands whose output cannot be read

\* A command is named by its run and the group of files it runs.
Cmds == (1 .. MaxRuns) \X {"sdk", "e2e"}

ASSUME RunnerAssumption ==
  /\ E2e \subseteq Files
  /\ FullRun \subseteq Discovered
  /\ FullRun # {}
  /\ Changes \subseteq (SUBSET Files) \ {{}}
  /\ NoCmd \notin Cmds
  /\ MaxRuns \in Nat
  /\ MaxFaults \in Nat

VARIABLES
  started,         \* has start() discovered the test files?
  cmd,             \* the commands, those that are not in flight being Free
  currentProcess,  \* the command stop() would stop
  runs,            \* runs so far
  faults,          \* output reads that failed so far
  overlapped,      \* history: has a run begun while another was under way?
  left             \* history: files a command left behind when it ended,
                   \* neither running nor complete since

runner == <<started, cmd, currentProcess, runs, faults, overlapped, left>>
vars == <<testState, runner>>

\* "run": awaited by its run.  "late": given up, its output still read.
\* todo: the files whose header did not come yet; seen: those whose header
\* came; cur: the one whose header came last, if any; rest: the files that
\* are for the second command of the run.
Cmd == [pc : {"free", "run", "late"}, todo : SUBSET Files, seen : SUBSET Files,
        cur : SUBSET Files, rest : SUBSET Files, killed : BOOLEAN]
Free == [pc |-> "free", todo |-> {}, seen |-> {}, cur |-> {}, rest |-> {},
         killed |-> FALSE]
Spawned(files, rest) ==
  [pc |-> "run", todo |-> files, seen |-> {}, cur |-> {}, rest |-> rest, killed |-> FALSE]

UnderWay == {c \in Cmds : cmd[c].pc = "run"}
InFlight == {c \in Cmds : cmd[c].pc # "free"}

Init ==
  /\ InitState
  /\ started = FALSE
  /\ cmd = [c \in Cmds |-> Free]
  /\ currentProcess = NoCmd
  /\ runs = 0
  /\ faults = 0
  /\ overlapped = FALSE
  /\ left = {}

-----------------------------------------------------------------------------
\* stop(), what it does to the commands: p gets a SIGTERM, of which it dies
\* some time later.
Killed(p) == IF p = NoCmd THEN cmd ELSE [cmd EXCEPT ![p].killed = TRUE]

\* runTestCommand up to its first await, the commands being cs.
Launch(cs, c, files, rest) ==
  /\ cmd' = [cs EXCEPT ![c] = Spawned(files, rest)]
  /\ currentProcess' = c

\* A run begins: startRun, the command in currentProcess is stopped, and that
\* for the first group that has files is launched.
BeginRun(files) ==
  /\ runs < MaxRuns
  /\ runs' = runs + 1
  /\ overlapped' = (overlapped \/ UnderWay # {})
  /\ StartRun(runs + 1)
  /\ \/ /\ files \ E2e # {}
        /\ Launch(Killed(currentProcess), <<runs + 1, "sdk">>, files \ E2e, files \cap E2e)
     \/ /\ files \ E2e = {}
        /\ Launch(Killed(currentProcess), <<runs + 1, "e2e">>, files, {})

\* start(), when the files are discovered, and the run of all of them.
Start ==
  /\ ~started
  /\ started' = TRUE
  /\ InitializeFiles
  /\ BeginRun(FullRun)
  /\ UNCHANGED <<faults, left>>

\* POST /state/rerun.
Rerun ==
  /\ started
  /\ runningFiles = {}
  /\ BeginRun(FullRun)
  /\ UNCHANGED <<status, result, runningFiles, started, faults, left>>

\* The same before the files are discovered: a run of nothing.
RerunNothing ==
  /\ ~started
  /\ runningFiles = {}
  /\ runs < MaxRuns
  /\ runs' = runs + 1
  /\ overlapped' = (overlapped \/ UnderWay # {})
  /\ currentRun' = 0
  /\ lastRun' = runs + 1
  /\ UNCHANGED <<status, result, runningFiles, started, cmd, currentProcess,
                 faults, left>>

\* onFileChange, for a change that concerns the test files fs.
FileChange(fs) ==
  /\ BeginRun(fs)
  /\ UpdateFiles({}, fs)
  /\ UNCHANGED <<started, faults, left>>

\* POST /state/cancel, with nothing to stop or something.
Cancel ==
  /\ cmd' = Killed(currentProcess)
  /\ currentProcess' = NoCmd
  /\ UNCHANGED <<testState, started, runs, faults, overlapped, left>>

-----------------------------------------------------------------------------
\* The callback of a header: f is the file the results to come are about.
SetCurrentFile(k, f) ==
  [k EXCEPT !.todo = k.todo \ {f}, !.seen = k.seen \cup {f}, !.cur = {f}]

\* A header line: the file before is complete, this one is running.
Header(c, f) ==
  /\ c \in InFlight
  /\ f \in cmd[c].todo
  /\ UpdateFiles(cmd[c].cur, {f})
  /\ cmd' = [cmd EXCEPT ![c] = SetCurrentFile(cmd[c], f)]
  /\ left' = left \ (cmd[c].cur \cup {f})
  /\ UNCHANGED <<currentRun, lastRun, started, currentProcess, runs, faults, overlapped>>

\* A result line, of the test of the file whose header came last.
Result(c, outcome) ==
  /\ \E f \in cmd[c].cur : UpdateTestResult(f, outcome)
  /\ UNCHANGED <<currentRun, lastRun, runner>>

\* Mutant of GoOn: currentProcess is left to the next command.
GoOnKeepsProcess(c, cs) ==
  \/ /\ cmd[c].rest # {}
     /\ Launch(cs, <<c[1], "e2e">>, cmd[c].rest, {})
     /\ UNCHANGED <<currentRun, lastRun>>
  \/ /\ cmd[c].rest = {}
     /\ cmd' = cs
     /\ UNCHANGED currentProcess
     /\ CompleteRun

\* The command c, which was awaited, is over and the commands are cs: finally
\* clears currentProcess, and the run launches its second command, which finds
\* nothing to stop, or completes.
GoOn(c, cs) ==
  \/ /\ cmd[c].rest # {}
     /\ Launch(cs, <<c[1], "e2e">>, cmd[c].rest, {})
     /\ UNCHANGED <<currentRun, lastRun>>
  \/ /\ cmd[c].rest = {}
     /\ cmd' = cs
     /\ currentProcess' = NoCmd
     /\ CompleteRun

\* The command c is given up: nothing awaits it, its output is still read.
GivenUp(c, killed) ==
  [cmd EXCEPT ![c].pc = "late", ![c].rest = {}, ![c].killed = killed]

\* Mutant of Done: only the files before the last one are completed.
DoneForgetsLast(c) ==
  /\ cmd[c].pc = "run"
  /\ UpdateFiles(cmd[c].seen \ cmd[c].cur, {})
  /\ GoOn(c, [cmd EXCEPT ![c] = Free])
  /\ left' = (left \ cmd[c].seen) \cup cmd[c].todo
  /\ UNCHANGED <<started, runs, faults, overlapped>>

\* The process has exited and its output was read: of itself, killed, or never
\* spawned; having printed every header or not.
Done(c) ==
  /\ cmd[c].pc = "run"
  /\ UpdateFiles(cmd[c].seen, {})
  /\ GoOn(c, [cmd EXCEPT ![c] = Free])
  /\ left' = (left \ cmd[c].seen) \cup cmd[c].todo
  /\ UNCHANGED <<started, runs, faults, overlapped>>

\* Mutant of Timeout: there is none.
TimeoutNever(c) == FALSE /\ UNCHANGED vars

\* The timeout wins the race: the process is killed.
Timeout(c) ==
  /\ cmd[c].pc = "run"
  /\ UpdateFiles(cmd[c].seen, {})
  /\ GoOn(c, GivenUp(c, TRUE))
  /\ left' = left \ cmd[c].seen
  /\ UNCHANGED <<started, runs, faults, overlapped>>

\* Reading one of the two outputs fails: the files seen are not completed, the
\* process goes on and so does the reading of the other output.
ReadFails(c) ==
  /\ cmd[c].pc = "run"
  /\ faults < MaxFaults
  /\ faults' = faults + 1
  /\ GoOn(c, GivenUp(c, cmd[c].killed))
  /\ UNCHANGED <<status, result, runningFiles, started, runs, overlapped, left>>

\* The output of a command that was given up ends.
LateEnd(c) ==
  /\ cmd[c].pc = "late"
  /\ cmd' = [cmd EXCEPT ![c] = Free]
  /\ left' = left \cup cmd[c].todo \cup cmd[c].cur
  /\ UNCHANGED <<testState, started, currentProcess, runs, faults, overlapped>>

Next ==
  \/ Start
  \/ Rerun
  \/ RerunNothing
  \/ \E fs \in Changes : FileChange(fs)
  \/ Cancel
  \/ \E c \in Cmds :
       \/ \E f \in Files : Header(c, f)
       \/ \E outcome \in Outcomes : Result(c, outcome)
       \/ Done(c)
       \/ Timeout(c)
       \/ ReadFails(c)
       \/ LateEnd(c)

SafetySpec == Init /\ [][Next]_vars

\* The timer of a command fires, whatever its process does.  Nothing else is
\* sure: a process may hang, also after a SIGTERM.
Spec == SafetySpec /\ \A c \in Cmds : WF_vars(Timeout(c))

-----------------------------------------------------------------------------
\* The variables have the types of the fields they model, the status of a file
\* among those of TestFileState that the runner sets.
TypeOK ==
  /\ StateOK
  /\ started \in BOOLEAN
  /\ cmd \in [Cmds -> Cmd]
  /\ currentProcess \in Cmds \cup {NoCmd}
  /\ runs \in 0 .. MaxRuns
  /\ faults \in 0 .. MaxFaults
  /\ overlapped \in BOOLEAN
  /\ left \subseteq Files

\* What stop() would stop is a command that a run awaits and that nothing has
\* stopped: however the ends of older runs clear currentProcess, it never holds
\* a command whose run has gone on.
CurrentIsUnderWay ==
  currentProcess # NoCmd =>
    currentProcess \in UnderWay /\ ~cmd[currentProcess].killed

\* However runs overlap, a file stays marked as running, and keeps the re-run
\* request refused, only while a command in flight runs it or is to run it, or
\* because a command that ended before its time left it so.
RunningHasCause ==
  \A f \in runningFiles :
    \/ f \in left
    \/ \E c \in InFlight : f \in cmd[c].todo \cup cmd[c].cur \cup cmd[c].rest

\* The status of a completed file is that of its last result, except while a
\* command in flight still reports on it, or after one that was given up did.
StatusMatchesResult ==
  \A f \in Files :
    (status[f] \in {"passed", "failed"} /\ status[f] # FileStatus(f)) =>
      f \in left \/ \E c \in InFlight : f \in cmd[c].cur

\* As long as no run begins while another is under way, currentProcess and the
\* metadata tell the truth: one command at most is awaited, it is the one that
\* stop() would stop unless it was stopped, and a run is current exactly while
\* a command is awaited.
SerialIsExact ==
  ~overlapped =>
    /\ \A c \in UnderWay : c = currentProcess \/ cmd[c].killed
    /\ Cardinality(UnderWay) <= 1
    /\ (currentRun # 0) <=> (UnderWay # {})

\* No run stays current for ever, whatever its processes do and however many
\* runs begin meanwhile.
RunMetadataEnds == \A n \in 1 .. MaxRuns : currentRun = n ~> currentRun # n

\* Only known files are marked as running.
MarkedAreKnown == \A f \in runningFiles : Known(f)

\* What the commands of a run are for, and when: those of runs to come are not
\* in flight, nor is the second one of a run while the first is awaited, and
\* nothing that is given up is to launch anything.
CommandsInOrder ==
  \A c \in Cmds :
    /\ c[1] > runs => cmd[c] = Free
    /\ cmd[c].cur \subseteq cmd[c].seen
    /\ cmd[c].pc # "run" => cmd[c].rest = {}
    /\ cmd[c].rest # {} => c[2] = "sdk" /\ cmd[<<c[1], "e2e">>] = Free

\* The inductive invariant: no launch replaces a command that is in flight, and
\* no file loses the last command that is to run it without being left behind.
IInv ==
  /\ TypeOK
  /\ CurrentIsUnderWay
  /\ RunningHasCause
  /\ MarkedAreKnown
  /\ CommandsInOrder

\* "Stop any existing run before starting a new one" (continuous-runner.ts:229):
\* two commands are never awaited unless all but one of them were stopped.
OneProcess == Cardinality({c \in UnderWay : ~cmd[c].killed}) <= 1
=============================================================================
