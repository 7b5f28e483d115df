----------------------- MODULE ContinuousRunnerProofs -----------------------
(***************************************************************************)
(* Safety of ContinuousRunner for any files, changes, number of runs that  *)
(* overlap and number of commands that are given up.                       *)
(***************************************************************************)
EXTENDS ContinuousRunner, FiniteSetTheorems, TLAPS

\* A command's name has two parts, and that of the run's second command is one.
LEMMA CmdsParts ==
  ASSUME NEW c \in Cmds
  PROVE  c[1] \in 1 .. MaxRuns /\ c[2] \in {"sdk", "e2e"} /\ c = <<c[1], c[2]>>
         /\ <<c[1], "e2e">> \in Cmds
  BY DEF Cmds

LEMMA InitInv == Init => IInv
<1> SUFFICES ASSUME Init PROVE IInv
  OBVIOUS
<1>1. TypeOK
  <2>1. StateOK
    BY DEF Init, InitState, StateOK
  <2>2. cmd \in [Cmds -> Cmd]
    BY DEF Init, Cmd, Free
  <2>3. started \in BOOLEAN /\ overlapped \in BOOLEAN
    BY DEF Init
  <2>4. runs \in 0 .. MaxRuns /\ faults \in 0 .. MaxFaults
    BY RunnerAssumption DEF Init
  <2>5. currentProcess \in Cmds \cup {NoCmd} /\ left \subseteq Files
    BY DEF Init
  <2> QED
    BY <2>1, <2>2, <2>3, <2>4, <2>5 DEF TypeOK
<1>2. CurrentIsUnderWay /\ RunningHasCause /\ MarkedAreKnown
  BY DEF Init, InitState, CurrentIsUnderWay, RunningHasCause, MarkedAreKnown
<1>3. CommandsInOrder
  BY CmdsParts DEF Init, CommandsInOrder, Free
<1> QED
  BY <1>1, <1>2, <1>3 DEF IInv

-----------------------------------------------------------------------------
\* A command stopped keeps everything but that.
LEMMA KilledKeeps ==
  ASSUME IInv, NEW p \in Cmds \cup {NoCmd}
  PROVE  /\ Killed(p) \in [Cmds -> Cmd]
         /\ \A c \in Cmds : /\ Killed(p)[c].pc = cmd[c].pc
                            /\ Killed(p)[c].todo = cmd[c].todo
                            /\ Killed(p)[c].seen = cmd[c].seen
                            /\ Killed(p)[c].cur = cmd[c].cur
                            /\ Killed(p)[c].rest = cmd[c].rest
                            /\ c # p => Killed(p)[c] = cmd[c]
  BY DEF Killed, IInv, TypeOK, Cmd

\* What a run that begins does to the commands: it launches one, which was
\* free, for a part of the files, the other part being the rest of it.
LEMMA BeginRunKeeps ==
  ASSUME IInv, NEW files \in (SUBSET Files) \ {{}}, BeginRun(files)
  PROVE  /\ cmd' \in [Cmds -> Cmd]
         /\ currentProcess' \in Cmds
         /\ runs' \in 0 .. MaxRuns
         /\ overlapped' \in BOOLEAN
         /\ currentRun' \in Nat /\ lastRun' \in Nat
         /\ CurrentIsUnderWay'
         /\ CommandsInOrder'
         /\ \A c \in InFlight : /\ c \in InFlight'
                                /\ cmd'[c].todo = cmd[c].todo
                                /\ cmd'[c].cur = cmd[c].cur
                                /\ cmd'[c].rest = cmd[c].rest
         /\ \E c \in InFlight' : files \subseteq cmd'[c].todo \cup cmd'[c].rest
<1>1. /\ runs \in 0 .. MaxRuns /\ runs < MaxRuns /\ runs' = runs + 1
      /\ MaxRuns \in Nat
      /\ runs' \in 0 .. MaxRuns
      /\ currentProcess \in Cmds \cup {NoCmd}
  BY RunnerAssumption DEF BeginRun, IInv, TypeOK
<1>2. overlapped' \in BOOLEAN /\ currentRun' \in Nat /\ lastRun' \in Nat
  <2>1. overlapped' = (overlapped \/ UnderWay # {}) /\ overlapped \in BOOLEAN
    BY DEF BeginRun, IInv, TypeOK
  <2>2. currentRun' = runs + 1 /\ lastRun' = lastRun /\ lastRun \in Nat
    BY DEF BeginRun, StartRun, IInv, TypeOK, StateOK
  <2> QED
    BY <1>1, <2>1, <2>2
<1>3. PICK g \in {"sdk", "e2e"}, todo \in SUBSET Files, rest \in SUBSET Files :
        /\ Launch(Killed(currentProcess), <<runs + 1, g>>, todo, rest)
        /\ todo \cup rest = files
        /\ g = "e2e" => rest = {}
  <2>1. CASE files \ E2e # {}
    <3>1. Launch(Killed(currentProcess), <<runs + 1, "sdk">>, files \ E2e, files \cap E2e)
      BY <2>1 DEF BeginRun
    <3> QED
      BY <3>1
  <2>2. CASE files \ E2e = {}
    <3>1. Launch(Killed(currentProcess), <<runs + 1, "e2e">>, files, {})
      BY <2>2 DEF BeginRun
    <3> QED
      BY <3>1
  <2> QED
    BY <2>1, <2>2
<1> DEFINE d == <<runs + 1, g>>
<1>4. d \in Cmds /\ d[1] = runs + 1 /\ d[2] = g
  BY <1>1 DEF Cmds
<1>5. cmd[d] = Free
  <2>1. d[1] > runs => cmd[d] = Free
    BY <1>4 DEF IInv, CommandsInOrder
  <2> QED
    BY <1>1, <1>4, <2>1
<1> DEFINE k == Killed(currentProcess)
<1>6. /\ k \in [Cmds -> Cmd]
      /\ \A c \in Cmds : /\ k[c].pc = cmd[c].pc /\ k[c].todo = cmd[c].todo
                         /\ k[c].seen = cmd[c].seen /\ k[c].cur = cmd[c].cur
                         /\ k[c].rest = cmd[c].rest
                         /\ c # currentProcess => k[c] = cmd[c]
  BY <1>1, KilledKeeps
<1>7. cmd' = [k EXCEPT ![d] = Spawned(todo, rest)] /\ currentProcess' = d
  BY <1>3 DEF Launch
<1> HIDE DEF k
<1>8. cmd' \in [Cmds -> Cmd]
  BY <1>3, <1>6, <1>7 DEF Cmd, Spawned
<1>9. /\ cmd'[d] = [pc |-> "run", todo |-> todo, seen |-> {}, cur |-> {}, rest |-> rest,
                    killed |-> FALSE]
      /\ \A c \in Cmds \ {d} : cmd'[c] = k[c]
  BY <1>4, <1>6, <1>7 DEF Spawned
<1> HIDE DEF d
<1>12. \A c \in Cmds : cmd[c] = Free => k[c] = Free
  BY <1>1, <1>6, RunnerAssumption DEF IInv, CurrentIsUnderWay, UnderWay, Free
<1>10. CurrentIsUnderWay'
  BY <1>4, <1>7, <1>9 DEF CurrentIsUnderWay, UnderWay
<1>11. CommandsInOrder'
  <2> SUFFICES ASSUME NEW c \in Cmds
               PROVE /\ c[1] > runs' => cmd'[c] = Free
                     /\ cmd'[c].cur \subseteq cmd'[c].seen
                     /\ cmd'[c].pc # "run" => cmd'[c].rest = {}
                     /\ cmd'[c].rest # {} =>
                          c[2] = "sdk" /\ cmd'[<<c[1], "e2e">>] = Free
    BY DEF CommandsInOrder
  <2>0. c[1] \in 1 .. MaxRuns /\ <<c[1], "e2e">> \in Cmds /\ c = <<c[1], c[2]>>
    BY CmdsParts
  <2>c. /\ c[1] > runs => cmd[c] = Free
        /\ cmd[c].cur \subseteq cmd[c].seen
        /\ cmd[c].pc # "run" => cmd[c].rest = {}
        /\ cmd[c].rest # {} => c[2] = "sdk" /\ cmd[<<c[1], "e2e">>] = Free
    BY DEF IInv, CommandsInOrder
  <2>1. CASE c = d
    <3>1. cmd'[c].rest # {} => <<c[1], "e2e">> # d /\ c[2] = "sdk"
      BY <2>1, <1>3, <1>4, <1>9
    <3>2. cmd[<<c[1], "e2e">>] = Free
      BY <1>1, <1>4, <2>0, <2>1 DEF IInv, CommandsInOrder
    <3>3. k[<<c[1], "e2e">>] = Free
      BY <1>12, <2>0, <3>2
    <3> QED
      BY <1>1, <1>4, <1>9, <2>0, <2>1, <3>1, <3>3
  <2>2. CASE c # d
    <3>1. cmd'[c] = k[c] /\ (cmd[c] = Free => k[c] = Free)
      BY <1>9, <1>12, <2>2
    <3>2. ASSUME cmd[c].rest # {} PROVE cmd'[<<c[1], "e2e">>] = Free
      <4>1. cmd[<<c[1], "e2e">>] = Free /\ k[<<c[1], "e2e">>] = Free
        BY <1>12, <2>0, <2>c, <3>2
      <4>2. c[1] <= runs
        BY <1>1, <2>0, <2>c, <3>2 DEF Free
      <4>3. <<c[1], "e2e">>[1] # d[1]
        BY <1>1, <1>4, <2>0, <4>2
      <4> QED
        BY <1>9, <2>0, <4>1, <4>3
    <3>3. c[1] > runs' => c[1] > runs
      BY <1>1, <2>0
    <3> QED
      BY <1>6, <2>c, <3>1, <3>2, <3>3
  <2> QED
    BY <2>1, <2>2
<1>13. \A c \in InFlight : /\ c \in InFlight'
                           /\ cmd'[c].todo = cmd[c].todo
                           /\ cmd'[c].cur = cmd[c].cur
                           /\ cmd'[c].rest = cmd[c].rest
  BY <1>5, <1>6, <1>9 DEF InFlight, Free
<1>14. d \in InFlight' /\ files \subseteq cmd'[d].todo \cup cmd'[d].rest
  BY <1>3, <1>4, <1>9 DEF InFlight
<1> QED
  BY <1>1, <1>2, <1>4, <1>7, <1>8, <1>10, <1>11, <1>13, <1>14

\* What the end of an awaited command does to the commands: it stays as the
\* caller left it, the others that are in flight stay, and the rest of the run,
\* if any, is launched.
LEMMA GoOnKeeps ==
  ASSUME IInv, NEW c \in Cmds, cmd[c].pc = "run",
         NEW cs \in [Cmds -> Cmd],
         \A d \in Cmds \ {c} : cs[d] = cmd[d],
         cs[c].pc # "run", cs[c].rest = {}, cs[c].cur \subseteq cs[c].seen,
         GoOn(c, cs), runs' = runs
  PROVE  /\ cmd' \in [Cmds -> Cmd]
         /\ currentProcess' \in Cmds \cup {NoCmd}
         /\ currentRun' \in Nat /\ lastRun' \in Nat
         /\ CurrentIsUnderWay'
         /\ CommandsInOrder'
         /\ cmd'[c] = cs[c]
         /\ \A d \in InFlight \ {c} : cmd'[d] = cmd[d]
         /\ cmd[c].rest # {} => \E d \in InFlight' : cmd'[d].todo = cmd[c].rest
<1> DEFINE e == <<c[1], "e2e">>
<1>0. /\ c[1] \in 1 .. MaxRuns /\ e \in Cmds /\ c = <<c[1], c[2]>>
      /\ e[1] = c[1] /\ e[2] = "e2e"
      /\ runs \in 0 .. MaxRuns /\ MaxRuns \in Nat
  BY CmdsParts, RunnerAssumption DEF IInv, TypeOK
<1>1. /\ cmd[c] \in Cmd
      /\ ~(c[1] > runs)
      /\ cmd[c].rest # {} => c[2] = "sdk" /\ cmd[e] = Free
  BY DEF IInv, TypeOK, CommandsInOrder, Free
<1>2. \A d \in Cmds :
        /\ d[1] > runs => cmd[d] = Free
        /\ cmd[d].cur \subseteq cmd[d].seen
        /\ cmd[d].pc # "run" => cmd[d].rest = {}
        /\ cmd[d].rest # {} => d[2] = "sdk" /\ cmd[<<d[1], "e2e">>] = Free
  BY DEF IInv, CommandsInOrder
<1> HIDE DEF e
<1>3. CASE cmd[c].rest # {}
  <2>1. /\ cmd' = [cs EXCEPT ![e] = Spawned(cmd[c].rest, {})]
        /\ currentProcess' = e
        /\ UNCHANGED <<currentRun, lastRun>>
    BY <1>3 DEF GoOn, Launch, e
  <2>2. e # c /\ cs[e] = Free /\ cmd[e] = Free
    BY <1>0, <1>1, <1>3
  <2>3. Spawned(cmd[c].rest, {}) \in Cmd
    BY <1>1 DEF Spawned, Cmd
  <2>4. /\ cmd' \in [Cmds -> Cmd]
        /\ cmd'[e] = Spawned(cmd[c].rest, {})
        /\ \A d \in Cmds \ {e} : cmd'[d] = cs[d]
    BY <1>0, <2>1, <2>3
  <2>5. currentRun' \in Nat /\ lastRun' \in Nat
    BY <2>1 DEF IInv, TypeOK, StateOK
  <2>6. CurrentIsUnderWay'
    BY <1>0, <2>1, <2>4 DEF CurrentIsUnderWay, UnderWay, Spawned
  <2>7. CommandsInOrder'
    <3> SUFFICES ASSUME NEW d \in Cmds
                 PROVE /\ d[1] > runs => cmd'[d] = Free
                       /\ cmd'[d].cur \subseteq cmd'[d].seen
                       /\ cmd'[d].pc # "run" => cmd'[d].rest = {}
                       /\ cmd'[d].rest # {} =>
                            d[2] = "sdk" /\ cmd'[<<d[1], "e2e">>] = Free
      BY DEF CommandsInOrder
    <3>0. d = <<d[1], d[2]>> /\ <<d[1], "e2e">> \in Cmds
      BY CmdsParts
    <3>1. CASE d = e
      BY <1>0, <1>1, <2>4, <3>1 DEF Spawned
    <3>2. CASE d = c
      BY <1>1, <2>2, <2>4, <3>2
    <3>3. CASE d # e /\ d # c
      <4>1. cmd'[d] = cmd[d]
        BY <2>4, <3>3
      <4>2. ASSUME cmd[d].rest # {} PROVE cmd'[<<d[1], "e2e">>] = Free
        <5>1. d[2] = "sdk" /\ cmd[<<d[1], "e2e">>] = Free
          BY <1>2, <4>2
        <5>2. d[1] # c[1]
          BY <1>0, <1>1, <1>3, <3>0, <3>3, <5>1
        <5>3. <<d[1], "e2e">> # e /\ <<d[1], "e2e">> # c
          BY <1>0, <5>2 DEF e
        <5> QED
          BY <2>4, <3>0, <5>1, <5>3
      <4> QED
        BY <1>2, <4>1, <4>2
    <3> QED
      BY <3>1, <3>2, <3>3
  <2>8. cmd'[c] = cs[c] /\ \A d \in InFlight \ {c} : cmd'[d] = cmd[d]
    BY <2>2, <2>4 DEF InFlight, Free
  <2>9. e \in InFlight' /\ cmd'[e].todo = cmd[c].rest
    BY <1>0, <2>4 DEF InFlight, Spawned
  <2> QED
    BY <1>0, <2>1, <2>4, <2>5, <2>6, <2>7, <2>8, <2>9
<1>4. CASE cmd[c].rest = {}
  <2>1. cmd' = cs /\ currentProcess' = NoCmd /\ CompleteRun
    BY <1>4 DEF GoOn
  <2>2. currentRun' \in Nat /\ lastRun' \in Nat
    BY <2>1 DEF CompleteRun, IInv, TypeOK, StateOK
  <2>3. CurrentIsUnderWay'
    BY <2>1 DEF CurrentIsUnderWay
  <2>4. CommandsInOrder'
    <3> SUFFICES ASSUME NEW d \in Cmds
                 PROVE /\ d[1] > runs => cs[d] = Free
                       /\ cs[d].cur \subseteq cs[d].seen
                       /\ cs[d].pc # "run" => cs[d].rest = {}
                       /\ cs[d].rest # {} =>
                            d[2] = "sdk" /\ cs[<<d[1], "e2e">>] = Free
      BY <2>1 DEF CommandsInOrder
    <3>1. CASE d = c
      BY <1>1, <3>1
    <3>2. CASE d # c
      <4>1. cmd[d].rest # {} => <<d[1], "e2e">> \in Cmds \ {c}
        BY <1>2, CmdsParts DEF Free
      <4> QED
        BY <1>2, <3>2, <4>1
    <3> QED
      BY <3>1, <3>2
  <2> QED
    BY <1>4, <2>1, <2>2, <2>3, <2>4 DEF InFlight
<1> QED
  BY <1>3, <1>4

\* A command that is given up has nothing more to launch, and is as it was.
LEMMA GivenUpKeeps ==
  ASSUME cmd \in [Cmds -> Cmd], NEW c \in Cmds, NEW killed \in BOOLEAN
  PROVE  /\ GivenUp(c, killed) \in [Cmds -> Cmd]
         /\ GivenUp(c, killed)[c].pc = "late" /\ GivenUp(c, killed)[c].rest = {}
         /\ GivenUp(c, killed)[c].todo = cmd[c].todo
         /\ GivenUp(c, killed)[c].seen = cmd[c].seen
         /\ GivenUp(c, killed)[c].cur = cmd[c].cur
         /\ \A d \in Cmds \ {c} : GivenUp(c, killed)[d] = cmd[d]
  BY DEF GivenUp, Cmd

\* What happens to the files: those that are marked afterwards were marked and
\* are not done, or have just begun.
LEMMA UpdateFilesMarks ==
  ASSUME IInv, NEW done \in SUBSET Files, NEW begun \in SUBSET Files,
         UpdateFiles(done, begun)
  PROVE  /\ status' \in [Files -> {"unknown", "pending", "running", "passed", "failed"}]
         /\ result' \in [Files -> Outcomes \cup {"none"}]
         /\ runningFiles' \subseteq Files
         /\ MarkedAreKnown'
         /\ \A f \in runningFiles' : f \in runningFiles \ done \/ f \in begun
<1>1. /\ status \in [Files -> {"unknown", "pending", "running", "passed", "failed"}]
      /\ result \in [Files -> Outcomes \cup {"none"}]
      /\ runningFiles \subseteq Files
      /\ \A f \in runningFiles : status[f] # "unknown"
  BY DEF IInv, TypeOK, StateOK, MarkedAreKnown, Known
<1>2. /\ result' = result
      /\ runningFiles' =
           (runningFiles \ {f \in done : Known(f)}) \cup {f \in begun : Known(f)}
      /\ status' = [f \in Files |->
           IF ~Known(f) THEN status[f]
           ELSE IF f \in begun THEN "running"
           ELSE IF f \in done THEN FileStatus(f) ELSE status[f]]
  BY DEF UpdateFiles
<1>3. \A f \in Files : FileStatus(f) \in {"passed", "failed"}
  BY DEF FileStatus
<1>4. status' \in [Files -> {"unknown", "pending", "running", "passed", "failed"}]
  BY <1>1, <1>2, <1>3
<1>5. \A f \in Files : Known(f) => status'[f] # "unknown"
  BY <1>2, <1>3 DEF Known
<1>6. MarkedAreKnown'
  BY <1>1, <1>2, <1>5 DEF MarkedAreKnown, Known
<1> QED
  BY <1>1, <1>2, <1>4, <1>6 DEF Known

-----------------------------------------------------------------------------
\* Every step preserves the inductive invariant: one step per action.
LEMMA NextInv == IInv /\ [Next]_vars => IInv'
<1> SUFFICES ASSUME IInv, [Next]_vars PROVE IInv'
  OBVIOUS
<1>a. /\ TypeOK /\ StateOK /\ CurrentIsUnderWay /\ MarkedAreKnown /\ CommandsInOrder
      /\ \A f \in runningFiles :
           f \in left \/ \E c \in InFlight : f \in cmd[c].todo \cup cmd[c].cur \cup cmd[c].rest
      /\ cmd \in [Cmds -> Cmd] /\ left \subseteq Files /\ runningFiles \subseteq Files
      /\ started \in BOOLEAN /\ overlapped \in BOOLEAN
      /\ runs \in 0 .. MaxRuns /\ faults \in 0 .. MaxFaults
      /\ currentProcess \in Cmds \cup {NoCmd}
      /\ currentRun \in Nat /\ lastRun \in Nat
      /\ status \in [Files -> {"unknown", "pending", "running", "passed", "failed"}]
      /\ result \in [Files -> Outcomes \cup {"none"}]
  BY DEF IInv, TypeOK, StateOK, RunningHasCause
<1>b. \A c \in Cmds : /\ cmd[c] \in Cmd
                      /\ cmd[c].cur \subseteq cmd[c].seen
                      /\ cmd[c].pc # "run" => cmd[c].rest = {}
  BY <1>a DEF CommandsInOrder
<1>d. \A c \in Cmds : /\ c[1] > runs => cmd[c] = Free
                      /\ cmd[c].rest # {} => c[2] = "sdk" /\ cmd[<<c[1], "e2e">>] = Free
                      /\ <<c[1], "e2e">> \in Cmds
  BY <1>a, CmdsParts DEF CommandsInOrder
<1>c. FullRun \in (SUBSET Files) \ {{}} /\ Changes \subseteq (SUBSET Files) \ {{}}
  BY RunnerAssumption, FilesAssumption
<1>1. CASE Start
  <2>1. BeginRun(FullRun) /\ InitializeFiles /\ started' = TRUE /\ UNCHANGED <<faults, left>>
    BY <1>1 DEF Start
  <2>2. /\ status' \in [Files -> {"unknown", "pending", "running", "passed", "failed"}]
        /\ result' \in [Files -> Outcomes \cup {"none"}]
        /\ runningFiles' = runningFiles
        /\ \A f \in Files : status[f] # "unknown" => status'[f] # "unknown"
    BY <1>a, <2>1 DEF InitializeFiles
  <2>3. MarkedAreKnown'
    BY <1>a, <2>2 DEF MarkedAreKnown, Known
  <2>4. TypeOK'
    <3>1. started' \in BOOLEAN /\ left' \subseteq Files /\ faults' \in 0 .. MaxFaults
      BY <1>a, <2>1
    <3> QED
      BY <1>a, <1>c, <2>1, <2>2, <3>1, BeginRunKeeps DEF TypeOK, StateOK
  <2>5. RunningHasCause'
    BY <1>a, <1>c, <2>1, <2>2, BeginRunKeeps DEF RunningHasCause
  <2> QED
    BY <1>c, <2>1, <2>3, <2>4, <2>5, BeginRunKeeps DEF IInv
<1>2. CASE Rerun
  <2>1. BeginRun(FullRun) /\ UNCHANGED <<status, result, runningFiles, started, faults, left>>
    BY <1>2 DEF Rerun
  <2>2. TypeOK'
    <3>1. started' \in BOOLEAN /\ left' \subseteq Files /\ faults' \in 0 .. MaxFaults
      BY <1>a, <2>1
    <3> QED
      BY <1>a, <1>c, <2>1, <3>1, BeginRunKeeps DEF TypeOK, StateOK
  <2>3. MarkedAreKnown'
    BY <1>a, <2>1 DEF MarkedAreKnown, Known
  <2>4. RunningHasCause'
    BY <1>a, <1>c, <2>1, BeginRunKeeps DEF RunningHasCause
  <2> QED
    BY <1>c, <2>1, <2>2, <2>3, <2>4, BeginRunKeeps DEF IInv
<1>3. CASE RerunNothing
  <2>1. /\ UNCHANGED <<status, result, runningFiles, started, cmd, currentProcess,
                       faults, left>>
        /\ runs < MaxRuns /\ runs' = runs + 1 /\ currentRun' = 0 /\ lastRun' = runs + 1
        /\ overlapped' = (overlapped \/ UnderWay # {})
    BY <1>3 DEF RerunNothing
  <2>2. runs' \in 0 .. MaxRuns /\ lastRun' \in Nat /\ currentRun' \in Nat
    BY <1>a, <2>1, RunnerAssumption
  <2>3. started' \in BOOLEAN /\ overlapped' \in BOOLEAN
    BY <1>a, <2>1
  <2>4. TypeOK'
    BY <1>a, <2>1, <2>2, <2>3 DEF TypeOK, StateOK
  <2>5. CurrentIsUnderWay' /\ MarkedAreKnown' /\ RunningHasCause'
    BY <1>a, <2>1
       DEF CurrentIsUnderWay, UnderWay, MarkedAreKnown, Known, RunningHasCause, InFlight
  <2>6. CommandsInOrder'
    <3>1. ASSUME NEW c \in Cmds PROVE c[1] > runs' => c[1] > runs
      <4>1. c[1] \in 1 .. MaxRuns
        BY CmdsParts
      <4> QED
        BY <1>a, <2>1, <4>1, RunnerAssumption
    <3> QED
      BY <1>b, <1>d, <2>1, <3>1 DEF CommandsInOrder
  <2> QED
    BY <2>4, <2>5, <2>6 DEF IInv
<1>4. ASSUME NEW fs \in Changes, FileChange(fs) PROVE IInv'
  <2>1. BeginRun(fs) /\ UpdateFiles({}, fs) /\ UNCHANGED <<started, faults, left>>
    BY <1>4 DEF FileChange
  <2>2. fs \in (SUBSET Files) \ {{}} /\ {} \in SUBSET Files
    BY <1>c
  <2>3. TypeOK'
    <3>1. started' \in BOOLEAN /\ left' \subseteq Files /\ faults' \in 0 .. MaxFaults
      BY <1>a, <2>1
    <3> QED
      BY <2>1, <2>2, <3>1, BeginRunKeeps, UpdateFilesMarks DEF TypeOK, StateOK
  <2>4. RunningHasCause'
    <3>1. \A f \in runningFiles' : f \in runningFiles \/ f \in fs
      BY <2>1, <2>2, UpdateFilesMarks
    <3> QED
      BY <1>a, <2>1, <2>2, <3>1, BeginRunKeeps DEF RunningHasCause
  <2> QED
    BY <2>1, <2>2, <2>3, <2>4, BeginRunKeeps, UpdateFilesMarks DEF IInv
<1>5. CASE Cancel
  <2>1. /\ cmd' = Killed(currentProcess) /\ currentProcess' = NoCmd
        /\ UNCHANGED <<testState, started, runs, faults, overlapped, left>>
    BY <1>5 DEF Cancel
  <2>2. /\ cmd' \in [Cmds -> Cmd]
        /\ \A c \in Cmds : /\ cmd'[c].pc = cmd[c].pc /\ cmd'[c].todo = cmd[c].todo
                           /\ cmd'[c].seen = cmd[c].seen /\ cmd'[c].cur = cmd[c].cur
                           /\ cmd'[c].rest = cmd[c].rest
                           /\ c # currentProcess => cmd'[c] = cmd[c]
    BY <1>a, <2>1, KilledKeeps
  <2>3. TypeOK'
    <3>1. started' \in BOOLEAN /\ overlapped' \in BOOLEAN
      BY <1>a, <2>1
    <3> QED
      BY <1>a, <2>1, <2>2, <3>1 DEF TypeOK, StateOK, testState
  <2>4. CurrentIsUnderWay' /\ MarkedAreKnown' /\ RunningHasCause'
    <3>1. CurrentIsUnderWay'
      BY <2>1 DEF CurrentIsUnderWay
    <3>2. MarkedAreKnown'
      BY <1>a, <2>1 DEF MarkedAreKnown, Known, testState
    <3>3. RunningHasCause'
      BY <1>a, <2>1, <2>2 DEF RunningHasCause, InFlight, testState
    <3> QED
      BY <3>1, <3>2, <3>3
  <2>5. CommandsInOrder'
    <3>1. \A c \in Cmds : cmd[c] = Free => cmd'[c] = Free
      BY <1>a, <2>2, RunnerAssumption DEF CurrentIsUnderWay, UnderWay, Free
    <3> QED
      BY <1>b, <1>d, <2>1, <2>2, <3>1 DEF CommandsInOrder
  <2> QED
    BY <2>3, <2>4, <2>5 DEF IInv
<1>6. ASSUME NEW c \in Cmds, NEW f \in Files, Header(c, f) PROVE IInv'
  <2>1. /\ c \in InFlight /\ f \in cmd[c].todo /\ UpdateFiles(cmd[c].cur, {f})
        /\ cmd' = [cmd EXCEPT ![c] = SetCurrentFile(cmd[c], f)]
        /\ left' = left \ (cmd[c].cur \cup {f})
        /\ UNCHANGED <<currentRun, lastRun, started, currentProcess, runs, faults, overlapped>>
    BY <1>6 DEF Header
  <2>2. cmd[c].cur \in SUBSET Files /\ cmd[c].todo \in SUBSET Files /\ {f} \in SUBSET Files
    BY <1>b DEF Cmd
  <2>3. /\ cmd'[c].todo = cmd[c].todo \ {f} /\ cmd'[c].seen = cmd[c].seen \cup {f}
        /\ cmd'[c].cur = {f} /\ cmd'[c].rest = cmd[c].rest
        /\ cmd'[c].pc = cmd[c].pc /\ cmd'[c].killed = cmd[c].killed
        /\ \A d \in Cmds \ {c} : cmd'[d] = cmd[d]
        /\ cmd' \in [Cmds -> Cmd]
    <3>1. /\ SetCurrentFile(cmd[c], f) \in Cmd
          /\ SetCurrentFile(cmd[c], f).todo = cmd[c].todo \ {f}
          /\ SetCurrentFile(cmd[c], f).seen = cmd[c].seen \cup {f}
          /\ SetCurrentFile(cmd[c], f).cur = {f}
          /\ SetCurrentFile(cmd[c], f).rest = cmd[c].rest
          /\ SetCurrentFile(cmd[c], f).pc = cmd[c].pc
          /\ SetCurrentFile(cmd[c], f).killed = cmd[c].killed
      BY <1>b DEF Cmd, SetCurrentFile
    <3> QED
      BY <1>a, <2>1, <3>1
  <2>4. cmd[c] # Free
    BY <2>1 DEF Free
  <2>5. TypeOK'
    <3>1. started' \in BOOLEAN /\ overlapped' \in BOOLEAN
      BY <1>a, <2>1
    <3> QED
      BY <1>a, <2>1, <2>2, <2>3, <3>1, UpdateFilesMarks DEF TypeOK, StateOK
  <2>6. CurrentIsUnderWay'
    BY <1>a, <2>1, <2>3 DEF CurrentIsUnderWay, UnderWay
  <2>7. RunningHasCause'
    <3>1. \A g \in runningFiles' : g \in runningFiles \ cmd[c].cur \/ g \in {f}
      BY <2>1, <2>2, UpdateFilesMarks
    <3>2. \A d \in InFlight : d \in InFlight'
      BY <2>3 DEF InFlight
    <3> SUFFICES ASSUME NEW g \in runningFiles'
                 PROVE \/ g \in left'
                       \/ \E d \in InFlight' :
                            g \in cmd'[d].todo \cup cmd'[d].cur \cup cmd'[d].rest
      BY DEF RunningHasCause
    <3>3. CASE g = f
      BY <2>1, <2>3, <3>2, <3>3
    <3>4. CASE g # f
      <4>1. g \in runningFiles /\ g \notin cmd[c].cur
        BY <3>1, <3>4
      <4>2. CASE g \in left
        BY <2>1, <3>4, <4>1, <4>2
      <4>3. ASSUME NEW d \in InFlight, g \in cmd[d].todo \cup cmd[d].cur \cup cmd[d].rest
            PROVE g \in cmd'[d].todo \cup cmd'[d].cur \cup cmd'[d].rest
        <5>1. d \in Cmds
          BY DEF InFlight
        <5> QED
          BY <2>3, <3>4, <4>1, <4>3, <5>1
      <4> QED
        BY <1>a, <3>2, <4>1, <4>2, <4>3
    <3> QED
      BY <3>3, <3>4
  <2>8. CommandsInOrder'
    <3>1. \A d \in Cmds : cmd[d] = Free => cmd'[d] = Free
      BY <2>3, <2>4
    <3>2. ASSUME NEW d \in Cmds
          PROVE /\ cmd'[d].rest = cmd[d].rest /\ cmd'[d].pc = cmd[d].pc
                /\ cmd'[d].cur \subseteq cmd'[d].seen
      BY <1>b, <2>3
    <3> QED
      BY <1>b, <1>d, <2>1, <3>1, <3>2 DEF CommandsInOrder
  <2> QED
    BY <2>1, <2>2, <2>5, <2>6, <2>7, <2>8, UpdateFilesMarks DEF IInv
<1>7. ASSUME NEW c \in Cmds, NEW outcome \in Outcomes, Result(c, outcome) PROVE IInv'
  <2>1. PICK f \in cmd[c].cur : UpdateTestResult(f, outcome)
    BY <1>7 DEF Result
  <2>2. f \in Files /\ UNCHANGED <<currentRun, lastRun, runner>>
    BY <1>7, <1>b, <2>1 DEF Result, Cmd
  <2>3. /\ result' = [result EXCEPT ![f] = outcome]
        /\ status' = IF Known(f) THEN status ELSE [status EXCEPT ![f] = "running"]
        /\ runningFiles' = runningFiles
    BY <2>1 DEF UpdateTestResult
  <2>4. /\ result' \in [Files -> Outcomes \cup {"none"}]
        /\ status' \in [Files -> {"unknown", "pending", "running", "passed", "failed"}]
        /\ \A g \in Files : status[g] # "unknown" => status'[g] # "unknown"
    BY <1>a, <2>2, <2>3 DEF Known
  <2>5. TypeOK'
    <3>1. started' \in BOOLEAN /\ overlapped' \in BOOLEAN
      BY <1>a, <2>2 DEF runner
    <3> QED
      BY <1>a, <2>2, <2>3, <2>4, <3>1 DEF TypeOK, StateOK, runner
  <2>6. CurrentIsUnderWay'
    BY <1>a, <2>2 DEF CurrentIsUnderWay, UnderWay, runner
  <2>7. MarkedAreKnown'
    BY <1>a, <2>3, <2>4 DEF MarkedAreKnown, Known
  <2>8. RunningHasCause'
    BY <1>a, <2>2, <2>3 DEF RunningHasCause, InFlight, runner
  <2>9. CommandsInOrder'
    BY <1>a, <2>2 DEF CommandsInOrder, runner
  <2> QED
    BY <2>5, <2>6, <2>7, <2>8, <2>9 DEF IInv
<1>8. ASSUME NEW c \in Cmds, Done(c) PROVE IInv'
  <2> DEFINE cs == [cmd EXCEPT ![c] = Free]
  <2>1. /\ cmd[c].pc = "run" /\ UpdateFiles(cmd[c].seen, {}) /\ GoOn(c, cs)
        /\ left' = (left \ cmd[c].seen) \cup cmd[c].todo
        /\ UNCHANGED <<started, runs, faults, overlapped>>
    BY <1>8 DEF Done
  <2>2. /\ cs \in [Cmds -> Cmd] /\ cs[c] = Free
        /\ \A d \in Cmds \ {c} : cs[d] = cmd[d]
    BY <1>a DEF Free, Cmd
  <2>3. cs[c].pc # "run" /\ cs[c].rest = {} /\ cs[c].cur \subseteq cs[c].seen
    BY <2>2 DEF Free
  <2> HIDE DEF cs
  <2>4. cmd[c].seen \in SUBSET Files /\ cmd[c].todo \in SUBSET Files /\ {} \in SUBSET Files
    BY <1>b DEF Cmd
  <2>5. TypeOK'
    <3>1. started' \in BOOLEAN /\ overlapped' \in BOOLEAN
      BY <1>a, <2>1
    <3> QED
      BY <1>a, <2>1, <2>2, <2>3, <2>4, <3>1, GoOnKeeps, UpdateFilesMarks DEF TypeOK, StateOK
  <2>6. RunningHasCause'
    <3>1. \A f \in runningFiles' : f \in runningFiles \ cmd[c].seen
      BY <2>1, <2>4, UpdateFilesMarks
    <3>2. /\ \A d \in InFlight \ {c} : cmd'[d] = cmd[d]
          /\ cmd[c].rest # {} => \E d \in InFlight' : cmd'[d].todo = cmd[c].rest
      BY <2>1, <2>2, <2>3, GoOnKeeps
    <3>3. \A d \in InFlight \ {c} : d \in InFlight'
      BY <3>2 DEF InFlight
    <3> QED
      BY <1>a, <1>b, <2>1, <3>1, <3>2, <3>3 DEF RunningHasCause
  <2> QED
    BY <2>1, <2>2, <2>3, <2>4, <2>5, <2>6, GoOnKeeps, UpdateFilesMarks DEF IInv
<1>9. ASSUME NEW c \in Cmds, Timeout(c) PROVE IInv'
  <2> DEFINE cs == GivenUp(c, TRUE)
  <2>1. /\ cmd[c].pc = "run" /\ UpdateFiles(cmd[c].seen, {}) /\ GoOn(c, cs)
        /\ left' = left \ cmd[c].seen
        /\ UNCHANGED <<started, runs, faults, overlapped>>
    BY <1>9 DEF Timeout
  <2>2. /\ cs \in [Cmds -> Cmd]
        /\ cs[c].pc = "late" /\ cs[c].rest = {}
        /\ cs[c].todo = cmd[c].todo /\ cs[c].seen = cmd[c].seen /\ cs[c].cur = cmd[c].cur
        /\ \A d \in Cmds \ {c} : cs[d] = cmd[d]
    BY <1>a, GivenUpKeeps
  <2>3. cs[c].pc # "run" /\ cs[c].rest = {} /\ cs[c].cur \subseteq cs[c].seen
    BY <1>b, <2>2
  <2> HIDE DEF cs
  <2>4. cmd[c].seen \in SUBSET Files /\ {} \in SUBSET Files
    BY <1>b DEF Cmd
  <2>5. TypeOK'
    <3>1. started' \in BOOLEAN /\ overlapped' \in BOOLEAN
      BY <1>a, <2>1
    <3> QED
      BY <1>a, <2>1, <2>2, <2>3, <2>4, <3>1, GoOnKeeps, UpdateFilesMarks DEF TypeOK, StateOK
  <2>6. RunningHasCause'
    <3>1. \A f \in runningFiles' : f \in runningFiles \ cmd[c].seen
      BY <2>1, <2>4, UpdateFilesMarks
    <3>2. /\ \A d \in InFlight \ {c} : cmd'[d] = cmd[d]
          /\ cmd'[c] = cs[c]
          /\ cmd[c].rest # {} => \E d \in InFlight' : cmd'[d].todo = cmd[c].rest
      BY <2>1, <2>2, <2>3, GoOnKeeps
    <3>3. c \in InFlight' /\ \A d \in InFlight \ {c} : d \in InFlight'
      BY <2>2, <3>2 DEF InFlight
    <3> QED
      BY <1>a, <1>b, <2>1, <2>2, <3>1, <3>2, <3>3 DEF RunningHasCause
  <2> QED
    BY <2>1, <2>2, <2>3, <2>4, <2>5, <2>6, GoOnKeeps, UpdateFilesMarks DEF IInv
<1>10. ASSUME NEW c \in Cmds, ReadFails(c) PROVE IInv'
  <2> DEFINE cs == GivenUp(c, cmd[c].killed)
  <2>1. /\ cmd[c].pc = "run" /\ GoOn(c, cs)
        /\ faults < MaxFaults /\ faults' = faults + 1
        /\ UNCHANGED <<status, result, runningFiles, started, runs, overlapped, left>>
    BY <1>10 DEF ReadFails
  <2>2. /\ cs \in [Cmds -> Cmd]
        /\ cs[c].pc = "late" /\ cs[c].rest = {}
        /\ cs[c].todo = cmd[c].todo /\ cs[c].seen = cmd[c].seen /\ cs[c].cur = cmd[c].cur
        /\ \A d \in Cmds \ {c} : cs[d] = cmd[d]
    <3>1. cmd[c].killed \in BOOLEAN
      BY <1>b DEF Cmd
    <3> QED
      BY <1>a, <3>1, GivenUpKeeps
  <2>3. cs[c].pc # "run" /\ cs[c].rest = {} /\ cs[c].cur \subseteq cs[c].seen
    BY <1>b, <2>2
  <2> HIDE DEF cs
  <2>4. TypeOK'
    <3>1. started' \in BOOLEAN /\ overlapped' \in BOOLEAN
      BY <1>a, <2>1
    <3>2. faults' \in 0 .. MaxFaults
      BY <1>a, <2>1, RunnerAssumption
    <3> QED
      BY <1>a, <2>1, <2>2, <2>3, <3>1, <3>2, GoOnKeeps DEF TypeOK, StateOK
  <2>5. RunningHasCause'
    <3>2. /\ \A d \in InFlight \ {c} : cmd'[d] = cmd[d]
          /\ cmd'[c] = cs[c]
          /\ cmd[c].rest # {} => \E d \in InFlight' : cmd'[d].todo = cmd[c].rest
      BY <2>1, <2>2, <2>3, GoOnKeeps
    <3>3. c \in InFlight' /\ \A d \in InFlight \ {c} : d \in InFlight'
      BY <2>2, <3>2 DEF InFlight
    <3> QED
      BY <1>a, <2>1, <2>2, <3>2, <3>3 DEF RunningHasCause
  <2>6. MarkedAreKnown'
    BY <1>a, <2>1 DEF MarkedAreKnown, Known
  <2> QED
    BY <2>1, <2>2, <2>3, <2>4, <2>5, <2>6, GoOnKeeps DEF IInv
<1>11. ASSUME NEW c \in Cmds, LateEnd(c) PROVE IInv'
  <2>1. /\ cmd[c].pc = "late" /\ cmd' = [cmd EXCEPT ![c] = Free]
        /\ left' = left \cup cmd[c].todo \cup cmd[c].cur
        /\ UNCHANGED <<testState, started, currentProcess, runs, faults, overlapped>>
    BY <1>11 DEF LateEnd
  <2>2. cmd' \in [Cmds -> Cmd] /\ cmd'[c] = Free /\ \A d \in Cmds \ {c} : cmd'[d] = cmd[d]
    BY <1>a, <2>1 DEF Cmd, Free
  <2>3. cmd[c].todo \subseteq Files /\ cmd[c].cur \subseteq Files /\ cmd[c].rest = {}
    BY <1>b, <2>1 DEF Cmd
  <2>4. TypeOK'
    <3>1. started' \in BOOLEAN /\ overlapped' \in BOOLEAN
      BY <1>a, <2>1
    <3> QED
      BY <1>a, <2>1, <2>2, <2>3, <3>1 DEF TypeOK, StateOK, testState
  <2>5. CurrentIsUnderWay'
    BY <1>a, <2>1, <2>2 DEF CurrentIsUnderWay, UnderWay
  <2>6. MarkedAreKnown'
    BY <1>a, <2>1 DEF MarkedAreKnown, Known, testState
  <2>7. RunningHasCause'
    BY <1>a, <2>1, <2>2, <2>3 DEF RunningHasCause, InFlight, testState
  <2>8. CommandsInOrder'
    BY <1>b, <1>d, <2>1, <2>2 DEF CommandsInOrder, Free
  <2> QED
    BY <2>4, <2>5, <2>6, <2>7, <2>8 DEF IInv
<1>12. CASE UNCHANGED vars
  <2>1. UNCHANGED <<status, result, runningFiles, currentRun, lastRun, started, cmd,
                    currentProcess, runs, faults, overlapped, left>>
    BY <1>12 DEF vars, testState, runner
  <2>2. TypeOK'
    BY <1>a, <2>1 DEF TypeOK, StateOK
  <2>3. CurrentIsUnderWay' /\ MarkedAreKnown' /\ RunningHasCause' /\ CommandsInOrder'
    BY <1>a, <2>1 DEF CurrentIsUnderWay, UnderWay, MarkedAreKnown, Known,
                      RunningHasCause, InFlight, CommandsInOrder
  <2> QED
    BY <2>2, <2>3 DEF IInv
<1> QED
  BY <1>1, <1>2, <1>3, <1>4, <1>5, <1>6, <1>7, <1>8, <1>9, <1>10, <1>11, <1>12 DEF Next

-----------------------------------------------------------------------------
\* A command that is not in flight reports on no file.
FreeReportsNothing == \A c \in Cmds : cmd[c].pc = "free" => cmd[c].cur = {}

\* What a run that begins launches, in full.
LEMMA BeginRunLaunches ==
  ASSUME IInv, NEW files \in (SUBSET Files) \ {{}}, BeginRun(files)
  PROVE  /\ \E d \in Cmds, todo, rest \in SUBSET Files :
              /\ cmd' = [Killed(currentProcess) EXCEPT ![d] = Spawned(todo, rest)]
              /\ currentProcess' = d
              /\ cmd[d] = Free
         /\ currentRun' # 0
         /\ overlapped' = (overlapped \/ UnderWay # {})
<1>1. runs \in 0 .. MaxRuns /\ runs < MaxRuns /\ MaxRuns \in Nat
  BY RunnerAssumption DEF BeginRun, IInv, TypeOK
<1>2. /\ currentRun' # 0
      /\ overlapped' = (overlapped \/ UnderWay # {})
  <2>1. currentRun' = runs + 1 /\ overlapped' = (overlapped \/ UnderWay # {})
    BY DEF BeginRun, StartRun
  <2> QED
    BY <1>1, <2>1
<1>3. PICK g \in {"sdk", "e2e"}, todo, rest \in SUBSET Files :
        Launch(Killed(currentProcess), <<runs + 1, g>>, todo, rest)
  BY DEF BeginRun
<1> DEFINE d == <<runs + 1, g>>
<1>4. d \in Cmds /\ d[1] = runs + 1
  BY <1>1 DEF Cmds
<1>5. cmd' = [Killed(currentProcess) EXCEPT ![d] = Spawned(todo, rest)] /\ currentProcess' = d
  BY <1>3 DEF Launch
<1> HIDE DEF d
<1>6. cmd[d] = Free
  <2>1. d[1] > runs
    BY <1>1, <1>4
  <2> QED
    BY <1>4, <2>1 DEF IInv, CommandsInOrder
<1> QED
  BY <1>2, <1>4, <1>5, <1>6

\* What the run of an awaited command that is over goes on with, in full.
LEMMA GoOnLaunches ==
  ASSUME IInv, NEW c \in Cmds, NEW cs, GoOn(c, cs)
  PROVE  \/ \E e \in Cmds :
              /\ e # c /\ cmd[e] = Free
              /\ cmd' = [cs EXCEPT ![e] = Spawned(cmd[c].rest, {})]
              /\ currentProcess' = e
              /\ currentRun' = currentRun
         \/ cmd' = cs /\ currentProcess' = NoCmd /\ currentRun' = 0
<1>1. CASE cmd[c].rest # {}
  <2> DEFINE e == <<c[1], "e2e">>
  <2>1. e \in Cmds /\ e[2] = "e2e" /\ c[2] = "sdk" /\ cmd[e] = Free
    BY <1>1, CmdsParts DEF IInv, CommandsInOrder
  <2>2. /\ cmd' = [cs EXCEPT ![e] = Spawned(cmd[c].rest, {})]
        /\ currentProcess' = e /\ currentRun' = currentRun
    BY <1>1 DEF GoOn, Launch
  <2> HIDE DEF e
  <2>3. e # c
    BY <2>1
  <2> QED
    BY <2>1, <2>2, <2>3
<1>2. CASE cmd[c].rest = {}
  BY <1>2 DEF GoOn, CompleteRun
<1> QED
  BY <1>1, <1>2

\* The end of an awaited command, whose run goes on: what the others have to do
\* with stays so, and what is launched reports on nothing yet.
LEMMA EndReports ==
  ASSUME IInv, FreeReportsNothing, NEW c \in Cmds, NEW cs \in [Cmds -> Cmd],
         \A d \in Cmds \ {c} : cs[d] = cmd[d],
         cs[c].pc = "free" => cs[c].cur = {},
         GoOn(c, cs)
  PROVE  /\ FreeReportsNothing'
         /\ cmd'[c] = cs[c]
         /\ \A d \in InFlight \ {c} : d \in InFlight' /\ cmd'[d].cur = cmd[d].cur
<1>1. \A d \in Cmds : cmd[d].pc = "free" => cmd[d].cur = {}
  BY DEF FreeReportsNothing
<1>2. ASSUME NEW e \in Cmds, e # c, cmd[e] = Free,
             cmd' = [cs EXCEPT ![e] = Spawned(cmd[c].rest, {})]
      PROVE  /\ FreeReportsNothing'
             /\ cmd'[c] = cs[c]
             /\ \A d \in InFlight \ {c} : d \in InFlight' /\ cmd'[d].cur = cmd[d].cur
  <2>1. /\ cmd'[e].pc = "run" /\ cmd'[e].cur = {}
        /\ \A d \in Cmds \ {e} : cmd'[d] = cs[d]
    BY <1>2 DEF Spawned
  <2>2. e \notin InFlight
    BY <1>2 DEF InFlight, Free
  <2> QED
    BY <1>1, <1>2, <2>1, <2>2 DEF FreeReportsNothing, InFlight
<1>3. CASE cmd' = cs
  BY <1>1, <1>3 DEF FreeReportsNothing, InFlight
<1> QED
  BY <1>2, <1>3, GoOnLaunches

\* A file whose status is not that of its last result.
Mismatched(f) == status[f] \in {"passed", "failed"} /\ status[f] # FileStatus(f)

\* completeFileRun and markFileRunning put right the files they are called for.
LEMMA UpdateFilesMatches ==
  ASSUME StateOK, NEW done \in SUBSET Files, NEW begun \in SUBSET Files,
         UpdateFiles(done, begun), NEW f \in Files, Mismatched(f)'
  PROVE  Mismatched(f) /\ f \notin done \cup begun
<1>1. /\ status'[f] = IF ~Known(f) THEN status[f]
                      ELSE IF f \in begun THEN "running"
                      ELSE IF f \in done THEN FileStatus(f) ELSE status[f]
      /\ result' = result
  BY DEF UpdateFiles
<1>2. status'[f] \in {"passed", "failed"} /\ status'[f] # FileStatus(f)
  BY <1>1 DEF Mismatched, FileStatus
<1> QED
  BY <1>1, <1>2 DEF Mismatched, Known

LEMMA ResultsInit == Init => StatusMatchesResult /\ FreeReportsNothing
  BY DEF Init, InitState, StatusMatchesResult, FreeReportsNothing, Free

\* Beginning a run leaves the commands in flight with their files.
LEMMA BeginRunReports ==
  ASSUME IInv, FreeReportsNothing, NEW files \in (SUBSET Files) \ {{}}, BeginRun(files)
  PROVE  /\ FreeReportsNothing'
         /\ \A c \in InFlight : c \in InFlight' /\ cmd'[c].cur = cmd[c].cur
<1>1. PICK d \in Cmds, todo, rest \in SUBSET Files :
        cmd' = [Killed(currentProcess) EXCEPT ![d] = Spawned(todo, rest)]
  BY BeginRunLaunches
<1>2. /\ Killed(currentProcess) \in [Cmds -> Cmd]
      /\ \A c \in Cmds : /\ Killed(currentProcess)[c].pc = cmd[c].pc
                         /\ Killed(currentProcess)[c].cur = cmd[c].cur
  BY KilledKeeps DEF IInv, TypeOK
<1>3. /\ cmd'[d].pc = "run"
      /\ \A c \in Cmds \ {d} : cmd'[c].pc = cmd[c].pc /\ cmd'[c].cur = cmd[c].cur
  BY <1>1, <1>2 DEF Spawned
<1>4. FreeReportsNothing'
  BY <1>3 DEF FreeReportsNothing
<1> QED
  BY <1>4, BeginRunKeeps

\* Every step keeps the statuses in line with the results, or leaves a cause:
\* one step per action.
LEMMA ResultsNext ==
  IInv /\ StatusMatchesResult /\ FreeReportsNothing /\ [Next]_vars
    => StatusMatchesResult' /\ FreeReportsNothing'
<1> SUFFICES ASSUME IInv, StatusMatchesResult, FreeReportsNothing, [Next]_vars
             PROVE  StatusMatchesResult' /\ FreeReportsNothing'
  OBVIOUS
<1>a. /\ StateOK /\ cmd \in [Cmds -> Cmd]
      /\ currentProcess \in Cmds \cup {NoCmd}
      /\ \A c \in Cmds : /\ cmd[c] \in Cmd /\ cmd[c].cur \subseteq cmd[c].seen
                         /\ cmd[c].cur \in SUBSET Files /\ cmd[c].seen \in SUBSET Files
                         /\ cmd[c].pc = "free" => cmd[c].cur = {}
  BY DEF IInv, TypeOK, CommandsInOrder, Cmd, FreeReportsNothing
<1>b. FullRun \in (SUBSET Files) \ {{}} /\ Changes \subseteq (SUBSET Files) \ {{}}
  BY RunnerAssumption, FilesAssumption
<1> DEFINE Cause(f) == f \in left \/ \E c \in InFlight : f \in cmd[c].cur
           CauseNow(f) == f \in left' \/ \E c \in InFlight' : f \in cmd'[c].cur
<1>c. \A f \in Files : Mismatched(f) => Cause(f)
  BY DEF StatusMatchesResult, Mismatched
<1>d. StatusMatchesResult' <=> \A f \in Files : Mismatched(f)' => CauseNow(f)
  BY DEF StatusMatchesResult, Mismatched
<1> HIDE DEF Cause, CauseNow
<1>1. ASSUME FreeReportsNothing',
             \A f \in Files : Mismatched(f)' => Mismatched(f) \/ CauseNow(f),
             \A f \in Files : Cause(f) /\ Mismatched(f)' => CauseNow(f)
      PROVE  StatusMatchesResult' /\ FreeReportsNothing'
  BY <1>1, <1>c, <1>d
<1>2. ASSUME NEW files \in (SUBSET Files) \ {{}}, BeginRun(files), UNCHANGED left,
             \A f \in Files : Mismatched(f)' => Mismatched(f)
      PROVE  StatusMatchesResult' /\ FreeReportsNothing'
  <2>1. FreeReportsNothing' /\ \A c \in InFlight : c \in InFlight' /\ cmd'[c].cur = cmd[c].cur
    BY <1>2, BeginRunReports
  <2> QED
    BY <1>1, <1>2, <2>1 DEF Cause, CauseNow
<1>3. CASE Start
  <2>1. \A f \in Files : Mismatched(f)' => Mismatched(f)
    BY <1>a, <1>3 DEF Start, InitializeFiles, Mismatched, FileStatus, StateOK
  <2> QED
    BY <1>2, <1>3, <1>b, <2>1 DEF Start
<1>4. CASE Rerun
  BY <1>2, <1>4, <1>b DEF Rerun, Mismatched, FileStatus
<1>5. CASE RerunNothing \/ UNCHANGED vars
  <2>1. UNCHANGED <<status, result, cmd, left>>
    BY <1>5 DEF RerunNothing, vars, testState, runner
  <2> QED
    BY <2>1 DEF StatusMatchesResult, FreeReportsNothing, FileStatus, InFlight
<1>6. ASSUME NEW fs \in Changes, FileChange(fs)
      PROVE  StatusMatchesResult' /\ FreeReportsNothing'
  <2>1. fs \in (SUBSET Files) \ {{}} /\ {} \in SUBSET Files
    BY <1>b
  <2>2. BeginRun(fs) /\ UpdateFiles({}, fs) /\ UNCHANGED left
    BY <1>6 DEF FileChange
  <2> QED
    BY <1>2, <1>a, <2>1, <2>2, UpdateFilesMatches
<1>7. CASE Cancel
  <2>1. cmd' = Killed(currentProcess) /\ UNCHANGED <<status, result, left>>
    BY <1>7 DEF Cancel, testState
  <2>2. \A c \in Cmds : cmd'[c].pc = cmd[c].pc /\ cmd'[c].cur = cmd[c].cur
    BY <1>a, <2>1, KilledKeeps
  <2> QED
    BY <2>1, <2>2 DEF StatusMatchesResult, FreeReportsNothing, FileStatus, InFlight
<1>8. ASSUME NEW c \in Cmds, NEW f \in Files, Header(c, f)
      PROVE  StatusMatchesResult' /\ FreeReportsNothing'
  <2>1. /\ cmd[c].pc # "free" /\ UpdateFiles(cmd[c].cur, {f})
        /\ cmd' = [cmd EXCEPT ![c] = SetCurrentFile(cmd[c], f)]
        /\ left' = left \ (cmd[c].cur \cup {f})
    BY <1>8 DEF Header, InFlight
  <2>2. SetCurrentFile(cmd[c], f).pc = cmd[c].pc
    BY <1>a DEF SetCurrentFile, Cmd
  <2>3. cmd'[c].pc = cmd[c].pc /\ \A d \in Cmds \ {c} : cmd'[d] = cmd[d]
    BY <1>a, <2>1, <2>2
  <2>4. FreeReportsNothing'
    BY <1>a, <2>1, <2>3 DEF FreeReportsNothing
  <2>5. \A g \in Files : Mismatched(g)' => Mismatched(g) /\ g \notin cmd[c].cur \cup {f}
    <3>1. StateOK /\ cmd[c].cur \in SUBSET Files /\ {f} \in SUBSET Files
      BY <1>a
    <3> QED
      BY <2>1, <3>1, UpdateFilesMatches
  <2> QED
    BY <1>1, <2>1, <2>3, <2>4, <2>5 DEF Cause, CauseNow, InFlight
<1>9. ASSUME NEW c \in Cmds, NEW outcome \in Outcomes, Result(c, outcome)
      PROVE  StatusMatchesResult' /\ FreeReportsNothing'
  <2>1. PICK f \in cmd[c].cur : UpdateTestResult(f, outcome)
    BY <1>9 DEF Result
  <2>2. UNCHANGED <<cmd, left>>
    BY <1>9 DEF Result, runner
  <2>3. f \in Files /\ c \in InFlight
    BY <1>a, <2>1 DEF InFlight
  <2>4. \A g \in Files \ {f} : Mismatched(g)' => Mismatched(g)
    BY <1>a, <2>1, <2>3 DEF UpdateTestResult, Mismatched, FileStatus, StateOK
  <2>5. CauseNow(f) /\ \A g \in Files : Cause(g) => CauseNow(g)
    BY <2>1, <2>2, <2>3 DEF Cause, CauseNow, InFlight
  <2>6. FreeReportsNothing'
    BY <2>2 DEF FreeReportsNothing
  <2> QED
    BY <1>1, <2>4, <2>5, <2>6
<1>10. ASSUME NEW c \in Cmds, NEW cs \in [Cmds -> Cmd], cmd[c].pc = "run",
              \A d \in Cmds \ {c} : cs[d] = cmd[d],
              \/ cs[c].pc = "free" /\ cs[c].cur = {}
              \/ cs[c].pc = "late" /\ cs[c].cur = cmd[c].cur,
              GoOn(c, cs),
              \A g \in Files : Mismatched(g)' =>
                Mismatched(g) /\ (g \in left => g \in left') /\ (cs[c].pc = "free" => g \notin cmd[c].cur)
       PROVE  StatusMatchesResult' /\ FreeReportsNothing'
  <2>1. /\ FreeReportsNothing' /\ cmd'[c] = cs[c]
        /\ \A d \in InFlight \ {c} : d \in InFlight' /\ cmd'[d].cur = cmd[d].cur
    BY <1>10, EndReports
  <2>2. cs[c].pc = "late" => c \in InFlight'
    BY <2>1 DEF InFlight
  <2> QED
    BY <1>1, <1>10, <2>1, <2>2 DEF Cause, CauseNow
<1>11. ASSUME NEW c \in Cmds, Done(c)
       PROVE  StatusMatchesResult' /\ FreeReportsNothing'
  <2> DEFINE cs == [cmd EXCEPT ![c] = Free]
  <2>1. /\ cs \in [Cmds -> Cmd] /\ cs[c].pc = "free" /\ cs[c].cur = {}
        /\ \A d \in Cmds \ {c} : cs[d] = cmd[d]
    BY <1>a DEF Free, Cmd
  <2>2. /\ cmd[c].pc = "run" /\ UpdateFiles(cmd[c].seen, {}) /\ GoOn(c, cs)
        /\ left' = (left \ cmd[c].seen) \cup cmd[c].todo
    BY <1>11 DEF Done
  <2> HIDE DEF cs
  <2>3. \A g \in Files : Mismatched(g)' => Mismatched(g) /\ g \notin cmd[c].seen \cup {}
    BY <1>a, <2>2, UpdateFilesMatches
  <2>4. \A g \in Files : Mismatched(g)' =>
          Mismatched(g) /\ (g \in left => g \in left') /\ (cs[c].pc = "free" => g \notin cmd[c].cur)
    BY <1>a, <2>2, <2>3
  <2>5. cmd[c].pc = "run" /\ GoOn(c, cs)
    BY <2>2
  <2>6. /\ FreeReportsNothing'
        /\ \A d \in InFlight \ {c} : d \in InFlight' /\ cmd'[d].cur = cmd[d].cur
    BY <2>1, <2>5, EndReports
  <2> QED
    BY <1>1, <2>1, <2>4, <2>6 DEF Cause, CauseNow
<1>12. ASSUME NEW c \in Cmds, Timeout(c)
       PROVE  StatusMatchesResult' /\ FreeReportsNothing'
  <2> DEFINE cs == GivenUp(c, TRUE)
  <2>1. /\ cs \in [Cmds -> Cmd] /\ cs[c].pc = "late" /\ cs[c].cur = cmd[c].cur
        /\ \A d \in Cmds \ {c} : cs[d] = cmd[d]
    BY <1>a, GivenUpKeeps
  <2>2. /\ cmd[c].pc = "run" /\ UpdateFiles(cmd[c].seen, {}) /\ GoOn(c, cs)
        /\ left' = left \ cmd[c].seen
    BY <1>12 DEF Timeout
  <2> HIDE DEF cs
  <2>3. \A g \in Files : Mismatched(g)' => Mismatched(g) /\ g \notin cmd[c].seen \cup {}
    BY <1>a, <2>2, UpdateFilesMatches
  <2> QED
    BY <1>10, <1>a, <2>1, <2>2, <2>3
<1>13. ASSUME NEW c \in Cmds, ReadFails(c)
       PROVE  StatusMatchesResult' /\ FreeReportsNothing'
  <2> DEFINE cs == GivenUp(c, cmd[c].killed)
  <2>1. /\ cs \in [Cmds -> Cmd] /\ cs[c].pc = "late" /\ cs[c].cur = cmd[c].cur
        /\ \A d \in Cmds \ {c} : cs[d] = cmd[d]
    <3>1. cmd[c].killed \in BOOLEAN
      BY <1>a DEF Cmd
    <3> QED
      BY <1>a, <3>1, GivenUpKeeps
  <2>2. cmd[c].pc = "run" /\ GoOn(c, cs) /\ UNCHANGED <<status, result, left>>
    BY <1>13 DEF ReadFails
  <2> HIDE DEF cs
  <2>3. \A g \in Files : Mismatched(g)' => Mismatched(g)
    BY <2>2 DEF Mismatched, FileStatus
  <2> QED
    BY <1>10, <2>1, <2>2, <2>3
<1>14. ASSUME NEW c \in Cmds, LateEnd(c)
       PROVE  StatusMatchesResult' /\ FreeReportsNothing'
  <2>1. /\ cmd' = [cmd EXCEPT ![c] = Free]
        /\ left' = left \cup cmd[c].todo \cup cmd[c].cur
        /\ UNCHANGED <<status, result>>
    BY <1>14 DEF LateEnd, testState
  <2>2. cmd'[c] = Free /\ \A d \in Cmds \ {c} : cmd'[d] = cmd[d]
    BY <1>a, <2>1
  <2>3. FreeReportsNothing'
    BY <1>a, <2>2 DEF FreeReportsNothing, Free
  <2>4. \A g \in Files : Cause(g) => CauseNow(g)
    BY <2>1, <2>2 DEF Cause, CauseNow, InFlight
  <2>5. \A g \in Files : Mismatched(g)' => Mismatched(g)
    BY <2>1 DEF Mismatched, FileStatus
  <2> QED
    BY <1>1, <2>3, <2>4, <2>5
<1> QED
  BY <1>3, <1>4, <1>5, <1>6, <1>7, <1>8, <1>9, <1>11, <1>12, <1>13, <1>14 DEF Next

-----------------------------------------------------------------------------
\* A set that holds nothing but one element has one element at most.
LEMMA OneAtMost ==
  ASSUME NEW S, \A c, d \in S : c = d
  PROVE  Cardinality(S) <= 1
<1>1. CASE S = {}
  BY <1>1, FS_EmptySet
<1>2. CASE S # {}
  <2>1. PICK c : S = {c}
    BY <1>2
  <2>2. Cardinality(S) = 1
    BY <2>1, FS_Singleton
  <2> QED
    BY <2>2
<1> QED
  BY <1>1, <1>2

\* SerialIsExact without the counting.
SerialExactly ==
  ~overlapped =>
    /\ \A c \in UnderWay : c = currentProcess \/ cmd[c].killed
    /\ \A c, d \in UnderWay : c = d
    /\ (currentRun # 0) <=> (UnderWay # {})

LEMMA SerialCounts == SerialExactly => SerialIsExact
  BY OneAtMost DEF SerialExactly, SerialIsExact

LEMMA SerialInit == Init => SerialExactly
  BY DEF Init, InitState, SerialExactly, UnderWay, Free

\* A run that begins while no command is awaited has the only one.
LEMMA BeginRunSerial ==
  ASSUME IInv, NEW files \in (SUBSET Files) \ {{}}, BeginRun(files)
  PROVE  SerialExactly'
<1>1. PICK d \in Cmds, todo, rest \in SUBSET Files :
        /\ cmd' = [Killed(currentProcess) EXCEPT ![d] = Spawned(todo, rest)]
        /\ currentProcess' = d
  BY BeginRunLaunches
<1>2. currentRun' # 0 /\ overlapped' = (overlapped \/ UnderWay # {})
  BY BeginRunLaunches
<1>3. /\ Killed(currentProcess) \in [Cmds -> Cmd]
      /\ \A c \in Cmds : Killed(currentProcess)[c].pc = cmd[c].pc
  BY KilledKeeps DEF IInv, TypeOK
<1>4. cmd'[d].pc = "run" /\ \A c \in Cmds \ {d} : cmd'[c].pc = cmd[c].pc
  BY <1>1, <1>3 DEF Spawned
<1>5. ~overlapped' => UnderWay' = {d}
  BY <1>2, <1>4 DEF UnderWay
<1> QED
  BY <1>1, <1>2, <1>5 DEF SerialExactly

\* When an awaited command is over its run has the only one that is awaited, or
\* is complete.
LEMMA EndSerial ==
  ASSUME IInv, SerialExactly, NEW c \in Cmds, cmd[c].pc = "run",
         NEW cs \in [Cmds -> Cmd], cs[c].pc # "run",
         \A d \in Cmds \ {c} : cs[d] = cmd[d],
         GoOn(c, cs), overlapped' = overlapped
  PROVE  SerialExactly'
<1> SUFFICES ASSUME ~overlapped'
             PROVE  /\ \A a \in UnderWay' : a = currentProcess' \/ cmd'[a].killed
                    /\ \A a, b \in UnderWay' : a = b
                    /\ (currentRun' # 0) <=> (UnderWay' # {})
  BY DEF SerialExactly
<1>1. c \in UnderWay /\ currentRun # 0 /\ \A d \in Cmds \ {c} : cmd[d].pc # "run"
  BY DEF SerialExactly, UnderWay
<1>2. \A d \in Cmds : cs[d].pc # "run"
  BY <1>1
<1>3. ASSUME NEW e \in Cmds, cmd' = [cs EXCEPT ![e] = Spawned(cmd[c].rest, {})],
             currentProcess' = e, currentRun' = currentRun
      PROVE  /\ \A a \in UnderWay' : a = currentProcess' \/ cmd'[a].killed
             /\ \A a, b \in UnderWay' : a = b
             /\ (currentRun' # 0) <=> (UnderWay' # {})
  <2>1. cmd'[e].pc = "run" /\ \A d \in Cmds \ {e} : cmd'[d].pc # "run"
    BY <1>2, <1>3 DEF Spawned
  <2>2. UnderWay' = {e}
    BY <2>1 DEF UnderWay
  <2> QED
    BY <1>1, <1>3, <2>2
<1>4. CASE cmd' = cs /\ currentRun' = 0
  BY <1>2, <1>4 DEF UnderWay
<1> QED
  BY <1>3, <1>4, GoOnLaunches

LEMMA SerialNext == IInv /\ SerialExactly /\ [Next]_vars => SerialExactly'
<1> SUFFICES ASSUME IInv, SerialExactly, [Next]_vars PROVE SerialExactly'
  OBVIOUS
<1>a. /\ cmd \in [Cmds -> Cmd] /\ currentProcess \in Cmds \cup {NoCmd}
      /\ \A c \in Cmds : cmd[c] \in Cmd
  BY DEF IInv, TypeOK
<1>b. FullRun \in (SUBSET Files) \ {{}} /\ Changes \subseteq (SUBSET Files) \ {{}}
  BY RunnerAssumption, FilesAssumption
<1>1. CASE Start \/ Rerun \/ \E fs \in Changes : FileChange(fs)
  <2>1. PICK files \in (SUBSET Files) \ {{}} : BeginRun(files)
    BY <1>1, <1>b DEF Start, Rerun, FileChange
  <2> QED
    BY <2>1, BeginRunSerial
<1>2. CASE RerunNothing
  BY <1>2 DEF RerunNothing, SerialExactly, UnderWay
<1>3. CASE Cancel
  <2>1. /\ cmd' = Killed(currentProcess) /\ overlapped' = overlapped /\ currentRun' = currentRun
    BY <1>3 DEF Cancel, testState
  <2>2. \A c \in Cmds : /\ cmd'[c].pc = cmd[c].pc
                        /\ c # currentProcess => cmd'[c] = cmd[c]
    BY <1>a, <2>1, KilledKeeps
  <2>3. \A c \in Cmds : c = currentProcess => cmd'[c].killed
    BY <1>a, <2>1, RunnerAssumption DEF Killed, Cmd
  <2>4. UnderWay' = UnderWay
    BY <2>2 DEF UnderWay
  <2>5. \A c \in UnderWay : cmd[c].killed => cmd'[c].killed
    BY <2>2, <2>3 DEF UnderWay
  <2> QED
    BY <2>1, <2>3, <2>4, <2>5 DEF SerialExactly, UnderWay
<1>4. ASSUME NEW c \in Cmds,
             \/ \E f \in Files : Header(c, f)
             \/ \E outcome \in Outcomes : Result(c, outcome)
             \/ LateEnd(c)
      PROVE  SerialExactly'
  <2>1. UNCHANGED <<currentProcess, overlapped, currentRun>>
    BY <1>4 DEF Header, Result, LateEnd, testState, runner
  <2>2. \A d \in Cmds : /\ cmd'[d].pc = "run" <=> cmd[d].pc = "run"
                        /\ cmd'[d].pc = "run" => cmd'[d].killed = cmd[d].killed
    <3>1. ASSUME NEW f \in Files, Header(c, f)
          PROVE  \A d \in Cmds : cmd'[d].pc = cmd[d].pc /\ cmd'[d].killed = cmd[d].killed
      <4>1. cmd' = [cmd EXCEPT ![c] = SetCurrentFile(cmd[c], f)]
        BY <3>1 DEF Header
      <4>2. /\ SetCurrentFile(cmd[c], f).pc = cmd[c].pc
            /\ SetCurrentFile(cmd[c], f).killed = cmd[c].killed
        BY <1>a DEF SetCurrentFile, Cmd
      <4> QED
        BY <1>a, <4>1, <4>2
    <3>2. CASE \E outcome \in Outcomes : Result(c, outcome)
      BY <3>2 DEF Result, runner
    <3>3. CASE LateEnd(c)
      BY <1>a, <3>3 DEF LateEnd, Free
    <3> QED
      BY <1>4, <3>1, <3>2, <3>3
  <2>3. UnderWay' = UnderWay
    BY <2>2 DEF UnderWay
  <2> QED
    BY <2>1, <2>2, <2>3 DEF SerialExactly, UnderWay
<1>5. ASSUME NEW c \in Cmds, Done(c) PROVE SerialExactly'
  <2> DEFINE cs == [cmd EXCEPT ![c] = Free]
  <2>1. /\ cs \in [Cmds -> Cmd] /\ cs[c].pc # "run"
        /\ \A d \in Cmds \ {c} : cs[d] = cmd[d]
    BY <1>a DEF Free, Cmd
  <2>2. cmd[c].pc = "run" /\ GoOn(c, cs) /\ overlapped' = overlapped
    BY <1>5 DEF Done
  <2> HIDE DEF cs
  <2> QED
    BY <2>1, <2>2, EndSerial
<1>6. ASSUME NEW c \in Cmds, Timeout(c) \/ ReadFails(c) PROVE SerialExactly'
  <2>1. PICK killed \in BOOLEAN : GoOn(c, GivenUp(c, killed))
    BY <1>6, <1>a DEF Timeout, ReadFails, Cmd
  <2>2. cmd[c].pc = "run" /\ overlapped' = overlapped
    BY <1>6 DEF Timeout, ReadFails
  <2>3. /\ GivenUp(c, killed) \in [Cmds -> Cmd] /\ GivenUp(c, killed)[c].pc # "run"
        /\ \A d \in Cmds \ {c} : GivenUp(c, killed)[d] = cmd[d]
    BY <1>a, GivenUpKeeps
  <2> QED
    BY <2>1, <2>2, <2>3, EndSerial
<1>7. CASE UNCHANGED vars
  BY <1>7 DEF vars, testState, runner, SerialExactly, UnderWay
<1> QED
  BY <1>1, <1>2, <1>3, <1>4, <1>5, <1>6, <1>7 DEF Next

-----------------------------------------------------------------------------
\* The invariant of the runner, for any number of runs that overlap.
THEOREM Invariant == SafetySpec => []IInv
<1>1. Init => IInv
  BY InitInv
<1>2. IInv /\ [Next]_vars => IInv'
  BY NextInv
<1> QED
  BY <1>1, <1>2, PTL DEF SafetySpec

\* Type correctness.
THEOREM TypeCorrect == SafetySpec => []TypeOK
<1>1. IInv => TypeOK
  BY DEF IInv
<1> QED
  BY <1>1, Invariant, PTL

\* currentProcess never holds a command whose run has gone on, or one that was
\* stopped before.
THEOREM StopsWhatRuns == SafetySpec => []CurrentIsUnderWay
<1>1. IInv => CurrentIsUnderWay
  BY DEF IInv
<1> QED
  BY <1>1, Invariant, PTL

\* A file that stays marked as running, so that re-runs are refused, is one that
\* a command in flight has to do with or that one which ended early left so.
THEOREM RunningIsExplained == SafetySpec => []RunningHasCause
<1>1. IInv => RunningHasCause
  BY DEF IInv
<1> QED
  BY <1>1, Invariant, PTL

\* The status shown of a completed file is that of its last result, unless a
\* command in flight reports on it or one that was given up did (completeFileRun
\* takes the results as they are, whichever command they came from).
THEOREM StatusIsExplained == SafetySpec => []StatusMatchesResult
<1>1. Init => StatusMatchesResult /\ FreeReportsNothing
  BY ResultsInit
<1>2. IInv /\ StatusMatchesResult /\ FreeReportsNothing /\ [Next]_vars
        => StatusMatchesResult' /\ FreeReportsNothing'
  BY ResultsNext
<1> QED
  BY <1>1, <1>2, Invariant, PTL DEF SafetySpec

\* Until a run begins while another is under way one command at most is awaited,
\* currentProcess holds it unless it was stopped, and a run is current exactly
\* while there is one.
THEOREM SerialRunsAreExact == SafetySpec => []SerialIsExact
<1>1. Init => SerialExactly
  BY SerialInit
<1>2. IInv /\ SerialExactly /\ [Next]_vars => SerialExactly'
  BY SerialNext
<1>3. SerialExactly => SerialIsExact
  BY SerialCounts
<1> QED
  BY <1>1, <1>2, <1>3, Invariant, PTL DEF SafetySpec
=============================================================================
