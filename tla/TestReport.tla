----------------------------- MODULE TestReport -----------------------------
(***************************************************************************)
(* The output of `deno test`, read twice: by the inspector's server, which *)
(* keeps results by file and name from run to run (continuous-runner.ts    *)
(* parseLine, test-state.ts), and by the build of the dashboard, which     *)
(* lists what one run has printed (tasks/build-artifacts.ts).  Both write  *)
(* test-results.json, with a summary and a table of files.                 *)
(*                                                                         *)
(* A line is a file's header or a test's result; t.step() results are such *)
(* lines too, so that a name may come twice in a file.                     *)
(***************************************************************************)
EXTENDS Naturals, Sequences, FiniteSets

CONSTANTS
  ReportFiles,  \* the test files the server knows
  Tests,        \* pairs of a file and a name
  NoHeader,     \* no header came yet
  MaxResults    \* bound: results in the output

ASSUME TestReportAssumption ==
  /\ IsFiniteSet(ReportFiles) /\ IsFiniteSet(Tests)
  /\ Tests \subseteq ReportFiles \X {t[2] : t \in Tests}
  /\ NoHeader \notin ReportFiles
  /\ MaxResults \in Nat

TestStatuses == {"passed", "failed", "skipped"}

VARIABLES
  earlier,     \* what the server knew of the tests before this run
  tests,       \* what it knows by now
  allResults,  \* what the build has listed
  current      \* the file whose header came last

rpVars == <<earlier, tests, allResults, current>>

RpInit ==
  /\ earlier \in [Tests -> TestStatuses \cup {"none"}]
  /\ tests = earlier
  /\ allResults = <<>>
  /\ current = NoHeader

-----------------------------------------------------------------------------
\* Mutant of UpdateResult: a result that is known is not replaced.
UpdateOnce(t, s) == tests' = [tests EXCEPT ![t] = IF @ = "none" THEN s ELSE @]

\* updateTestResult: by name, whatever was known of it.
UpdateResult(t, s) == tests' = [tests EXCEPT ![t] = s]

\* runAndParse: one more result.
ListResult(t, s) == allResults' = Append(allResults, [test |-> t, status |-> s])

\* A header line.
HeaderLine(f) ==
  /\ current # f
  /\ current' = f
  /\ UNCHANGED <<earlier, tests, allResults>>

\* A result line, which is of the file of the last header.
ResultLine(t, s) ==
  /\ Len(allResults) < MaxResults
  /\ t[1] = current
  /\ UpdateResult(t, s)
  /\ ListResult(t, s)
  /\ UNCHANGED <<earlier, current>>

RpNext ==
  \/ \E f \in ReportFiles : HeaderLine(f)
  \/ \E t \in Tests, s \in TestStatuses : ResultLine(t, s)

RpSpec == RpInit /\ [][RpNext]_rpVars

-----------------------------------------------------------------------------
\* main(): the counts of the build's summary, and its table of files: the
\* status of a file is that of its first test unless one failed.
BuildCount(s) == Cardinality({i \in DOMAIN allResults : allResults[i].status = s})
BuildTotal == Len(allResults)

OfFile(f) == {i \in DOMAIN allResults : allResults[i].test[1] = f}

BuildFile(f) ==
  IF \E i \in OfFile(f) : allResults[i].status = "failed" THEN "failed"
  ELSE LET first == CHOOSE i \in OfFile(f) : \A j \in OfFile(f) : i <= j
       IN  allResults[first].status

\* getSummary(): the server's counts; a file without a test counts as one.
StateCount(s) == Cardinality({t \in Tests : tests[t] = s})
NoTests == {f \in ReportFiles : \A t \in Tests : t[1] = f => tests[t] = "none"}
StateTotal == Cardinality({t \in Tests : tests[t] # "none"}) + Cardinality(NoTests)

\* completeFileRun(): a file without a failed test has passed.
StateFile(f) == IF \E t \in Tests : t[1] = f /\ tests[t] = "failed" THEN "failed" ELSE "passed"

-----------------------------------------------------------------------------
\* The variables have the types of what they model.
RpTypeOK ==
  /\ earlier \in [Tests -> TestStatuses \cup {"none"}]
  /\ tests \in [Tests -> TestStatuses \cup {"none"}]
  /\ allResults \in Seq([test : Tests, status : TestStatuses])
  /\ Len(allResults) <= MaxResults
  /\ current \in ReportFiles \cup {NoHeader}

Reported == {allResults[i].test : i \in DOMAIN allResults}
Twice == {t \in Tests : \E i, j \in DOMAIN allResults :
                          i # j /\ allResults[i].test = t /\ allResults[j].test = t}
NotReported(s) == Cardinality({t \in Tests \ Reported : earlier[t] = s})

\* The two readings of one output agree: the server's counts are the build's
\* and those of the tests this run did not report, which keep the result they
\* had, also when they are no more; what the server calls a failed file has
\* failed in the build as well, or had a failed test before that was not
\* reported again; and the other way round.  Only a name that comes twice in a
\* file sets them apart: the server knows the last result of it, so that a
\* failure is lost to a later result, and the build lists both.
BuildAgreesWithState ==
  /\ Twice = {} => /\ \A s \in TestStatuses : StateCount(s) = BuildCount(s) + NotReported(s)
                   /\ StateTotal = BuildTotal + Cardinality(NoTests)
                        + Cardinality({t \in Tests \ Reported : earlier[t] # "none"})
  /\ \A f \in ReportFiles : OfFile(f) # {} =>
       /\ StateFile(f) = "failed" => \/ BuildFile(f) = "failed"
                                     \/ \E t \in Tests \ Reported : t[1] = f /\ earlier[t] = "failed"
       /\ BuildFile(f) = "failed" => \/ StateFile(f) = "failed"
                                     \/ \E t \in Twice : t[1] = f

\* What the server knows of a test is the last result that the build has listed
\* of it, or what it knew before where the build has none.
KnowsTheLast ==
  \A t \in Tests :
    \/ t \notin Reported /\ tests[t] = earlier[t]
    \/ \E i \in DOMAIN allResults :
         /\ allResults[i] = [test |-> t, status |-> tests[t]]
         /\ \A j \in DOMAIN allResults : allResults[j].test = t => j <= i

\* The invariant of the reports: they have their types, and agree.
RpInv == RpTypeOK /\ KnowsTheLast /\ BuildAgreesWithState
=============================================================================
