--------------------------- MODULE ArtifactWatcher ---------------------------
(***************************************************************************)
(* Watch mode (apps/sdk-inspector/tasks/watch-artifacts.ts): all tests are *)
(* run and their results written to disk; then, half a second after the    *)
(* last change, the tests of the files it names are run again and the      *)
(* results of all written anew.                                            *)
(*                                                                         *)
(* Each step of a rebuild is awaited, and changes go on meanwhile.  Files  *)
(* that have no test are of interest only for the events they cause, which *)
(* name no others; a file that has one has one.  What is known of it,      *)
(* in memory, in a snapshot on its way to disk or on disk, is whether it   *)
(* is of the file as it is now: a change takes the file out of them all.   *)
(*                                                                         *)
(* A run ends with results for some of its files only: a command may be    *)
(* killed after its two minutes, not be spawned, or fail before its tests, *)
(* and the first run skips the tests whose environment is not there.  The  *)
(* runner tells none of this to its caller, which writes what there is.    *)
(***************************************************************************)
CONSTANTS
  Sources,   \* the files that have tests
  Rebuilds   \* names for rebuilds under way

VARIABLES
  phase,         \* "initial" until watching begins; "exited" if it does not
  due,           \* is a rebuild due?
  debounced,     \* the files of the last event, for that rebuild
  isRebuilding,  \* isRunning
  rebuild,       \* of each rebuild where it is
  testing,       \* of each rebuild: files under test and not changed since
  snapshot,      \* of each rebuild: what it has to write
  known,         \* files whose test result in memory is of the file as it is
  written,       \* files whose result on disk is of the file as it is
  writtenLog,    \* is the log on disk that of the last run?
  missed,        \* history: files that no run was begun for since their last
                 \* change, or whose last run gave no result
  writeFailed    \* history: has the last write failed?

awHistory == <<missed, writeFailed>>
awVars == <<phase, due, debounced, isRebuilding, rebuild, testing, snapshot, known,
            written, writtenLog, awHistory>>

AwInit ==
  /\ phase = "initial"
  /\ due = FALSE
  /\ debounced = {}
  /\ isRebuilding = FALSE
  /\ rebuild = [b \in Rebuilds |-> "free"]
  /\ testing = [b \in Rebuilds |-> {}]
  /\ snapshot = [b \in Rebuilds |-> {}]
  /\ known = {}
  /\ written = {}
  /\ writtenLog = FALSE
  /\ missed = {}
  /\ writeFailed = FALSE

-----------------------------------------------------------------------------
\* Files are changed: nothing that is known of them holds any longer.
Outdate(files) ==
  /\ testing' = [b \in Rebuilds |-> testing[b] \ files]
  /\ snapshot' = [b \in Rebuilds |-> snapshot[b] \ files]
  /\ known' = known \ files
  /\ written' = written \ files

\* Files are modified or created: the rebuild is due for these alone, also
\* when it was due for others.
Changed(files) ==
  /\ phase = "watching"
  /\ Outdate(files)
  /\ due' = TRUE
  /\ debounced' = files
  /\ missed' = missed \cup (debounced \ files)
  /\ UNCHANGED <<phase, isRebuilding, rebuild, writtenLog, writeFailed>>

\* No event is read of files that change before watching begins.
ChangedUnseen(files) ==
  /\ phase = "initial"
  /\ Outdate(files)
  /\ missed' = missed \cup files
  /\ UNCHANGED <<phase, due, debounced, isRebuilding, rebuild, writtenLog, writeFailed>>

\* The initial run is over, with results of the files in ended; they are
\* written, those of files that changed meanwhile too, and the other files as
\* pending, and watching begins.
InitialWritten(ended) ==
  /\ phase = "initial"
  /\ phase' = "watching"
  /\ known' = ended \ missed
  /\ written' = known'
  /\ missed' = Sources \ known'
  /\ writtenLog' = TRUE
  /\ UNCHANGED <<due, debounced, isRebuilding, rebuild, testing, snapshot, writeFailed>>

\* They cannot be written, or the files not be watched any longer: main()
\* rejects, which ends the process.
MainFails ==
  /\ phase # "exited"
  /\ phase' = "exited"
  /\ UNCHANGED <<due, debounced, isRebuilding, rebuild, testing, snapshot, known, written,
                 writtenLog, awHistory>>

\* Rebuild b begins: its run, if the files have tests, clears the log.
BeginRebuild(b) ==
  /\ rebuild[b] = "free"
  /\ isRebuilding' = TRUE
  /\ rebuild' = [rebuild EXCEPT ![b] = "testing"]
  /\ testing' = [testing EXCEPT ![b] = debounced]
  /\ writtenLog' = (writtenLog /\ debounced = {})

\* Mutant of Due: a rebuild begins although one is under way.
DueUnguarded ==
  /\ due
  /\ due' = FALSE
  /\ debounced' = {}
  /\ \E b \in Rebuilds : BeginRebuild(b)
  /\ UNCHANGED <<phase, snapshot, known, written, awHistory>>

\* Half a second has passed.  While a rebuild is under way the change is
\* dropped, not deferred.
Due ==
  /\ due
  /\ due' = FALSE
  /\ debounced' = {}
  /\ \/ ~isRebuilding /\ (\E b \in Rebuilds : BeginRebuild(b)) /\ UNCHANGED missed
     \/ /\ isRebuilding
        /\ missed' = missed \cup debounced
        /\ UNCHANGED <<isRebuilding, rebuild, testing, writtenLog>>
  /\ UNCHANGED <<phase, snapshot, known, written, writeFailed>>

\* The run is over, with results of the files in ended, and writeArtifacts takes
\* what is known by now.
Tested(b, ended) ==
  /\ rebuild[b] = "testing"
  /\ rebuild' = [rebuild EXCEPT ![b] = "writing"]
  /\ known' = known \cup ended
  /\ snapshot' = [snapshot EXCEPT ![b] = known']
  /\ missed' = (missed \cup testing[b]) \ ended
  /\ testing' = [testing EXCEPT ![b] = {}]
  /\ UNCHANGED <<phase, due, debounced, isRebuilding, written, writtenLog, writeFailed>>

\* test-results.json is written.
WatchResultsWritten(b) ==
  /\ rebuild[b] = "writing"
  /\ rebuild' = [rebuild EXCEPT ![b] = "logging"]
  /\ written' = snapshot[b]
  /\ snapshot' = [snapshot EXCEPT ![b] = {}]
  /\ UNCHANGED <<phase, due, debounced, isRebuilding, testing, known, writtenLog, awHistory>>

\* test-logs.txt is written, with the log as it is by then, and the rebuild is
\* over.
WatchLogWritten(b) ==
  /\ rebuild[b] = "logging"
  /\ rebuild' = [rebuild EXCEPT ![b] = "free"]
  /\ isRebuilding' = FALSE
  /\ writtenLog' = (\A o \in Rebuilds : rebuild[o] # "testing")
  /\ writeFailed' = FALSE
  /\ UNCHANGED <<phase, due, debounced, testing, snapshot, known, written, missed>>

\* Mutant of RebuildFails: the flag is reset only when all went well.
RebuildFailsStuck(b) ==
  /\ rebuild[b] \in {"writing", "logging"}
  /\ rebuild' = [rebuild EXCEPT ![b] = "free"]
  /\ snapshot' = [snapshot EXCEPT ![b] = {}]
  /\ writeFailed' = TRUE
  /\ UNCHANGED <<phase, due, debounced, isRebuilding, testing, known, written, writtenLog, missed>>

\* A write fails, which ends the rebuild.
RebuildFails(b) ==
  /\ rebuild[b] \in {"writing", "logging"}
  /\ rebuild' = [rebuild EXCEPT ![b] = "free"]
  /\ isRebuilding' = FALSE
  /\ snapshot' = [snapshot EXCEPT ![b] = {}]
  /\ writeFailed' = TRUE
  /\ UNCHANGED <<phase, due, debounced, testing, known, written, writtenLog, missed>>

AwNext ==
  \/ \E files \in SUBSET Sources :
       Changed(files) \/ ChangedUnseen(files) \/ InitialWritten(files)
  \/ MainFails
  \/ phase = "watching" /\ Due
  \/ \E b \in Rebuilds :
       /\ phase = "watching"
       /\ \/ \E ended \in SUBSET testing[b] : Tested(b, ended)
          \/ WatchResultsWritten(b) \/ WatchLogWritten(b) \/ RebuildFails(b)
  \/ phase = "exited" /\ UNCHANGED awVars

AwSpec == AwInit /\ [][AwNext]_awVars

-----------------------------------------------------------------------------
\* The variables have the types of what they model.
AwTypeOK ==
  /\ phase \in {"initial", "watching", "exited"}
  /\ due \in BOOLEAN
  /\ debounced \subseteq Sources
  /\ isRebuilding \in BOOLEAN
  /\ rebuild \in [Rebuilds -> {"free", "testing", "writing", "logging"}]
  /\ testing \in [Rebuilds -> SUBSET Sources]
  /\ snapshot \in [Rebuilds -> SUBSET Sources]
  /\ known \subseteq Sources
  /\ written \subseteq Sources
  /\ writtenLog \in BOOLEAN
  /\ missed \subseteq Sources
  /\ writeFailed \in BOOLEAN

\* When nothing is due or under way and the last write went well, what is on
\* disk is of the files as they are, with the log of the last run, except for
\* the files that no run was begun for since they changed (in the initial run's
\* time, when another event took the place of theirs, or during a rebuild, which
\* drops it) and those whose last run, also the initial one, gave no result.
OnDiskIsCurrent ==
  phase = "watching" /\ ~due /\ ~isRebuilding /\ ~writeFailed =>
    Sources \ missed \subseteq written /\ writtenLog

\* What makes it so.  The flag keeps rebuilds apart.
OneRebuild ==
  /\ isRebuilding <=> \E b \in Rebuilds : rebuild[b] # "free"
  /\ \A b, c \in Rebuilds : rebuild[b] # "free" /\ rebuild[c] # "free" => b = c
  /\ \A b \in Rebuilds : testing[b] # {} => rebuild[b] = "testing"
  /\ debounced # {} => due
  /\ phase = "initial" => ~due /\ ~isRebuilding

\* A file is known, and part of what is written and of what is on disk, or it is
\* under test, going to be tested, or missed.
UnderTest == {f \in Sources : \E b \in Rebuilds : f \in testing[b]}

Accounted(files) == Sources \subseteq files \cup missed \cup debounced

NoneIsForgotten ==
  phase = "watching" =>
    /\ Accounted(known \cup UnderTest)
    /\ \A b \in Rebuilds :
         /\ rebuild[b] = "writing" => Accounted(snapshot[b])
         /\ rebuild[b] = "logging" => Accounted(written)
    /\ ~isRebuilding /\ ~writeFailed => Accounted(written) /\ writtenLog

\* The invariant of watch mode: the types, and what is on disk.
AwInv == AwTypeOK /\ OnDiskIsCurrent /\ OneRebuild /\ NoneIsForgotten

\* A rebuild ends, whether its tests end, are given up after their time, or its
\* files cannot be written: or every later change would be dropped.
RebuildsEnd == isRebuilding ~> ~isRebuilding \/ phase = "exited"
=============================================================================
