------------------------------ MODULE Artifacts ------------------------------
(***************************************************************************)
(* What TestState writes when a run is complete                            *)
(* (apps/sdk-inspector/services/test-state.ts): the results with their     *)
(* source, the run's metadata and the log, under a B3nd URI if there is    *)
(* one, and to disk.                                                       *)
(*                                                                         *)
(* The write is not awaited, and reads what it writes at several moments:  *)
(* the results at once, the metadata when all source has been read, the    *)
(* log each time it begins to write it.  Meanwhile the next run may begin, *)
(* which empties the log, and be complete, which starts a write of its     *)
(* own.                                                                    *)
(*                                                                         *)
(* Of each part that is held or written somewhere the model knows whether  *)
(* it is of the run that was completed last: a completed run makes all of  *)
(* them old.  Runs themselves come one after the other; what runs beside   *)
(* each other make of the metadata is ContinuousRunner's.                  *)
(***************************************************************************)
CONSTANTS
  Writers,   \* bound: names for the writes under way
  HasB3nd    \* is b3ndUri configured?

ASSUME ArtifactsAssumption == HasB3nd \in BOOLEAN

Parts == {"results", "metadata", "log"}

VARIABLES
  running,   \* is a run under way?
  everRun,   \* has one been completed?
  writer,    \* of each writer where it is
  held,      \* of each writer: the parts it holds that are of the last run
  disk,      \* the parts on disk that are of the last run
  b3nd,      \* the parts under the URI that are of the last run
  disturbed, \* history: has another run begun, or another write been under
             \* way, during the write of the last run?
  failed     \* history: has a write failed since the last run was completed?

arVars == <<running, everRun, writer, held, disk, b3nd, disturbed, failed>>

Writing == {w \in Writers : writer[w] # "free"}

ArInit ==
  /\ running = FALSE
  /\ everRun = FALSE
  /\ writer = [w \in Writers |-> "free"]
  /\ held = [w \in Writers |-> {}]
  /\ disk = {}
  /\ b3nd = {}
  /\ disturbed = FALSE
  /\ failed = FALSE

-----------------------------------------------------------------------------
\* What is taken of the log: all of the last run's, or part of a newer one's.
LogNow == IF running THEN {} ELSE {"log"}

Replace(place, parts, now) == (place \ parts) \cup now

\* startRun: empties the log.
BeginRun ==
  /\ ~running
  /\ running' = TRUE
  /\ disturbed' = (disturbed \/ Writing # {})
  /\ UNCHANGED <<everRun, writer, held, disk, b3nd, failed>>

\* completeRun: the metadata of the run becomes the last one's, and a writer
\* takes the results.
CompleteRun(w) ==
  /\ running
  /\ writer[w] = "free"
  /\ running' = FALSE
  /\ everRun' = TRUE
  /\ writer' = [writer EXCEPT ![w] = "reading"]
  /\ held' = [v \in Writers |-> IF v = w THEN {"results"} ELSE {}]
  /\ disk' = {}
  /\ b3nd' = {}
  /\ disturbed' = (Writing # {})
  /\ failed' = FALSE

\* Mutant of SourceRead: the metadata is not the last run's yet.
SourceReadTooSoon(w) ==
  /\ writer[w] = "reading"
  /\ writer' = [writer EXCEPT ![w] = IF HasB3nd THEN "sending" ELSE "writing"]
  /\ UNCHANGED <<running, everRun, held, disk, b3nd, disturbed, failed>>

\* buildArtifact: the source is read, and the metadata taken as it is by now.
SourceRead(w) ==
  /\ writer[w] = "reading"
  /\ writer' = [writer EXCEPT ![w] = IF HasB3nd THEN "sending" ELSE "writing"]
  /\ held' = [held EXCEPT ![w] = @ \cup {"metadata"}]
  /\ UNCHANGED <<running, everRun, disk, b3nd, disturbed, failed>>

\* The artifact is sent to B3nd: accepted, refused (not sent at all when there
\* is no b3ndUrl), or not answered, and then it may have been accepted.  The
\* log follows only what was accepted, and is taken as it is by now.
ResultsSent(w, there, ok) ==
  /\ writer[w] = "sending"
  /\ ok => there
  /\ writer' = [writer EXCEPT ![w] = IF ok THEN "sendingLog" ELSE "writing"]
  /\ b3nd' = IF there THEN Replace(b3nd, {"results", "metadata"}, held[w]) ELSE b3nd
  /\ held' = [held EXCEPT ![w] = IF ok THEN @ \cup LogNow ELSE @]
  /\ failed' = (failed \/ ~ok)
  /\ UNCHANGED <<running, everRun, disk, disturbed>>

LogSent(w, there) ==
  /\ writer[w] = "sendingLog"
  /\ writer' = [writer EXCEPT ![w] = "writing"]
  /\ b3nd' = IF there THEN Replace(b3nd, {"log"}, held[w] \cap {"log"}) ELSE b3nd
  /\ held' = [held EXCEPT ![w] = @ \ {"log"}]
  /\ failed' = (failed \/ ~there)
  /\ UNCHANGED <<running, everRun, disk, disturbed>>

\* test-results.json; then the log is taken.
ResultsWritten(w) ==
  /\ writer[w] = "writing"
  /\ writer' = [writer EXCEPT ![w] = "logging"]
  /\ disk' = Replace(disk, {"results", "metadata"}, held[w])
  /\ held' = [held EXCEPT ![w] = LogNow]
  /\ UNCHANGED <<running, everRun, b3nd, disturbed, failed>>

\* test-logs.txt.
LogWritten(w) ==
  /\ writer[w] = "logging"
  /\ writer' = [writer EXCEPT ![w] = "free"]
  /\ disk' = Replace(disk, {"log"}, held[w])
  /\ held' = [held EXCEPT ![w] = {}]
  /\ UNCHANGED <<running, everRun, b3nd, disturbed, failed>>

\* A file cannot be written, which ends the write.
WriteRejects(w) ==
  /\ writer[w] \in {"writing", "logging"}
  /\ writer' = [writer EXCEPT ![w] = "free"]
  /\ held' = [held EXCEPT ![w] = {}]
  /\ failed' = TRUE
  /\ UNCHANGED <<running, everRun, disk, b3nd, disturbed>>

ArNext ==
  \/ BeginRun
  \/ \E w \in Writers :
       \/ CompleteRun(w) \/ SourceRead(w)
       \/ \E there, ok \in BOOLEAN : ResultsSent(w, there, ok)
       \/ \E there \in BOOLEAN : LogSent(w, there)
       \/ ResultsWritten(w) \/ LogWritten(w) \/ WriteRejects(w)

ArSpec == ArInit /\ [][ArNext]_arVars

-----------------------------------------------------------------------------
\* The variables have the types of what they model.
ArTypeOK ==
  /\ running \in BOOLEAN
  /\ everRun \in BOOLEAN
  /\ writer \in [Writers -> {"free", "reading", "sending", "sendingLog", "writing", "logging"}]
  /\ held \in [Writers -> SUBSET Parts]
  /\ disk \subseteq Parts
  /\ b3nd \subseteq Parts
  /\ disturbed \in BOOLEAN
  /\ failed \in BOOLEAN

\* Results of the last run are nowhere written beside the metadata of an older
\* one; and when the last run's write was over before the next one began,
\* beside no other write, and nothing failed, then all parts are of that run,
\* on disk and under the URI, until the next run is complete.
ArtifactsMatch ==
  /\ "results" \in disk => "metadata" \in disk
  /\ "results" \in b3nd => "metadata" \in b3nd
  /\ everRun /\ Writing = {} /\ ~disturbed /\ ~failed =>
       disk = Parts /\ (HasB3nd => b3nd = Parts)

\* What makes it so.  A writer holds results beside the metadata of their run once
\* it has that, a log only while it writes it, and nothing else by the last.
HeldMatch ==
  \A w \in Writers :
    /\ "results" \in held[w] => writer[w] = "reading" \/ "metadata" \in held[w]
    /\ "log" \in held[w] => writer[w] \in {"sendingLog", "logging"}
    /\ writer[w] = "logging" => held[w] \subseteq {"log"}
    /\ writer[w] = "free" => held[w] = {}
    /\ writer[w] # "free" => everRun
    /\ writer[w] \in {"sending", "sendingLog"} => HasB3nd

\* A writer that is alone has the parts of the last run, or has written them.
LoneWriterIsExact ==
  ~disturbed => \A w \in Writing :
    /\ Writing = {w}
    /\ ~running
    /\ writer[w] # "logging" => "results" \in held[w]
    /\ writer[w] \in {"sendingLog", "logging"} => "log" \in held[w]
    /\ writer[w] = "logging" => {"results", "metadata"} \subseteq disk
    /\ writer[w] = "sendingLog" => {"results", "metadata"} \subseteq b3nd
    /\ writer[w] \in {"writing", "logging"} /\ HasB3nd /\ ~failed => b3nd = Parts

\* The invariant of the artifacts: they have their types, and match.
ArInv == ArTypeOK /\ ArtifactsMatch /\ HeldMatch /\ LoneWriterIsExact
=============================================================================
