----------------------------- MODULE FileWatcher -----------------------------
(***************************************************************************)
(* FileWatcher (apps/sdk-inspector/services/file-watcher.ts): reads file   *)
(* system events while it runs and tells its owner of the last one once    *)
(* none has come for half a second.                                        *)
(*                                                                         *)
(* start() awaits before it opens a watcher, so that stop() may come in    *)
(* between: the watcher is then opened all the same, nothing closes it,    *)
(* and its loop ends with the first event it sees while the watcher is     *)
(* stopped, or goes on if it has been started again.                       *)
(***************************************************************************)
EXTENDS Naturals

CONSTANTS
  StartCalls,  \* calls of start() that find the watcher stopped
  TsEvents,    \* the events that name TypeScript files
  OtherEvent,  \* any other event
  NoEvent,     \* nothing is pending
  NoWatcher    \* null

ASSUME FileWatcherAssumption ==
  /\ NoWatcher \notin StartCalls
  /\ NoEvent \notin TsEvents

VARIABLES
  fwRunning,  \* isRunning
  watcher,    \* the watcher stop() would close, named by its start()
  loop,       \* of each start(): "new", "stat" while it awaits, then "open"
              \* while the loop on its watcher runs, "over"
  pending,    \* the debounced call: the last event
  told,       \* what the owner was told last
  lateTells   \* history: how often it was told since the last stop()

fwVars == <<fwRunning, watcher, loop, pending, told, lateTells>>

FwInit ==
  /\ fwRunning = FALSE
  /\ watcher = NoWatcher
  /\ loop = [s \in StartCalls |-> "new"]
  /\ pending = NoEvent
  /\ told = NoEvent
  /\ lateTells = 0

-----------------------------------------------------------------------------
\* start() up to its first await.
FwStart(s) ==
  /\ ~fwRunning
  /\ loop[s] = "new"
  /\ fwRunning' = TRUE
  /\ loop' = [loop EXCEPT ![s] = "stat"]
  /\ lateTells' = 0
  /\ UNCHANGED <<watcher, pending, told>>

\* The path is not there: start() returns, and the watcher counts as running.
FwNoPath(s) ==
  /\ loop[s] = "stat"
  /\ loop' = [loop EXCEPT ![s] = "over"]
  /\ UNCHANGED <<fwRunning, watcher, pending, told, lateTells>>

\* The watcher is opened, without another look at isRunning.
FwOpen(s) ==
  /\ loop[s] = "stat"
  /\ loop' = [loop EXCEPT ![s] = "open"]
  /\ watcher' = s
  /\ UNCHANGED <<fwRunning, pending, told, lateTells>>

FwOpenFails(s) ==
  /\ loop[s] = "stat"
  /\ loop' = [loop EXCEPT ![s] = "over"]
  /\ fwRunning' = FALSE
  /\ lateTells' = 0
  /\ UNCHANGED <<watcher, pending, told>>

\* Mutant of Event: the loop does not look whether the watcher is stopped.
EventAnyTime(s, e) ==
  /\ loop[s] = "open"
  /\ pending' = IF e \in TsEvents THEN e ELSE pending
  /\ UNCHANGED <<fwRunning, watcher, loop, told, lateTells>>

\* processEvents: the event takes the place of one that is pending, and the
\* half second begins anew; the loop of a stopped watcher ends, and closes it.
Event(s, e) ==
  /\ loop[s] = "open"
  /\ IF ~fwRunning
     THEN loop' = [loop EXCEPT ![s] = "over"] /\ UNCHANGED pending
     ELSE pending' = (IF e \in TsEvents THEN e ELSE pending) /\ UNCHANGED loop
  /\ UNCHANGED <<fwRunning, watcher, told, lateTells>>

\* The watcher fails, which ends its loop.
WatcherFails(s) ==
  /\ loop[s] = "open"
  /\ loop' = [loop EXCEPT ![s] = "over"]
  /\ UNCHANGED <<fwRunning, watcher, pending, told, lateTells>>

\* broadcast: half a second has passed, and the owner is told.
Broadcast ==
  /\ pending # NoEvent
  /\ told' = pending
  /\ pending' = NoEvent
  /\ lateTells' = IF fwRunning THEN lateTells ELSE lateTells + 1
  /\ UNCHANGED <<fwRunning, watcher, loop>>

\* stop(): closes the watcher it knows, if any; the debounced call stays.
FwStop ==
  /\ fwRunning
  /\ fwRunning' = FALSE
  /\ watcher' = NoWatcher
  /\ loop' = IF watcher = NoWatcher THEN loop ELSE [loop EXCEPT ![watcher] = "over"]
  /\ lateTells' = 0
  /\ UNCHANGED <<pending, told>>

\* start() of a running watcher and stop() of a stopped one do nothing.
FwIdle == UNCHANGED fwVars

FwNext ==
  \/ \E s \in StartCalls :
       \/ FwStart(s) \/ FwNoPath(s) \/ FwOpen(s) \/ FwOpenFails(s) \/ WatcherFails(s)
       \/ \E e \in TsEvents \cup {OtherEvent} : Event(s, e)
  \/ Broadcast \/ FwStop \/ FwIdle

FwSpec == FwInit /\ [][FwNext]_fwVars

-----------------------------------------------------------------------------
\* The variables have the types of what they model.
FwTypeOK ==
  /\ fwRunning \in BOOLEAN
  /\ watcher \in StartCalls \cup {NoWatcher}
  /\ loop \in [StartCalls -> {"new", "stat", "open", "over"}]
  /\ pending \in TsEvents \cup {NoEvent}
  /\ told \in TsEvents \cup {NoEvent}
  /\ lateTells \in Nat

\* After stop() the owner is told of one event at most, the one that was
\* pending, however many watchers are still open.
AtMostOneLateTell == lateTells <= 1

\* What makes it so: after a late call nothing is pending, and nothing becomes so
\* while the watcher is stopped.
LateTellWasTheLast == lateTells = 0 \/ (~fwRunning /\ pending = NoEvent)

\* The invariant of the file watcher: it has its types, and no stop() is
\* followed by more than one late call, whatever is open and pending.
FwInv == FwTypeOK /\ AtMostOneLateTell /\ LateTellWasTheLast
=============================================================================
