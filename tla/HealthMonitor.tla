---------------------------- MODULE HealthMonitor ----------------------------
(***************************************************************************)
(* HealthMonitor (apps/sdk-inspector/services/health-monitor.ts) with the  *)
(* requests that reach it (routes/health.ts): services are asked for their *)
(* health every pollInterval and when a request forces it, and what the    *)
(* last answer was is shown.                                               *)
(*                                                                         *)
(* The list of services and what is shown of them are two structures.      *)
(* Services are added under an id that may be listed already, and removed  *)
(* by it; a check under way goes on for the entry it began with, and       *)
(* writes its answer under the id, listed or not.                          *)
(***************************************************************************)
EXTENDS Naturals

CONSTANTS
  Ids,          \* ids of services
  Urls,         \* where they may be asked
  Entries,      \* the services: pairs of an id and a url
  AtFirst,      \* those of the configuration
  Forced,       \* POST /health/check requests, one at a time each
  MaxTimeouts   \* bound: answers of healthy services that come too late

ASSUME HealthAssumption ==
  /\ Entries \subseteq Ids \X Urls
  /\ AtFirst \subseteq Entries
  /\ "poll" \notin Forced
  /\ MaxTimeouts \in Nat

VARIABLES
  isRunning,  \* is the interval set?
  services,   \* the list; one entry that is in it twice is asked twice
  shown,      \* healthState: of each id its status, or "none"
  check,      \* of each round and entry: "idle", "asking", or the answer
  up,         \* external: is the service well, and answers in time?
  timeouts,   \* late answers so far
  orphaned    \* history: ids removed with a check under way, not added since

hmVars == <<isRunning, services, shown, check, up, timeouts, orphaned>>

\* A poll is over before the next one is due: a check takes 5 s at most, the
\* interval is 10 s.  Forced rounds come at any time.
Rounds == {"poll"} \cup Forced
Settled(k) == \A e \in Entries : check[k][e] = "idle"
Checked(id) == \E k \in Rounds, e \in Entries : e[1] = id /\ check[k][e] # "idle"
Listed(id) == \E e \in services : e[1] = id

HmInit ==
  /\ isRunning = FALSE
  /\ services = AtFirst
  /\ shown = [id \in Ids |-> IF \E e \in AtFirst : e[1] = id THEN "unknown" ELSE "none"]
  /\ check = [k \in Rounds |-> [e \in Entries |-> "idle"]]
  /\ up \in [Urls -> BOOLEAN]
  /\ timeouts = 0
  /\ orphaned = {}

-----------------------------------------------------------------------------
\* Mutant of CheckAll: the services of the configuration are asked.
CheckAllAtFirst(k) ==
  check' = [check EXCEPT ![k] = [e \in Entries |-> IF e \in AtFirst THEN "asking" ELSE "idle"]]

\* checkAll: all services of the list are asked at once.
CheckAll(k) ==
  check' = [check EXCEPT ![k] = [e \in Entries |-> IF e \in services THEN "asking" ELSE "idle"]]

\* start(): the first round at once, the next ones by the interval.  It is not
\* started again before the checks of the time before are over.
HmStart ==
  /\ ~isRunning
  /\ Settled("poll")
  /\ isRunning' = TRUE
  /\ CheckAll("poll")
  /\ UNCHANGED <<services, shown, up, timeouts, orphaned>>

HmPoll ==
  /\ isRunning
  /\ Settled("poll")
  /\ CheckAll("poll")
  /\ UNCHANGED <<isRunning, services, shown, up, timeouts, orphaned>>

\* stop(): checks under way go on.
HmStop ==
  /\ isRunning
  /\ isRunning' = FALSE
  /\ UNCHANGED <<services, shown, check, up, timeouts, orphaned>>

\* forceCheck(), running or not.
ForceCheck(k) ==
  /\ Settled(k)
  /\ CheckAll(k)
  /\ UNCHANGED <<isRunning, services, shown, up, timeouts, orphaned>>

\* fetch: the answer is what the service is at one moment, and on its way to
\* the monitor then.  A service that is not well refuses, answers with an
\* error, or not within 5 s, which all count as unhealthy.
Answer(k, e) ==
  /\ check[k][e] = "asking"
  /\ check' = [check EXCEPT ![k][e] = IF up[e[2]] THEN "healthy" ELSE "unhealthy"]
  /\ UNCHANGED <<isRunning, services, shown, up, timeouts, orphaned>>

\* A service that is well may be late as well.
TimesOut(k, e) ==
  /\ check[k][e] = "asking"
  /\ timeouts < MaxTimeouts
  /\ timeouts' = timeouts + 1
  /\ check' = [check EXCEPT ![k][e] = "unhealthy"]
  /\ UNCHANGED <<isRunning, services, shown, up, orphaned>>

\* The answer is written under the id, whatever is listed by then.
Record(k, e) ==
  /\ check[k][e] \in {"healthy", "unhealthy"}
  /\ shown' = [shown EXCEPT ![e[1]] = check[k][e]]
  /\ check' = [check EXCEPT ![k][e] = "idle"]
  /\ UNCHANGED <<isRunning, services, up, timeouts, orphaned>>

\* POST /health/services: also for an id that is listed already.
AddService(e) ==
  /\ services' = services \cup {e}
  /\ shown' = [shown EXCEPT ![e[1]] = "unknown"]
  /\ orphaned' = orphaned \ {e[1]}
  /\ UNCHANGED <<isRunning, check, up, timeouts>>

\* Mutant of RemoveService: one entry of the id is taken from the list.
RemoveOne(id) ==
  /\ shown[id] # "none"
  /\ services' = services \ {CHOOSE e \in Entries : e[1] = id}
  /\ shown' = [shown EXCEPT ![id] = "none"]
  /\ orphaned' = IF Checked(id) THEN orphaned \cup {id} ELSE orphaned \ {id}
  /\ UNCHANGED <<isRunning, check, up, timeouts>>

\* DELETE /health/services/:id, 404 when nothing is shown of it.
RemoveService(id) ==
  /\ shown[id] # "none"
  /\ services' = {e \in services : e[1] # id}
  /\ shown' = [shown EXCEPT ![id] = "none"]
  /\ orphaned' = IF Checked(id) THEN orphaned \cup {id} ELSE orphaned \ {id}
  /\ UNCHANGED <<isRunning, check, up, timeouts>>

\* External: a service breaks down or comes back.
UpOrDown(u) ==
  /\ up' = [up EXCEPT ![u] = ~@]
  /\ UNCHANGED <<isRunning, services, shown, check, timeouts, orphaned>>

HmNext ==
  \/ HmStart \/ HmPoll \/ HmStop
  \/ \E k \in Forced : ForceCheck(k)
  \/ \E k \in Rounds, e \in Entries : Answer(k, e) \/ TimesOut(k, e) \/ Record(k, e)
  \/ \E e \in Entries : AddService(e)
  \/ \E id \in Ids : RemoveService(id)
  \/ \E u \in Urls : UpOrDown(u)

HmSpec == HmInit /\ [][HmNext]_hmVars

-----------------------------------------------------------------------------
\* GET /health.
Overall == IF \E id \in Ids : shown[id] = "unhealthy" THEN "degraded" ELSE "healthy"

\* The variables have the types of what they model.
HmTypeOK ==
  /\ isRunning \in BOOLEAN
  /\ services \subseteq Entries
  /\ shown \in [Ids -> {"none", "unknown", "healthy", "unhealthy"}]
  /\ check \in [Rounds -> [Entries -> {"idle", "asking", "healthy", "unhealthy"}]]
  /\ up \in [Urls -> BOOLEAN]
  /\ timeouts \in 0 .. MaxTimeouts
  /\ orphaned \subseteq Ids

\* A service is shown exactly while it is listed.  The exception is one that
\* was removed during a check, whose answer brings it back for good: it is
\* asked no more, and shown until it is removed again.
ShownIsListed ==
  \A id \in Ids :
    /\ Listed(id) => shown[id] # "none"
    /\ shown[id] # "none" /\ ~Listed(id) => id \in orphaned

\* What makes it so: a check under way is of an id that is listed, or that was
\* removed with one under way.
ChecksAreKnown == \A id \in Ids : Checked(id) /\ ~Listed(id) => id \in orphaned

HmIInv == HmTypeOK /\ ShownIsListed /\ ChecksAreKnown

\* Under a monitor that runs, once a service is the only one of its id and
\* stays well, or stays out of order, the other status is shown no more, the
\* right one again after every time the service is added anew, and one that is
\* out of order counts in what GET /health says, whatever older checks and
\* those of other entries had to say.
ShowsTheAnswer ==
  \A e \in Entries, well \in BOOLEAN :
    <>[](/\ isRunning
         /\ {s \in services : s[1] = e[1]} = {e}
         /\ up[e[2]] = well)
      => /\ <>[](shown[e[1]] # (IF well THEN "unhealthy" ELSE "healthy"))
         /\ []<>(/\ shown[e[1]] = (IF well THEN "healthy" ELSE "unhealthy")
                 /\ ~well => Overall = "degraded")
=============================================================================
