--------------------------- MODULE MCNodeServices ---------------------------
(* Small instances of the node's executors and of the two ways to start a  *)
(* network, which share nothing: a behaviour is one of any of them.        *)
EXTENDS PgExecutor, FsExecutor, LocalNetwork, ComposeServices

VARIABLE service  \* the one this behaviour is of

Init == service \in {"pg", "fs", "network", "compose"} /\ PgInit /\ FsInit /\ LnInit /\ CsInit

Next ==
  \/ service = "pg" /\ PgNext /\ UNCHANGED <<fsVars, lnVars, csVars, service>>
  \/ service = "fs" /\ FsNext /\ UNCHANGED <<pgVars, lnVars, csVars, service>>
  \/ service = "network" /\ LnNext /\ UNCHANGED <<pgVars, fsVars, csVars, service>>
  \/ service = "compose" /\ CsNext /\ UNCHANGED <<pgVars, fsVars, lnVars, service>>

allVars == <<pgVars, fsVars, lnVars, csVars, service>>

\* A process that got a SIGTERM ends, and stop() goes on.
Fairness ==
  /\ \A n \in Nodes :
       WF_allVars(/\ service = "network" /\ process[n] = "dying" /\ ProcessEnds(n)
                  /\ UNCHANGED <<pgVars, fsVars, csVars, service>>)
  /\ \A c \in StopCalls :
       WF_allVars(/\ service = "network" /\ (Kill(c) \/ ProcessStopped(c))
                  /\ UNCHANGED <<pgVars, fsVars, csVars, service>>)

Spec == Init /\ [][Next]_allVars /\ Fairness

-----------------------------------------------------------------------------
MCNodeNames == {"Node 1", "node-1", "Mongo", "Config Server"}
MCSanitizeServiceName(name) ==
  CASE name \in {"Node 1", "node-1"} -> "node-1"
    [] name = "Mongo"                -> "mongo"
    [] name = "Config Server"        -> "config-server"
=============================================================================
