----------------------------- MODULE MCInspector -----------------------------
(* Small instances of the inspector's services, which share nothing here: a *)
(* behaviour is one of any of them.                                         *)
EXTENDS TestRunner, HealthMonitor, FileWatcher, ArtifactWatcher, Artifacts, TestReport

VARIABLE service  \* the service this behaviour is of

Init ==
  /\ service \in {"runner", "health", "watcher", "rebuild", "artifacts", "report"}
  /\ TrInit
  /\ IF service = "health" THEN HmInit ELSE HmInit /\ \A u \in Urls : up[u]
  /\ FwInit
  /\ AwInit
  /\ ArInit
  /\ IF service = "report" THEN RpInit ELSE RpInit /\ \A t \in Tests : tests[t] = "none"

Next ==
  /\ UNCHANGED service
  /\ \/ service = "runner" /\ TrNext /\ UNCHANGED <<hmVars, fwVars, awVars, arVars, rpVars>>
     \/ service = "health" /\ HmNext /\ UNCHANGED <<trVars, fwVars, awVars, arVars, rpVars>>
     \/ service = "watcher" /\ FwNext /\ UNCHANGED <<trVars, hmVars, awVars, arVars, rpVars>>
     \/ service = "rebuild" /\ AwNext /\ UNCHANGED <<trVars, hmVars, fwVars, arVars, rpVars>>
     \/ service = "artifacts" /\ ArNext /\ UNCHANGED <<trVars, hmVars, fwVars, awVars, rpVars>>
     \/ service = "report" /\ RpNext /\ UNCHANGED <<trVars, hmVars, fwVars, awVars, arVars>>

allVars == <<service, trVars, hmVars, fwVars, awVars, arVars, rpVars>>

\* The interval fires, every fetch is answered or given up after 5 s, and what
\* is answered is dealt with.  Test commands end or are given up after two
\* minutes, and writes to disk end.
Fairness ==
  /\ WF_allVars(service = "health" /\ HmPoll /\ UNCHANGED <<service, trVars, fwVars, awVars, arVars, rpVars>>)
  /\ \A k \in Rounds, e \in Entries :
       WF_allVars(/\ service = "health" /\ (Answer(k, e) \/ Record(k, e))
                  /\ UNCHANGED <<service, trVars, fwVars, awVars, arVars, rpVars>>)
  /\ \A b \in Rebuilds :
       WF_allVars(/\ service = "rebuild" /\ phase = "watching"
                  /\ \/ \E ended \in SUBSET testing[b] : Tested(b, ended)
                     \/ WatchResultsWritten(b) \/ WatchLogWritten(b) \/ RebuildFails(b)
                  /\ UNCHANGED <<service, trVars, hmVars, fwVars, arVars, rpVars>>)

Spec == Init /\ [][Next]_allVars /\ Fairness

-----------------------------------------------------------------------------
MCIds == {"s1"}
MCUrls == {"u1", "u2"}
MCEntries == MCIds \X MCUrls
MCAtFirst == {<<"s1", "u1">>}
MCFiles == {"f1", "f2", "f3"}
MCTests == {<<"f1", "a">>, <<"f1", "b">>, <<"f2", "a">>}
=============================================================================
